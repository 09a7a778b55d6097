------------------------------ MODULE Linklist ------------------------------
(***************************************************************************)
(* The list object of linux/src/linklist.c, shared by threads.             *)
(*                                                                         *)
(* list is the memory of the list: the header's first, tail and cnt, and   *)
(* the nodes omalloc has given out.  A method is a call, the mutex taken   *)
(* (by the method, or for the rm methods, which do not take it, by the     *)
(* application), the words of the list read, the words changed written,    *)
(* and the mutex released.  Read and write are two steps, so that what a   *)
(* method without the mutex would do to another is in the model.           *)
(* crashed is the method that dereferenced NULL, "" while none has.        *)
(***************************************************************************)
EXTENDS Integers, Sequences, FiniteSets

CONSTANTS Threads,
          Items,        \* the objects put on the list, as numbers
          Junk,         \* what memory from omalloc holds: any value at all
          Nodes,        \* the nodes there is memory for
          Methods,      \* the methods the application calls
          AddIndexes,   \* the indexes it passes to add_middle
          Indexes,      \* the indexes it passes to get_middle and rm_middle
          CallerLocks   \* the application holds ll->lock around the rm methods

VARIABLES list,     \* [first, tail, cnt, node, alive]
          owner,    \* who holds ll->mutex
          pc,       \* [Threads -> idle, lock, read, write, return]
          call,     \* [Threads -> the call: method, index and item]
          local,    \* [Threads -> the list as read, and as it is to become]
          last,     \* the answer being returned, and to whom
          crashed

vars == <<list, owner, pc, call, local, last, crashed>>

NULL == 0
Nobody == 0

ASSUME ListAssumption ==
    /\ Items \subseteq Nat \ {NULL} /\ Junk \in Nat \ (Items \cup {NULL})
    /\ Nodes \subseteq Nat \ {NULL} /\ IsFiniteSet(Nodes)
    /\ Threads \subseteq Nat \ {Nobody}
    /\ AddIndexes \subseteq Nat /\ Indexes \subseteq Nat
    /\ CallerLocks \in BOOLEAN

Blank == [ins |-> Junk, next |-> NULL, prev |-> NULL]

\* LinklistNew and Linklist_Init
EmptyList == [first |-> NULL, tail |-> NULL, cnt |-> 0,
              node |-> [n \in Nodes |-> Blank], alive |-> {}]

-----------------------------------------------------------------------------
(* The list functions, on the memory l of a list.                          *)

\* The k-th node from the first, NULL beyond the end.
Nth(l, k) ==
    LET at[i \in 0 .. k] ==
            IF i = 0 THEN l.first
            ELSE IF at[i - 1] = NULL THEN NULL ELSE l.node[at[i - 1]].next
    IN  at[k]

\* omalloc: a node that is not in use; NULL when there is none.
Malloc(l) == IF Nodes \ l.alive = {} THEN NULL
             ELSE CHOOSE n \in Nodes \ l.alive : \A m \in Nodes \ l.alive : n <= m

\* A node, with the given words, is put in use; a node is given back.
Put(l, n, ins, next, prev) ==
    [l EXCEPT !.alive = @ \cup {n},
              !.node = [@ EXCEPT ![n] = [ins |-> ins, next |-> next, prev |-> prev]]]
Drop(l, n) == [l EXCEPT !.alive = @ \ {n}, !.node = [@ EXCEPT ![n] = Blank]]

\* p->next = n and p->prev = n, where p is not NULL.
SetNext(l, p, n) == IF p = NULL THEN l ELSE [l EXCEPT !.node[p].next = n]
SetPrev(l, p, n) == IF p = NULL THEN l ELSE [l EXCEPT !.node[p].prev = n]

\* What a function leaves behind: the list, its answer, whether it survives.
Done(l, r) == [list |-> l, ret |-> r, crash |-> FALSE]
Crash(l) == [list |-> l, ret |-> -1, crash |-> TRUE]

InsertTail(l, x) ==
    LET n == Malloc(l)
        m == SetNext(Put(l, n, x, NULL, IF l.first = NULL THEN NULL ELSE l.tail),
                     IF l.first = NULL THEN NULL ELSE l.tail, n)
    IN  IF n = NULL THEN Done(l, -1)
        ELSE Done([m EXCEPT !.first = IF @ = NULL THEN n ELSE @,
                            !.tail = n, !.cnt = @ + 1], l.cnt)

\* The result of omalloc is used without a test.
InsertFirst(l, x) ==
    LET n == Malloc(l)
        m == SetPrev(Put(l, n, x, l.first, NULL), l.first, n)
    IN  IF n = NULL THEN Crash(l)
        ELSE Done([m EXCEPT !.tail = IF l.first = NULL THEN n ELSE @,
                            !.first = n, !.cnt = @ + 1], 0)

\* At the end or beyond it, a tail is inserted before the search begins.  The
\* new node's ins is not assigned, and the node after it need not exist.
InsertMiddle(l, x, idx, junk) ==
    LET m == IF idx >= l.cnt THEN InsertTail(l, x).list ELSE l
        n == Malloc(m)
        p == Nth(m, idx - 1)
    IN  IF p = NULL THEN Done(IF n = NULL THEN m ELSE Put(m, n, junk, NULL, NULL), -1)
        ELSE IF n = NULL \/ m.node[p].next = NULL THEN Crash(m)
        ELSE LET after == m.node[p].next
                 linked == SetNext(SetPrev(Put(m, n, junk, after, p), after, n), p, n)
             IN  Done([linked EXCEPT !.cnt = @ + 1], idx)
InsertIndex(l, x, idx, junk) ==
    IF idx = 0 THEN InsertFirst(l, x) ELSE InsertMiddle(l, x, idx, junk)

GetFirst(l) == IF l.cnt = 0 THEN NULL ELSE l.node[l.first].ins
GetTail(l) == IF l.cnt = 0 THEN NULL ELSE l.node[l.tail].ins
GetIndex(l, idx) ==
    IF idx > l.cnt THEN NULL
    ELSE IF idx = 0 THEN GetFirst(l)
    ELSE IF Nth(l, idx) = NULL THEN NULL ELSE l.node[Nth(l, idx)].ins

\* Mutant of RemoveTail: an empty list is counted down.
RemoveTailCounts(l) == Done([l EXCEPT !.cnt = @ - 1], 0)

RemoveTail(l) ==
    IF l.tail = NULL THEN Done(l, 0)
    ELSE LET n == l.tail
             m == SetNext(l, l.node[n].prev, l.node[n].next)
         IN  Done(Drop([m EXCEPT !.tail = l.node[n].prev,
                                 !.first = IF @ = n THEN l.node[n].next ELSE @,
                                 !.cnt = @ - 1], n), 0)

RemoveFirst(l) ==
    IF l.first = NULL THEN Done(l, 0)
    ELSE LET n == l.first
             m == SetPrev(l, l.node[n].next, l.node[n].prev)
         IN  Done(Drop([m EXCEPT !.first = l.node[n].next,
                                 !.tail = IF @ = n THEN l.node[n].prev ELSE @,
                                 !.cnt = @ - 1], n), 0)

RemoveMiddle(l, n) ==
    LET m == SetPrev(SetNext(l, l.node[n].prev, l.node[n].next), l.node[n].next, l.node[n].prev)
    IN  Done(Drop([m EXCEPT !.cnt = @ - 1], n), 0)

RemoveIndex(l, idx) ==
    LET n == Nth(l, idx)
    IN  CASE idx > l.cnt -> Done(l, -1)
          [] idx = 0 -> RemoveFirst(l)
          [] idx \in 1 .. l.cnt /\ n = NULL -> Done(l, -1)
          [] idx \in 1 .. l.cnt /\ n # NULL /\ n = l.tail -> RemoveTail(l)
          [] OTHER -> RemoveMiddle(l, n)

-----------------------------------------------------------------------------
(* The methods of the object.                                              *)

\* The calls an application can make, each with its arguments.
Arg(m, i, x) == [method |-> m, idx |-> i, item |-> x]
Plain == {"len", "get_first", "get_end", "rm_first", "rm_end", "destroy"}
Calls ==
    {Arg(m, 0, NULL) : m \in Plain \cap Methods}
        \cup {Arg(m, 0, x) : m \in {"add_first", "add_end"} \cap Methods, x \in Items}
        \cup {Arg(m, i, x) : m \in {"add_middle"} \cap Methods, i \in AddIndexes, x \in Items}
        \cup {Arg(m, i, NULL) : m \in {"get_middle", "rm_middle"} \cap Methods, i \in Indexes}

\* The methods that do not take the mutex; destroy calls len, which does.
Removals == {"rm_first", "rm_end", "rm_middle"}

\* Mutants of TakesMutex: a method that only reads does not take it; the
\* methods that add at the ends do not take it either.
TakesMutexToWrite(m) == m \in {"add_first", "add_end", "add_middle"}
TakesMutexInside(m) == m \notin Removals \cup {"add_first", "add_end"}

TakesMutex(m) == m \notin Removals

\* What method c makes of list l.  A list with nodes refuses destroy, which
\* on an empty one calls mutex->destroy: mutex_new has left it NULL.
Body(c, l, junk) ==
    CASE c.method = "add_first"  -> InsertFirst(l, c.item)
      [] c.method = "add_end"    -> InsertTail(l, c.item)
      [] c.method = "add_middle" -> InsertIndex(l, c.item, c.idx, junk)
      [] c.method = "get_first"  -> Done(l, GetFirst(l))
      [] c.method = "get_end"    -> Done(l, GetTail(l))
      [] c.method = "get_middle" -> Done(l, GetIndex(l, c.idx))
      [] c.method = "rm_first"   -> RemoveFirst(l)
      [] c.method = "rm_end"     -> RemoveTail(l)
      [] c.method = "rm_middle"  -> RemoveIndex(l, c.idx)
      [] c.method = "len"        -> Done(l, l.cnt)
      [] c.method = "destroy"    -> IF l.cnt # 0 THEN Done(l, -1) ELSE Crash(l)

\* The words of cur after those that differ between old and new are written.
Written(cur, old, new) ==
    [first |-> IF new.first # old.first THEN new.first ELSE cur.first,
     tail  |-> IF new.tail # old.tail THEN new.tail ELSE cur.tail,
     cnt   |-> IF new.cnt # old.cnt THEN new.cnt ELSE cur.cnt,
     node  |-> [n \in Nodes |->
                  [w \in {"ins", "next", "prev"} |->
                      IF new.node[n][w] # old.node[n][w]
                      THEN new.node[n][w] ELSE cur.node[n][w]]],
     alive |-> (cur.alive \ (old.alive \ new.alive)) \cup (new.alive \ old.alive)]

NoCall == Arg("none", 0, NULL)
NoAnswer == [thread |-> Nobody, value |-> 0]
Idle == [old |-> EmptyList, new |-> EmptyList, ret |-> 0]

Init ==
    /\ list = EmptyList
    /\ owner = Nobody
    /\ pc = [t \in Threads |-> "idle"]
    /\ call = [t \in Threads |-> NoCall]
    /\ local = [t \in Threads |-> Idle]
    /\ last = NoAnswer
    /\ crashed = ""

At(t, p) == crashed = "" /\ pc[t] = p
Goto(t, p) == pc' = [pc EXCEPT ![t] = p]

Call(t) ==
    /\ At(t, "idle")
    /\ \E c \in Calls :
          /\ call' = [call EXCEPT ![t] = c]
          /\ Goto(t, IF TakesMutex(c.method) \/ (CallerLocks /\ c.method \in Removals)
                     THEN "lock" ELSE "read")
    /\ UNCHANGED <<list, owner, local, last, crashed>>

Lock(t) ==
    /\ At(t, "lock")
    /\ owner = Nobody
    /\ owner' = t
    /\ Goto(t, "read")
    /\ UNCHANGED <<list, call, local, last, crashed>>

Read(t) ==
    /\ At(t, "read")
    /\ \E junk \in Items \cup {Junk} :
          LET b == Body(call[t], list, junk)
          IN  IF b.crash
              THEN crashed' = call[t].method /\ UNCHANGED <<pc, local>>
              ELSE /\ local' = [local EXCEPT ![t] =
                                  [old |-> list, new |-> b.list, ret |-> b.ret]]
                   /\ Goto(t, "write")
                   /\ UNCHANGED crashed
    /\ UNCHANGED <<list, owner, call, last>>

Write(t) ==
    /\ At(t, "write")
    /\ list' = Written(list, local[t].old, local[t].new)
    /\ last' = [thread |-> t, value |-> local[t].ret]
    /\ local' = [local EXCEPT ![t] = Idle]
    /\ call' = [call EXCEPT ![t] = NoCall]
    /\ Goto(t, "return")
    /\ UNCHANGED <<owner, crashed>>

\* Mutant of Return: a method that fails keeps the mutex.
ReturnEarly(t) ==
    /\ At(t, "return")
    /\ owner' = IF owner = t /\ last.value # -1 THEN Nobody ELSE owner
    /\ last' = NoAnswer
    /\ Goto(t, "idle")
    /\ UNCHANGED <<list, call, local, crashed>>

Return(t) ==
    /\ At(t, "return")
    /\ owner' = IF owner = t THEN Nobody ELSE owner
    /\ last' = NoAnswer
    /\ Goto(t, "idle")
    /\ UNCHANGED <<list, call, local, crashed>>

Step(t) == Lock(t) \/ Read(t) \/ Write(t) \/ Return(t)

Next == \E t \in Threads : Call(t) \/ Step(t)

Spec == Init /\ [][Next]_vars

\* A thread inside a method goes on; whether one calls again is its business.
FairSpec == Spec /\ \A t \in Threads : WF_vars(Step(t))

-----------------------------------------------------------------------------
(* Properties                                                              *)

\* The nodes from the first, as far as cnt says.
Walk == [k \in 1 .. list.cnt |-> Nth(list, k - 1)]

TypeOK ==
    /\ list.alive \subseteq Nodes
    /\ {list.first, list.tail} \subseteq Nodes \cup {NULL}
    /\ list.cnt \in 0 .. Cardinality(Nodes)
    /\ \A n \in Nodes : /\ list.node[n].ins \in Items \cup {Junk}
                         /\ {list.node[n].next, list.node[n].prev} \subseteq Nodes \cup {NULL}
    /\ owner \in Threads \cup {Nobody}
    /\ pc \in [Threads -> {"idle", "lock", "read", "write", "return"}]
    /\ last.value \in (-1 .. Cardinality(Nodes)) \cup Items \cup {Junk}

\* After every method, of whatever thread: first, tail, next, prev and
\* node_cnt agree.  Following next from first gives node_cnt nodes in use and
\* ends at tail, and prev is next backwards.
ListShape ==
    /\ \A k \in 1 .. list.cnt : Walk[k] \in list.alive
    /\ \A j, k \in 1 .. list.cnt : j # k => Walk[j] # Walk[k]
    /\ \A k \in 1 .. list.cnt :
          list.node[Walk[k]].prev = IF k = 1 THEN NULL ELSE Walk[k - 1]
    /\ Nth(list, list.cnt) = NULL
    /\ list.tail = IF list.cnt = 0 THEN NULL ELSE Walk[list.cnt]

\* The mutex is given back by whoever has taken it, on every path of a method.
Released == \A t \in Threads : owner = t ~> (owner # t \/ crashed # "")

\* The items of list l, first to last.
Content(l) == [k \in 1 .. l.cnt |-> l.node[Nth(l, k - 1)].ins]

\* The list is a deque of as many items as there are nodes: every call of every
\* thread has, by its method and arguments, one effect at one instant and the
\* answer that goes with it.  This is so when the application adds at the ends
\* and holds the mutex around the rm methods, which do not take it.
Deque == INSTANCE AbstractDeque WITH seq <- Content(list), Room <- Cardinality(Nodes)
ImplementsDeque == Deque!Spec

\* add_middle at an insert index, 0 to node_cnt, when it succeeds, adds one
\* node, and the item can then be read at that index.
Adding(t) == /\ pc[t] = "write" /\ call[t].method = "add_middle"
             /\ call[t].idx <= local[t].old.cnt
             /\ local[t].ret # -1
AddedAtIndex ==
    \A t \in Threads : Adding(t) =>
        /\ local[t].new.cnt = local[t].old.cnt + 1
        /\ GetIndex(local[t].new, call[t].idx) = call[t].item
=============================================================================
