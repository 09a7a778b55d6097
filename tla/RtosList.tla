------------------------------ MODULE RtosList ------------------------------
(***************************************************************************)
(* The lists of rtos/src/list.c and the macros of rtos/include/list.h: a   *)
(* doubly linked ring per list, closed by the list's end marker, with an   *)
(* index that walks it.  Items move between lists.                         *)
(*                                                                         *)
(* A list is named by its end marker, xListEnd, which is a node like the   *)
(* items.  Words of an item that is on no list keep their stale values.    *)
(* due is history: the items that the walk has yet to return before it may *)
(* return a given one.  The application calls every function inside a      *)
(* critical section, as the header asks, so each is one action.            *)
(***************************************************************************)
EXTENDS Integers, FiniteSets

CONSTANTS Items, Lists,
          SortedLists,  \* lists the application fills by vListInsert only
          Values,       \* xItemValue of the items
          MaxDelay      \* portMAX_DELAY

NULL == 0
Node == Items \cup Lists

ASSUME NodesAssumption ==
    /\ IsFiniteSet(Items)
    /\ Items \cap Lists = {} /\ NULL \notin Node
    /\ SortedLists \subseteq Lists

ASSUME ValuesAssumption ==
    MaxDelay \in Nat /\ Values \subseteq 0 .. MaxDelay

VARIABLES value,      \* xItemValue
          next,       \* pxNext
          prev,       \* pxPrevious
          container,  \* pxContainer
          index,      \* pxIndex of each list
          num,        \* uxNumberOfItems of each list
          due

links == <<next, prev>>
vars == <<value, next, prev, container, index, num, due>>

\* Every list after vListInitialise, every item after vListInitialiseItem.
Init ==
    /\ value \in [Items -> Values]
    /\ next = [x \in Node |-> x]
    /\ prev = [x \in Node |-> x]
    /\ container = [i \in Items |-> NULL]
    /\ index = [l \in Lists |-> l]
    /\ num = [l \in Lists |-> 0]
    /\ due = [i \in Items |-> {}]

\* The end marker's value is portMAX_DELAY.
ValueOf(x) == IF x \in Lists THEN MaxDelay ELSE value[x]

On(l) == {i \in Items : container[i] = l}
Ring(l) == {l} \cup On(l)

-----------------------------------------------------------------------------
\* listSET_LIST_ITEM_VALUE; an application does not do it to a listed item.
SetValue(i, v) ==
    /\ container[i] = NULL
    /\ value' = [value EXCEPT ![i] = v]
    /\ UNCHANGED <<next, prev, container, index, num, due>>

\* Item i is linked in between its neighbours a and b.
Link(i, a, b) ==
    /\ next' = [next EXCEPT ![a] = i, ![i] = b]
    /\ prev' = [prev EXCEPT ![b] = i, ![i] = a]

\* Mutant of Contain: the item is not counted.
ContainUncounted(i, l) ==
    /\ container' = [container EXCEPT ![i] = l]
    /\ UNCHANGED num

Contain(i, l) ==
    /\ container' = [container EXCEPT ![i] = l]
    /\ num' = [num EXCEPT ![l] = @ + 1]

\* Where the loop of vListInsert comes to: from the end marker, on over every
\* next item whose value is not larger than v.
Passed(l, v) ==
    {x \in Ring(l) :
        \A S \in SUBSET Ring(l) :
            (/\ l \in S
             /\ \A y \in S : ValueOf(next[y]) <= v => next[y] \in S) => x \in S}

\* Mutant of Iterator: the loop stops at an equal value.
IteratorBeforeEquals(l, v) ==
    CHOOSE p \in Passed(l, v - 1) : ValueOf(next[p]) > v - 1

\* Mutant of Iterator: an item is put in front of a larger one's predecessor.
IteratorTooEarly(l, v) ==
    prev[CHOOSE p \in Passed(l, v) : ValueOf(next[p]) > v]

\* The item after which vListInsert puts one of value v < portMAX_DELAY.
Iterator(l, v) == CHOOSE p \in Passed(l, v) : ValueOf(next[p]) > v

\* vListInsert
Insert(l, i) ==
    /\ container[i] = NULL
    /\ LET it == IF value[i] = MaxDelay THEN prev[l] ELSE Iterator(l, value[i])
       IN  Link(i, it, next[it])
    /\ Contain(i, l)
    /\ due' = [due EXCEPT ![i] = {}]
    /\ UNCHANGED <<value, index>>

\* The node in front of which vListInsertEnd puts an item.
LastTurn(l) == index[l]

\* vListInsertEnd
InsertEnd(l, i) ==
    /\ l \notin SortedLists
    /\ container[i] = NULL
    /\ Link(i, prev[LastTurn(l)], LastTurn(l))
    /\ Contain(i, l)
    /\ due' = [due EXCEPT ![i] = On(l) \ {index[l]}]
    /\ UNCHANGED <<value, index>>

\* Mutants of IndexWithout: the index goes on to the next item; the index
\* is left on the removed item.
IndexWithoutForward(l, i) == IF index[l] = i THEN next[i] ELSE index[l]
IndexKept(l, i) == index[l]

\* pxIndex of list l once item i has left it.
IndexWithout(l, i) == IF index[l] = i THEN prev[i] ELSE index[l]

\* uxListRemove, of an item that is on a list
Remove(i) ==
    /\ container[i] # NULL
    /\ next' = [next EXCEPT ![prev[i]] = next[i]]
    /\ prev' = [prev EXCEPT ![next[i]] = prev[i]]
    /\ LET l == container[i]
       IN  /\ index' = [index EXCEPT ![l] = IndexWithout(l, i)]
           /\ num' = [num EXCEPT ![l] = @ - 1]
    /\ container' = [container EXCEPT ![i] = NULL]
    /\ due' = [j \in Items |-> IF j = i THEN {} ELSE due[j] \ {i}]
    /\ UNCHANGED value

\* listGET_OWNER_OF_NEXT_ENTRY, of a list that is not empty: the item whose
\* owner it returns is the one the index comes to.
Returned(l) == IF next[index[l]] = l THEN next[l] ELSE next[index[l]]

GetNext(l) ==
    /\ num[l] > 0
    /\ index' = [index EXCEPT ![l] = Returned(l)]
    /\ due' = [j \in Items |-> IF j = Returned(l) THEN On(l) \ {j}
                               ELSE due[j] \ {Returned(l)}]
    /\ UNCHANGED <<value, next, prev, container, num>>

Next ==
    \/ \E i \in Items, v \in Values : SetValue(i, v)
    \/ \E l \in Lists, i \in Items : Insert(l, i) \/ InsertEnd(l, i)
    \/ \E i \in Items : Remove(i)
    \/ \E l \in Lists : GetNext(l)

Spec == Init /\ [][Next]_vars

-----------------------------------------------------------------------------
(* Properties                                                              *)

TypeOK ==
    /\ value \in [Items -> Values]
    /\ next \in [Node -> Node]
    /\ prev \in [Node -> Node]
    /\ container \in [Items -> Lists \cup {NULL}]
    /\ index \in [Lists -> Node]
    /\ num \in [Lists -> Nat]
    /\ due \in [Items -> SUBSET Items]

\* Every list is one ring through its end marker: pxNext and pxPrevious are
\* each other's inverses on it, none of its links leaves it, a walk from the
\* end marker comes to every item whose container is the list, in either
\* direction, and pxIndex is on the ring: whatever has been moved where.
Closed(S, f) == \A x \in S : f[x] \in S
OneRing(l) ==
    /\ Closed(Ring(l), next) /\ Closed(Ring(l), prev)
    /\ \A x \in Ring(l) : prev[next[x]] = x /\ next[prev[x]] = x
    /\ \A S \in SUBSET Ring(l) :
          l \in S /\ (Closed(S, next) \/ Closed(S, prev)) => S = Ring(l)
    /\ index[l] \in Ring(l)
Rings == \A l \in Lists : OneRing(l)

\* uxNumberOfItems counts the items on the list.
Counted == \A l \in Lists : num[l] = Cardinality(On(l))

\* A list filled by vListInsert is sorted in ascending xItemValue order, and
\* its head, listGET_HEAD_ENTRY, has the least value, as the loop of vListInsert
\* and portMAX_DELAY in the end marker have it.  list.h says descending, of the
\* lists (35), of xItemValue (160, 210) and of vListInsert (377).
Sorted ==
    \A l \in SortedLists :
        /\ \A x \in On(l) : ValueOf(x) <= ValueOf(next[x])
        /\ \A x \in On(l) : ValueOf(next[l]) <= ValueOf(x)

\* A list filled by vListInsert is in descending xItemValue order, as list.h
\* says of it.
Descending ==
    \A l \in SortedLists : \A x \in On(l) :
        next[x] # l => ValueOf(next[x]) <= ValueOf(x)

\* The walk is fair: listGET_OWNER_OF_NEXT_ENTRY returns an item again only
\* when it has returned every other item that was there the last time, and an
\* item put in by vListInsertEnd only after all that were there but the one
\* the index is on, whatever is inserted and removed in between.  list.h:396
\* says every other item: the one the index is on has just been returned, and
\* comes after the new item.
Walks(l) == GetNext(l) /\ due[Returned(l)] # {}
NoOvertaking == [][\A l \in Lists : ~Walks(l)]_vars

\* The links implement sequences with a cursor.
Walk(l) ==
    LET at[k \in 0 .. num[l]] == IF k = 0 THEN l ELSE next[at[k - 1]]
    IN  [k \in 1 .. num[l] |-> at[k]]
Place(l) ==
    IF index[l] = l THEN 0 ELSE CHOOSE k \in 1 .. num[l] : Walk(l)[k] = index[l]
Sequence == INSTANCE AbstractRing WITH
                 ring <- [l \in Lists |-> [items |-> Walk(l), cursor |-> Place(l)]]
ImplementsRing == Sequence!Spec
=============================================================================
