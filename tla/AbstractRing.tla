---------------------------- MODULE AbstractRing ----------------------------
(***************************************************************************)
(* What rtos/src/list.c promises, without links: every list is a sequence  *)
(* of items and a cursor into it, 0 being the end marker.                  *)
(***************************************************************************)
EXTENDS Naturals, Sequences, SequencesExt

CONSTANTS Items, Lists, Values,
          MaxDelay   \* portMAX_DELAY, the value of the end marker

VARIABLES ring,      \* [Lists -> [items : Seq(Items), cursor : Nat]]
          value      \* [Items -> Values]

Init ==
    /\ ring = [l \in Lists |-> [items |-> <<>>, cursor |-> 0]]
    /\ value \in [Items -> Values]

Listed == UNION {ToSet(ring[l].items) : l \in Lists}

SetValue(i, v) ==
    /\ i \notin Listed
    /\ value' = [value EXCEPT ![i] = v]
    /\ UNCHANGED ring

\* Item i becomes the (n+1)-st; the cursor stays on its item.
PutAfter(l, n, i) ==
    ring' = [ring EXCEPT ![l] =
                [items |-> InsertAt(@.items, n + 1, i),
                 cursor |-> IF @.cursor > n THEN @.cursor + 1 ELSE @.cursor]]

\* Before the first item of a larger value, hence behind its equals; an item
\* of the largest value goes to the end.
Insert(l, i) ==
    LET s == ring[l].items
        larger == {k \in 1 .. Len(s) : value[s[k]] > value[i]}
    IN  /\ i \notin Listed
        /\ PutAfter(l, IF larger = {} THEN Len(s)
                       ELSE (CHOOSE k \in larger : \A j \in larger : k <= j) - 1, i)
        /\ UNCHANGED value

\* Where the walk comes last: in front of the cursor's item.
InsertEnd(l, i) ==
    /\ i \notin Listed
    /\ PutAfter(l, IF ring[l].cursor = 0 THEN Len(ring[l].items)
                   ELSE ring[l].cursor - 1, i)
    /\ UNCHANGED value

\* A cursor on the removed item falls back, so that the walk skips nobody.
Unlink(l, n) ==
    /\ ring' = [ring EXCEPT ![l] =
                   [items |-> RemoveAt(@.items, n),
                    cursor |-> IF @.cursor >= n THEN @.cursor - 1 ELSE @.cursor]]
    /\ UNCHANGED value

GetNext(l) ==
    /\ ring[l].items # <<>>
    /\ ring' = [ring EXCEPT ![l].cursor = IF @ = Len(ring[l].items) THEN 1 ELSE @ + 1]
    /\ UNCHANGED value

Next ==
    \/ \E i \in Items, v \in Values : SetValue(i, v)
    \/ \E l \in Lists, i \in Items : Insert(l, i) \/ InsertEnd(l, i)
    \/ \E l \in Lists : \E n \in 1 .. Len(ring[l].items) : Unlink(l, n)
    \/ \E l \in Lists : GetNext(l)

Spec == Init /\ [][Next]_<<ring, value>>
=============================================================================
