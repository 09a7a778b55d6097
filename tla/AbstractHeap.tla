---------------------------- MODULE AbstractHeap ----------------------------
(***************************************************************************)
(* What memory_manager.c promises its caller, without blocks, headers or   *)
(* lists: a successful allocate(n) hands out n bytes of the buffer that no *)
(* other live allocation uses, aligned to 8, and nothing but the caller's  *)
(* own free (or a new static_init) takes them back.  An allocation that    *)
(* fails leaves no trace here.                                             *)
(***************************************************************************)
EXTENDS Naturals

CONSTANTS Buff,      \* address of the caller's buffer
          BuffSize,  \* its length in bytes
          Requests   \* the sizes callers ask for

VARIABLE live        \* [pointers handed out -> bytes asked for]

Bytes(p, n) == p .. p + n - 1

Init == live = [p \in {} |-> 0]

Alloc(n) ==
    \E p \in Buff .. Buff + BuffSize - 1 :
        /\ n > 0
        /\ p % 8 = 0
        /\ p + n <= Buff + BuffSize
        /\ \A q \in DOMAIN live : Bytes(p, n) \cap Bytes(q, live[q]) = {}
        /\ live' = [q \in DOMAIN live \cup {p} |-> IF q = p THEN n ELSE live[q]]

Free(p) == live' = [q \in DOMAIN live \ {p} |-> live[q]]

Reset == live' = [p \in {} |-> 0]

Next == \/ \E n \in Requests : Alloc(n)
        \/ \E p \in DOMAIN live : Free(p)
        \/ Reset

Spec == Init /\ [][Next]_live
=============================================================================
