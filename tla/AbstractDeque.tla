--------------------------- MODULE AbstractDeque ---------------------------
(***************************************************************************)
(* What linklist.c promises threads that share a list and add at its ends: *)
(* a sequence of at most Room items, on which every call takes effect, by  *)
(* its method and arguments, and gets its answer at one instant between    *)
(* call and return.                                                        *)
(***************************************************************************)
EXTENDS Integers, Sequences, SequencesExt

CONSTANTS Threads,
          Calls,     \* the calls: records of method, idx and item
          Room       \* how many items there is memory for

VARIABLES seq,   \* the items on the list, first to last
          call,  \* [Threads -> the call that has not taken effect, or NoCall]
          last   \* the answer being returned, and to whom

vars == <<seq, call, last>>

NULL == 0
NoCall == [method |-> "none", idx |-> 0, item |-> NULL]
NoAnswer == [thread |-> 0, value |-> 0]

Init == seq = <<>> /\ call = [t \in Threads |-> NoCall] /\ last = NoAnswer

Invoke(t) ==
    /\ call[t] = NoCall /\ last.thread # t
    /\ \E c \in Calls : call' = [call EXCEPT ![t] = c]
    /\ UNCHANGED <<seq, last>>

\* The call of t is answered with r; the one before has returned.
Answer(t, r) ==
    /\ last = NoAnswer
    /\ last' = [thread |-> t, value |-> r]
    /\ call' = [call EXCEPT ![t] = NoCall]

\* The call of t is of one of these methods.
Asks(t, methods) == call[t].method \in methods

\* The position, counted from 0, that the call of t is about.
Position(t) ==
    CASE Asks(t, {"get_first", "rm_first"}) -> 0
      [] Asks(t, {"get_end", "rm_end"}) -> Len(seq) - 1
      [] Asks(t, {"get_middle", "rm_middle"}) -> call[t].idx
IsItem(i) == i \in 0 .. Len(seq) - 1

AddFirst(t) ==
    /\ Asks(t, {"add_first", "add_middle"})
    /\ Len(seq) < Room
    /\ seq' = <<call[t].item>> \o seq
    /\ Answer(t, 0)

\* add_end answers with the index of the new item.
AddEnd(t) ==
    /\ Asks(t, {"add_end"})
    /\ Len(seq) < Room
    /\ seq' = Append(seq, call[t].item)
    /\ Answer(t, Len(seq))

\* Only when there is no memory.
AddRefused(t) ==
    /\ Asks(t, {"add_end"})
    /\ Len(seq) = Room
    /\ Answer(t, -1) /\ UNCHANGED seq

Get(t) ==
    /\ Asks(t, {"get_first", "get_end", "get_middle"})
    /\ Answer(t, IF IsItem(Position(t)) THEN seq[Position(t) + 1] ELSE NULL)
    /\ UNCHANGED seq

Unlink(t) ==
    /\ Asks(t, {"rm_first", "rm_end", "rm_middle"})
    /\ IsItem(Position(t))
    /\ seq' = RemoveAt(seq, Position(t) + 1)
    /\ Answer(t, 0)

\* Removing the first or last item of an empty list succeeds too.
NothingThere(t) ==
    /\ Asks(t, {"rm_first", "rm_end", "rm_middle"})
    /\ ~IsItem(Position(t))
    /\ Answer(t, IF Position(t) > 0 THEN -1 ELSE 0) /\ UNCHANGED seq

Length(t) == Asks(t, {"len"}) /\ Answer(t, Len(seq)) /\ UNCHANGED seq

\* A list with items on it is not destroyed.
DestroyRefused(t) ==
    Asks(t, {"destroy"}) /\ seq # <<>> /\ Answer(t, -1) /\ UNCHANGED seq

Return(t) == last.thread = t /\ last' = NoAnswer /\ UNCHANGED <<seq, call>>

Next == \E t \in Threads :
            \/ Invoke(t) \/ Return(t)
            \/ AddFirst(t) \/ AddEnd(t) \/ AddRefused(t) \/ Get(t)
            \/ Unlink(t) \/ NothingThere(t) \/ Length(t) \/ DestroyRefused(t)

Spec == Init /\ [][Next]_vars
=============================================================================
