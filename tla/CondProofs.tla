----------------------------- MODULE CondProofs -----------------------------
(***************************************************************************)
(* Proofs about Cond: who holds the mutex of a condition variable between  *)
(* and inside its methods, for any number of threads and calls.            *)
(***************************************************************************)
EXTENDS Cond, TLAPS

PCs == {"idle", "lock", "body", "signal", "blocked", "relock", "return"}

IInv == TypeOK /\ LockKept

LEMMA CallKeeps ==
    ASSUME IInv, NEW t \in Threads, NEW m \in Methods \ {"none"}, Call(t, m)
    PROVE  IInv'
<1>1. TypeOK /\ LockKept
  BY DEF IInv
<1>2. TypeOK'
  BY <1>1 DEF TypeOK, LockKept, Blocked, Methods, At, Goto, Call
<1>3. LockKept'
  BY <1>1, ThreadsAssumption
     DEF TypeOK, LockKept, LeftLocked, Holds, Methods, None, At, Goto, Call
<1> QED BY <1>2, <1>3 DEF IInv

LEMMA LockKeeps ==
    ASSUME IInv, NEW t \in Threads, Lock(t)
    PROVE  IInv'
<1>1. TypeOK /\ LockKept
  BY DEF IInv
<1>2. TypeOK'
  BY <1>1 DEF TypeOK, LockKept, Blocked, Methods, At, Goto, Lock
<1>3. LockKept'
  BY <1>1, ThreadsAssumption
     DEF TypeOK, LockKept, LeftLocked, Holds, Methods, None, At, Goto, Lock
<1> QED BY <1>2, <1>3 DEF IInv

LEMMA ChangeKeeps ==
    ASSUME IInv, NEW t \in Threads, Change(t)
    PROVE  IInv'
<1>1. TypeOK /\ LockKept
  BY DEF IInv
<1>2. TypeOK'
  BY <1>1 DEF TypeOK, LockKept, Blocked, Methods, At, Goto, Change
<1>3. LockKept'
  BY <1>1, ThreadsAssumption
     DEF TypeOK, LockKept, LeftLocked, Holds, Methods, None, At, Goto, Change
<1> QED BY <1>2, <1>3 DEF IInv

LEMMA SignalKeeps ==
    ASSUME IInv, NEW t \in Threads, NEW W \in SUBSET Threads, Signal(t, W)
    PROVE  IInv'
<1>1. TypeOK /\ LockKept
  BY DEF IInv
<1>2. TypeOK'
  BY <1>1 DEF TypeOK, LockKept, Blocked, Methods, At, Goto, Signal, Woken
<1>3. LockKept'
  <2>1. \A x \in Threads : Holds(x)' <=> Holds(x)
    BY <1>1 DEF TypeOK, Blocked, Holds, At, Signal, Woken
  <2>2. \A x \in Threads : At(x, "idle")' <=> At(x, "idle") \/ x = t
    BY <1>1 DEF TypeOK, Blocked, At, Signal, Woken
  <2>3. \A x \in Threads : At(x, "lock")' <=> At(x, "lock")
    BY <1>1 DEF TypeOK, Blocked, At, Signal, Woken
  <2>4. owner # t
    BY <1>1, ThreadsAssumption DEF LockKept, LeftLocked, Holds, At, Signal
  <2>5. owner' = owner /\ call' = call /\ owner \in Threads \cup {None}
    BY <1>1 DEF Signal, TypeOK
  <2> QED BY <1>1, <2>1, <2>2, <2>3, <2>4, <2>5 DEF LockKept, LeftLocked
<1> QED BY <1>2, <1>3 DEF IInv

LEMMA BlockKeeps ==
    ASSUME IInv, NEW t \in Threads, Block(t)
    PROVE  IInv'
<1>1. TypeOK /\ LockKept
  BY DEF IInv
<1>2. TypeOK'
  BY <1>1 DEF TypeOK, LockKept, Blocked, Methods, At, Goto, Block
<1>3. LockKept'
  BY <1>1, ThreadsAssumption
     DEF TypeOK, LockKept, LeftLocked, Holds, Methods, None, At, Goto, Block
<1> QED BY <1>2, <1>3 DEF IInv

LEMMA WakeUpKeeps ==
    ASSUME IInv, NEW t \in Threads, WakeUp(t)
    PROVE  IInv'
<1>1. TypeOK /\ LockKept
  BY DEF IInv
<1>2. TypeOK'
  BY <1>1 DEF TypeOK, LockKept, Blocked, Methods, At, Goto, WakeUp
<1>3. LockKept'
  BY <1>1, ThreadsAssumption
     DEF TypeOK, LockKept, LeftLocked, Holds, Methods, None, At, Goto, WakeUp
<1> QED BY <1>2, <1>3 DEF IInv

LEMMA RelockKeeps ==
    ASSUME IInv, NEW t \in Threads, Relock(t)
    PROVE  IInv'
<1>1. TypeOK /\ LockKept
  BY DEF IInv
<1>2. TypeOK'
  BY <1>1 DEF TypeOK, LockKept, Blocked, Methods, At, Goto, Relock
<1>3. LockKept'
  BY <1>1, ThreadsAssumption
     DEF TypeOK, LockKept, LeftLocked, Holds, Methods, None, At, Goto, Relock
<1> QED BY <1>2, <1>3 DEF IInv

LEMMA ReturnKeeps ==
    ASSUME IInv, NEW t \in Threads, Return(t)
    PROVE  IInv'
<1>1. TypeOK /\ LockKept
  BY DEF IInv
<1>2. TypeOK'
  BY <1>1 DEF TypeOK, LockKept, Blocked, Methods, At, Goto, Return, OwnerAfter
<1>3. LockKept'
  BY <1>1, ThreadsAssumption
     DEF TypeOK, LockKept, LeftLocked, Holds, Methods, None, At, Goto, Return, OwnerAfter
<1> QED BY <1>2, <1>3 DEF IInv

LEMMA InitInv == Init => IInv
<1> SUFFICES ASSUME Init PROVE IInv
  OBVIOUS
<1>1. TypeOK
  BY DEF Init, InitialStatus, TypeOK, Blocked, Methods, At
<1>2. LockKept
  BY DEF Init, LockKept, Holds, At
<1> QED BY <1>1, <1>2 DEF IInv

LEMMA NextInv == IInv /\ [Next]_vars => IInv'
<1> SUFFICES ASSUME IInv, [Next]_vars PROVE IInv'
  OBVIOUS
<1>1. CASE \E t \in Threads : Step(t) \/ WakeUp(t)
  BY <1>1, LockKeeps, ChangeKeeps, BlockKeeps, RelockKeeps, ReturnKeeps,
     SignalKeeps, WakeUpKeeps DEF Step
<1>2. CASE \E t \in Threads, m \in Methods \ {"none"} : Call(t, m)
  BY <1>2, CallKeeps
<1>3. CASE UNCHANGED <<pc, call, owner, status, calls, due>> /\ alive' \in BOOLEAN
  BY <1>3 DEF IInv, TypeOK, LockKept, LeftLocked, Holds, Blocked, At
<1>4. CASE UNCHANGED vars
  BY <1>3, <1>4 DEF vars, IInv, TypeOK
<1>5. CASE Destroy
  BY <1>3, <1>5 DEF Destroy
<1> QED BY <1>1, <1>2, <1>4, <1>5 DEF Next

\* Every variable has its type; in particular the threads that a broadcast has
\* still to wake are threads blocked in wait or timewait.
THEOREM TypeCorrect == Spec => []TypeOK
<1>1. IInv => TypeOK
  BY DEF IInv
<1> QED BY InitInv, NextInv, <1>1, PTL DEF Spec

\* The mutex is held by the thread in the middle of a method, by it alone, and
\* by nobody outside one but after a timewait: with any number of threads.
THEOREM MutexKept == Spec => [](TypeOK /\ LockKept)
<1>1. IInv => TypeOK /\ LockKept
  BY DEF IInv
<1> QED BY InitInv, NextInv, <1>1, PTL DEF Spec

\* What cond.c:126 leaves: the first timewait that returns keeps the mutex, and
\* from then on no method gets past its pthread_mutex_lock.
LEMMA LeftStep == IInv /\ LeftLocked /\ [Next]_vars => LeftLocked'
<1> SUFFICES ASSUME IInv, LeftLocked, [Next]_vars PROVE LeftLocked'
  OBVIOUS
<1> DEFINE Left(l, m) == l = "lock" \/ (l = "idle" /\ m = "timewait")
<1>0. /\ owner \in Threads /\ owner # None /\ Left(pc[owner], call[owner])
      /\ \A t \in Threads : Holds(t) => t = owner
      /\ pc \in [Threads -> PCs]
  BY ThreadsAssumption DEF IInv, TypeOK, LeftLocked, LockKept, At, PCs
<1>1. ASSUME NEW t \in Threads, Step(t) \/ WakeUp(t) \/ \E m \in Methods : Call(t, m)
      PROVE  owner' = owner /\ Left(pc'[owner], call'[owner])
  <2>1. ~Lock(t) /\ ~Relock(t)
    BY <1>0 DEF Lock, Relock
  <2>2. ~Change(t) /\ ~Block(t) /\ ~Return(t)
    BY <1>0 DEF Change, Block, Return, Holds, At
  <2>3. CASE \E W \in SUBSET Threads : Signal(t, W)
    BY <1>0, <2>3 DEF Signal, Woken, Blocked, At
  <2>4. CASE WakeUp(t)
    BY <1>0, <2>4 DEF WakeUp, At, Goto
  <2>5. CASE \E m \in Methods : Call(t, m)
    BY <1>0, <2>5 DEF Call, At, Goto
  <2> QED BY <1>1, <2>1, <2>2, <2>3, <2>4, <2>5 DEF Step
<1>2. CASE Destroy \/ UNCHANGED vars
  BY <1>0, <1>2 DEF Destroy, vars, LeftLocked, At
<1> QED BY <1>0, <1>1, <1>2 DEF Next, LeftLocked, At

\* Once a timewait has returned the mutex stays locked for ever.
THEOREM LeftForEver == Spec => [](LeftLocked => []LeftLocked)
<1>1. Spec => []IInv
  BY InitInv, NextInv, PTL DEF Spec
<1> QED BY <1>1, LeftStep, PTL DEF Spec

=============================================================================
