-------------------------------- MODULE Cond --------------------------------
(***************************************************************************)
(* The condition variable of linux/src/cond.c, used by several threads: a  *)
(* POSIX mutex and condition and a status.  A thread's pc is               *)
(*   idle     outside the object's methods                                 *)
(*   lock     in a method, at pthread_mutex_lock                           *)
(*   body     holding the mutex: about to set the status, or to wait       *)
(*   signal   about to signal or broadcast, the mutex given back           *)
(*   blocked  in pthread_cond_wait or pthread_cond_timedwait               *)
(*   relock   woken, and waiting for the mutex there                       *)
(*   return   woken, and holding the mutex again                           *)
(* The mutex is the default one: a thread that locks it twice blocks.      *)
(***************************************************************************)
EXTENDS Integers

CONSTANTS Threads, MaxCalls   \* bound: calls per thread

None == 0
ASSUME ThreadsAssumption == None \notin Threads /\ MaxCalls \in Nat

VARIABLES pc, call,   \* [Threads -> the method the thread is in, or was in last]
          owner,      \* of mux
          status,
          alive,      \* the object has not been destroyed
          calls,      \* [Threads -> calls made]
          due         \* history: blocked threads that a broadcast must wake

vars == <<pc, call, owner, status, alive, calls, due>>

Methods == {"changed", "broadcast", "wait", "timewait", "none"}

At(t, label) == pc[t] = label
Goto(t, label) == pc' = [pc EXCEPT ![t] = label]
Blocked == {t \in Threads : At(t, "blocked")}

\* Mutant of InitialStatus: the status is what the memory held.
StatusUnset == "unset"

InitialStatus == "NOCHANGED"

\* cond_var_init
Init ==
    /\ pc = [t \in Threads |-> "idle"]
    /\ call = [t \in Threads |-> "none"]
    /\ owner = None
    /\ status = InitialStatus
    /\ alive = TRUE
    /\ calls = [t \in Threads |-> 0]
    /\ due = {}

Call(t, m) ==
    /\ At(t, "idle")
    /\ alive /\ calls[t] < MaxCalls
    /\ call' = [call EXCEPT ![t] = m]
    /\ calls' = [calls EXCEPT ![t] = @ + 1]
    /\ Goto(t, "lock")
    /\ UNCHANGED <<owner, status, alive, due>>

Lock(t) ==
    /\ At(t, "lock")
    /\ owner = None
    /\ owner' = t
    /\ Goto(t, "body")
    /\ UNCHANGED <<call, status, alive, calls, due>>

-----------------------------------------------------------------------------
(* cond_var_changed, cond_var_broadcast                                    *)

\* Mutant of Change: the mutex is not given back.
ChangeLocked(t) ==
    /\ At(t, "body")
    /\ call[t] \in {"changed", "broadcast"}
    /\ status' = "CHANGED"
    /\ due' = IF call[t] = "broadcast" THEN due \cup Blocked ELSE due
    /\ Goto(t, "signal")
    /\ UNCHANGED <<call, owner, alive, calls>>

\* The status is set and the mutex given back, before the signal.
Change(t) ==
    /\ At(t, "body")
    /\ call[t] \in {"changed", "broadcast"}
    /\ status' = "CHANGED"
    /\ owner' = None
    /\ due' = IF call[t] = "broadcast" THEN due \cup Blocked ELSE due
    /\ Goto(t, "signal")
    /\ UNCHANGED <<call, alive, calls>>

\* Mutant of Woken: broadcast signals.
WokenOne(t, W) == W \subseteq Blocked /\ (W = {}) = (Blocked = {})
                    /\ \A x, y \in W : x = y

\* The threads that a pthread_cond_signal may wake, one at least if there are
\* any, or that a pthread_cond_broadcast wakes.
Woken(t, W) ==
    /\ W \subseteq Blocked
    /\ IF call[t] = "broadcast" THEN W = Blocked ELSE (W = {}) = (Blocked = {})

Signal(t, W) ==
    /\ At(t, "signal")
    /\ Woken(t, W)
    /\ pc' = [x \in Threads |-> IF x = t THEN "idle"
                                ELSE IF x \in W THEN "relock" ELSE pc[x]]
    /\ due' = due \ W
    /\ UNCHANGED <<call, owner, status, alive, calls>>

-----------------------------------------------------------------------------
(* cond_var_wait, cond_var_timewait                                        *)

\* pthread_cond_wait gives the mutex back and blocks, at once.  Neither method
\* looks at the status.
Block(t) ==
    /\ At(t, "body")
    /\ call[t] \in {"wait", "timewait"}
    /\ owner' = None
    /\ Goto(t, "blocked")
    /\ UNCHANGED <<call, status, alive, calls, due>>

\* A spurious wakeup; or the deadline, which a timewait takes from one clock
\* and waits for on another, so that it may come at any time.
WakeUp(t) ==
    /\ At(t, "blocked")
    /\ due' = due \ {t}
    /\ Goto(t, "relock")
    /\ UNCHANGED <<call, owner, status, alive, calls>>

Relock(t) ==
    /\ At(t, "relock")
    /\ owner = None
    /\ owner' = t
    /\ Goto(t, "return")
    /\ UNCHANGED <<call, status, alive, calls, due>>

\* Mutant of OwnerAfter: neither method unlocks after its wait.
OwnerAfterWait(t) == t

\* The owner of the mutex when t returns from its wait: timewait returns
\* before it comes to its pthread_mutex_unlock.
OwnerAfter(t) == IF call[t] = "timewait" THEN t ELSE None

Return(t) ==
    /\ At(t, "return")
    /\ owner' = OwnerAfter(t)
    /\ Goto(t, "idle")
    /\ UNCHANGED <<call, status, alive, calls, due>>

\* cond_var_destroy, by the last thread to use the object
Destroy ==
    /\ alive
    /\ \A t \in Threads : At(t, "idle")
    /\ alive' = FALSE
    /\ UNCHANGED <<pc, call, owner, status, calls, due>>

-----------------------------------------------------------------------------
Step(t) ==
    \/ Lock(t) \/ Change(t) \/ Block(t) \/ Relock(t) \/ Return(t)
    \/ \E W \in SUBSET Threads : Signal(t, W)

Next ==
    \/ \E t \in Threads : Step(t) \/ WakeUp(t)
    \/ \E t \in Threads, m \in Methods \ {"none"} : Call(t, m)
    \/ Destroy

Spec == Init /\ [][Next]_vars

\* A thread inside a method goes on when it can.  The mutex is only weakly
\* fair: it is enough, for each thread makes a bounded number of calls.
Fairness == \A t \in Threads : WF_vars(Step(t))
FairSpec == Spec /\ Fairness

-----------------------------------------------------------------------------
(* Properties                                                              *)

TypeOK ==
    /\ pc \in [Threads -> {"idle", "lock", "body", "signal", "blocked", "relock", "return"}]
    /\ call \in [Threads -> Methods]
    /\ owner \in Threads \cup {None}
    /\ status \in {"NOCHANGED", "CHANGED"}
    /\ alive \in BOOLEAN
    /\ calls \in [Threads -> Nat]
    /\ due \subseteq Blocked

\* A thread in the middle of a method holds the mutex, and it alone; outside
\* a method only a thread whose last method was timewait holds it, and if it
\* makes another call it waits for itself.
Holds(t) == At(t, "body") \/ At(t, "return")
LeftLocked ==
    /\ owner # None
    /\ At(owner, "lock") \/ (At(owner, "idle") /\ call[owner] = "timewait")
LockKept ==
    /\ \A t \in Threads : Holds(t) => owner = t
    /\ owner # None => Holds(owner) \/ LeftLocked

\* The mutex is free when nobody is in a method.
LockReleased == owner # None => ~At(owner, "idle")

\* A broadcast reaches every thread that was blocked when the status was set:
\* each returns from its wait, unless a timewait leaves the mutex locked.
BroadcastReaches == \A t \in Threads : t \in due ~> (At(t, "idle") \/ LeftLocked)

\* A changed or broadcast returns, whatever other threads do meanwhile, unless
\* a timewait leaves the mutex locked: then it, and every later call, blocks.
Calling(t) == ~At(t, "idle") /\ call[t] \in {"changed", "broadcast"}
CallsReturn == \A t \in Threads : Calling(t) ~> (~Calling(t) \/ LeftLocked)
=============================================================================
