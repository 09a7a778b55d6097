-------------------------------- MODULE Sema --------------------------------
(***************************************************************************)
(* The semaphore of linux/src/sema.c: init, lock, tmlock and unlock of     *)
(* several processes.  Nothing is undone when a process ends (no SEM_UNDO) *)
(* and destroy leaves kernel object and key file alone.                    *)
(***************************************************************************)
EXTENDS KeyFile, Timer

CONSTANTS LockMs,     \* arguments of tmlock
          FirstNow,   \* what the clock may say at first, in nanoseconds
          MaxNow      \* bound: the clock

ASSUME LockMsAssumption ==
    LockMs \subseteq Nat /\ FirstNow \subseteq Nat /\ MaxNow \in Nat

VARIABLES val,        \* the semaphore's value, NoSem before it is created
          mode,       \* [Procs -> the SEMA_INIT_STATE given to init]
          now,        \* CLOCK_MONOTONIC
          tmr,        \* [Procs -> tmlock's timer]
          wait        \* history: [Procs -> when tmlock was called, and its ms]

semaVars == <<val, mode, now, tmr, wait>>

NoSem == -1
Forced == {"FORCE_LOCK", "FORCE_UNLOCK"}
Modes == Forced \cup {"EXCEP_LOCK", "EXCEP_UNLOCK"}

NoTimer == Clock(0)
NoWait == [from |-> 0, ms |-> 0]

SemaInit ==
    /\ val = NoSem
    /\ mode = [p \in Procs |-> "EXCEP_UNLOCK"]
    /\ now \in FirstNow
    /\ tmr = [p \in Procs |-> NoTimer]
    /\ wait = [p \in Procs |-> NoWait]

-----------------------------------------------------------------------------
(* sema_init *)

SemaAccess(p) ==
    /\ Access(p, "sema_init", "sema", "sema_open", "semget")
    /\ UNCHANGED semaVars

SemaOpen(p) ==
    /\ MakeFile(p, "sema_open", "sema", "semget")
    /\ UNCHANGED semaVars

\* Without IPC_CREAT there must be a semaphore; a new one has the value 0.
Semget(p) ==
    /\ At(p, "semget")
    /\ IF val # NoSem THEN Goto(p, "setval") /\ UNCHANGED val
       ELSE IF creat[p] THEN Goto(p, "setval") /\ val' = 0
       ELSE Goto(p, "failed") /\ UNCHANGED val
    /\ UNCHANGED <<files, creat, mode, now, tmr, wait>>

\* sema_init returns: its argument and its flag are gone.
InitOver(p) ==
    /\ mode' = [mode EXCEPT ![p] = "EXCEP_UNLOCK"]
    /\ creat' = [creat EXCEPT ![p] = FALSE]

\* The value semctl(SETVAL) gives it: EXCEP modes set it on creation only.
InitialValue(p) == IF mode[p] \in {"FORCE_UNLOCK", "EXCEP_UNLOCK"} THEN 1 ELSE 0

SetVal(p) ==
    /\ At(p, "setval")
    /\ val' = IF mode[p] \in Forced \/ creat[p] THEN InitialValue(p) ELSE val
    /\ InitOver(p)
    /\ Goto(p, "shm_init")
    /\ UNCHANGED <<files, now, tmr, wait>>

-----------------------------------------------------------------------------
(* sema_lock, sema_timelock, sema_unlock *)

Taken(p) == val' = val - 1 /\ Goto(p, "read")

\* tmlock returns: its timer was a local variable.
TmlockOver(p) ==
    /\ tmr' = [tmr EXCEPT ![p] = NoTimer]
    /\ wait' = [wait EXCEPT ![p] = NoWait]

\* semop blocks while the value is 0.
Lock(p) ==
    /\ At(p, "lock")
    /\ val > 0
    /\ Taken(p)
    /\ UNCHANGED <<files, creat, mode, now, tmr, wait>>

TmlockCall(p, ms) ==
    /\ At(p, "idle")
    /\ now + ms * NsPerMs <= MaxNow
    /\ tmr' = [tmr EXCEPT ![p] = SetMs(Clock(now), ms)]
    /\ wait' = [wait EXCEPT ![p] = [from |-> now, ms |-> ms]]
    /\ Goto(p, "tmlock")
    /\ UNCHANGED <<files, creat, val, mode, now>>

\* semop with IPC_NOWAIT: taken, or EAGAIN.
TmlockTry(p) ==
    /\ At(p, "tmlock")
    /\ IF val > 0 THEN Taken(p) /\ TmlockOver(p)
       ELSE Goto(p, "busy") /\ UNCHANGED <<val, tmr, wait>>
    /\ UNCHANGED <<files, creat, mode, now>>

\* After EAGAIN the timer is looked at, while the semaphore may come free.
GivesUp(p) == At(p, "busy") /\ IsTimeout(Clock(now), tmr[p])

TmlockCheck(p) ==
    /\ At(p, "busy")
    /\ IF GivesUp(p) THEN Goto(p, "idle") /\ TmlockOver(p)
       ELSE Goto(p, "tmlock") /\ UNCHANGED <<tmr, wait>>
    /\ UNCHANGED <<files, creat, val, mode, now>>

Unlock(p) ==
    /\ At(p, "unlock")
    /\ val' = val + 1
    /\ Goto(p, "idle")
    /\ UNCHANGED <<files, creat, mode, now, tmr, wait>>

\* The clock; it matters only while somebody waits by it.
Tick ==
    /\ \E p \in Procs : At(p, "tmlock") \/ At(p, "busy")
    /\ now < MaxNow
    /\ now' = now + 1
    /\ UNCHANGED <<keyVars, val, mode, tmr, wait>>

SemaStep(p) ==
    \/ SemaAccess(p) \/ SemaOpen(p) \/ Semget(p) \/ SetVal(p)
    \/ Lock(p) \/ TmlockTry(p) \/ TmlockCheck(p) \/ Unlock(p)
=============================================================================
