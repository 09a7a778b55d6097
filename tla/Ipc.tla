-------------------------------- MODULE Ipc --------------------------------
(***************************************************************************)
(* Processes that share memory (linux/src/shm.c) under a semaphore         *)
(* (linux/src/sema.c), with tmlock's deadline from linux/src/timer.c: each *)
(* starts, initialises both, and then adds to the counter in the memory,   *)
(* between lock or tmlock and unlock, as test_sema.c uses the semaphore.   *)
(* A process may start at any time and in any mode, may end, or be killed, *)
(* anywhere, and start again: nothing in the code orders the processes.    *)
(* Four windows are open to them, and races remembers which were entered,  *)
(* so that the properties can say what each one costs.                     *)
(*                                                                         *)
(* pc of a process: off, the steps of its init, idle, lock (blocked in     *)
(* lock), tmlock and busy (in tmlock's loop), read, write and unlock (its  *)
(* critical section), failed (an init failed or destroy was called: all it *)
(* does is end).                                                           *)
(***************************************************************************)
EXTENDS Sema, Shm

CONSTANTS MaxStarts,   \* bound: processes started
          MaxWrites    \* bound: completed critical sections

VARIABLES starts,
          copy,    \* [Procs -> what it has read in its critical section]
          writes,  \* history: additions to each segment
          races    \* history: windows in which two processes met

appVars == <<starts, copy, writes>>
vars == <<keyVars, semaVars, shmVars, appVars, races>>

Inside(p) == pc[p] \in {"read", "write", "unlock"}

Init ==
    /\ KeyInit /\ SemaInit /\ ShmInit
    /\ starts = 0
    /\ copy = [p \in Procs |-> 0]
    /\ writes = [s \in 1 .. MaxSegs |-> 0]
    /\ races = {}

Start(p, m) ==
    /\ At(p, "off")
    /\ starts < MaxStarts
    /\ starts' = starts + 1
    /\ mode' = [mode EXCEPT ![p] = m]
    /\ Goto(p, "sema_init")
    /\ UNCHANGED <<files, creat, val, now, tmr, wait, shmVars, copy, writes>>

\* Bound: the processes go on locking.
Unfinished == \A s \in 1 .. MaxSegs : writes[s] < MaxWrites

LockCall(p) ==
    /\ At(p, "idle")
    /\ Unfinished
    /\ Goto(p, "lock")
    /\ UNCHANGED <<files, creat, semaVars, shmVars, appVars>>

Read(p) ==
    /\ At(p, "read")
    /\ copy' = [copy EXCEPT ![p] = mem[attached[p]]]
    /\ Goto(p, "write")
    /\ UNCHANGED <<files, creat, semaVars, shmVars, starts, writes>>

Write(p) ==
    /\ At(p, "write")
    /\ mem' = [mem EXCEPT ![attached[p]] = copy[p] + 1]
    /\ writes' = [writes EXCEPT ![attached[p]] = @ + 1]
    /\ copy' = [copy EXCEPT ![p] = 0]
    /\ Goto(p, "unlock")
    /\ UNCHANGED <<files, creat, semaVars, bound, made, id, attached, starts>>

\* What was in the process is gone, and its memory detached; the semaphore
\* keeps its value, and the key files stay.
End(p) ==
    /\ ~At(p, "off")
    /\ Goto(p, "off")
    /\ InitOver(p)
    /\ TmlockOver(p)
    /\ id' = [id EXCEPT ![p] = 0]
    /\ attached' = [attached EXCEPT ![p] = 0]
    /\ copy' = [copy EXCEPT ![p] = 0]
    /\ UNCHANGED <<files, val, now, bound, made, mem, starts, writes>>

\* The windows p's next step is in with q.  sema and shm: both look for the
\* key file before either has made it, so both create.  set: p forces the
\* semaphore free while q is inside, or has created it and not yet given it
\* its value.  attach: p attaches the segment that q has created and not yet
\* cleared.
Windows == {"sema", "shm", "set", "attach"}
Meets(p, q) ==
    {w \in Windows :
        \/ w = "sema" /\ At(p, "sema_init") /\ At(q, "sema_open") /\ w \notin files
        \/ w = "shm" /\ At(p, "shm_init") /\ At(q, "shm_open") /\ w \notin files
        \/ /\ w = "set" /\ At(p, "setval") /\ mode[p] = "FORCE_UNLOCK"
           /\ Inside(q) \/ (At(q, "setval") /\ creat[q])
        \/ w = "attach" /\ At(p, "shmat") /\ creat[q] /\ pc[q] \in {"shmat", "zero"}}

Met(p) == UNION {Meets(p, q) : q \in Procs \ {p}}

ProcStep(p) ==
    /\ \/ SemaStep(p) /\ UNCHANGED <<shmVars, appVars>>
       \/ ShmStep(p) /\ UNCHANGED <<semaVars, appVars>>
       \/ Read(p) \/ Write(p)
    /\ races' = races \cup Met(p)

OtherStep ==
    \/ \E p \in Procs, m \in Modes : Start(p, m)
    \/ \E p \in Procs : LockCall(p) \/ End(p)
    \/ \E p \in Procs, ms \in LockMs :
          Unfinished /\ TmlockCall(p, ms) /\ UNCHANGED <<shmVars, appVars>>
    \/ \E p \in Procs : ShmDestroy(p) /\ UNCHANGED <<semaVars, appVars>>
    \/ Tick /\ UNCHANGED <<shmVars, appVars>>

Next == (\E p \in Procs : ProcStep(p)) \/ (OtherStep /\ UNCHANGED races)

Spec == Init /\ [][Next]_vars

\* A process inside a call goes on, and the clock does.
Fairness ==
    /\ \A p \in Procs : WF_vars(ProcStep(p))
    /\ WF_vars(Tick /\ UNCHANGED <<shmVars, appVars, races>>)

FairSpec == Spec /\ Fairness

-----------------------------------------------------------------------------
(* Properties                                                              *)

Labels == {"off", "sema_init", "sema_open", "semget", "setval", "shm_init",
           "shm_open", "shmget", "shmat", "zero", "idle", "lock", "tmlock",
           "busy", "read", "write", "unlock", "failed"}

TypeOK ==
    /\ pc \in [Procs -> Labels]
    /\ files \subseteq {"sema", "shm"}
    /\ creat \in [Procs -> BOOLEAN]
    /\ val \in {NoSem} \cup Nat
    /\ mode \in [Procs -> Modes]
    /\ now \in Nat
    /\ tmr \in [Procs -> Timers]
    /\ wait \in [Procs -> [from : Nat, ms : Nat]]
    /\ bound \in 0 .. made /\ made \in 0 .. MaxSegs
    /\ mem \in [1 .. MaxSegs -> Nat]
    /\ id \in [Procs -> 0 .. made]
    /\ attached \in [Procs -> 0 .. made]
    /\ starts \in Nat
    /\ copy \in [Procs -> Nat]
    /\ writes \in [1 .. MaxSegs -> Nat]
    /\ races \subseteq Windows

\* At most one process is in its critical section, through kills, restarts
\* and re-initialisations in every mode, unless two processes created the
\* semaphore (sema.c:132) or one forced it free under another (sema.c:160).
\* Those two windows are open in the code; there is no third.
MutualExclusion ==
    races \cap {"sema", "set"} = {} =>
        \A p, q \in Procs : Inside(p) /\ Inside(q) => p = q

\* No addition to the shared memory is lost, by two processes adding at once
\* or by one that clears the memory in its init, while no two have met in a
\* window of sema_init or shm_init; shm_init's own is that another process
\* attaches, and adds, before the creator's memset (shm.c:84-88).
NoLostUpdate == races = {} => \A s \in 1 .. made : mem[s] = writes[s]

\* Processes that have the memory attached have the same memory, also when
\* one of them has destroyed it and others start after that, unless two of
\* them found the key file missing at once (shm.c:51) and both create.
OneSegment ==
    "shm" \notin races =>
        \A p, q \in Procs :
            attached[p] # 0 /\ attached[q] # 0 => attached[p] = attached[q]

\* tmlock gives up on a lock less than a millisecond before its time at most,
\* if that is less than a day.
Patient(p) ==
    GivesUp(p) /\ TmlockCheck(p) /\ wait[p].ms < MaxInterval
        => now - wait[p].from > (wait[p].ms - 1) * NsPerMs
TmlockPatient == [][\A p \in Procs : Patient(p)]_vars

\* tmlock returns, or its process ends, whatever the others do: with the
\* semaphore taken for ever by a process that was killed, too.
InTmlock(p) == At(p, "tmlock") \/ At(p, "busy")
TmlockReturns == \A p \in Procs : []<>~InTmlock(p)
=============================================================================
