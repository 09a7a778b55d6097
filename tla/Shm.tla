-------------------------------- MODULE Shm --------------------------------
(***************************************************************************)
(* The shared memory of linux/src/shm.c.  A segment is a number, its       *)
(* contents one counter; it exists until it is removed and no process has  *)
(* it attached any more.                                                   *)
(***************************************************************************)
EXTENDS KeyFile

CONSTANT MaxSegs      \* bound: segments ever created

ASSUME SegsAssumption == MaxSegs \in Nat

VARIABLES bound,      \* the segment the key names, 0 if none
          made,       \* segments created so far
          mem,        \* [1 .. MaxSegs -> contents]
          id,         \* [Procs -> shm->id]
          attached    \* [Procs -> the segment at shm->mem, 0 if none]

shmVars == <<bound, made, mem, id, attached>>

ShmInit ==
    /\ bound = 0 /\ made = 0
    /\ mem = [s \in 1 .. MaxSegs |-> 0]
    /\ id = [p \in Procs |-> 0]
    /\ attached = [p \in Procs |-> 0]

SegExists(s) == s # 0 /\ (bound = s \/ \E p \in Procs : attached[p] = s)

-----------------------------------------------------------------------------
(* shm_init *)

ShmAccess(p) ==
    /\ Access(p, "shm_init", "shm", "shm_open", "shmget")
    /\ UNCHANGED shmVars

ShmOpen(p) ==
    /\ MakeFile(p, "shm_open", "shm", "shmget")
    /\ UNCHANGED shmVars

Shmget(p) ==
    /\ At(p, "shmget")
    /\ \/ /\ bound # 0
          /\ id' = [id EXCEPT ![p] = bound]
          /\ Goto(p, "shmat")
          /\ UNCHANGED <<bound, made>>
       \/ /\ bound = 0 /\ creat[p]
          /\ made < MaxSegs
          /\ made' = made + 1 /\ bound' = made + 1
          /\ id' = [id EXCEPT ![p] = made + 1]
          /\ Goto(p, "shmat")
       \/ /\ bound = 0 /\ ~creat[p]
          /\ Goto(p, "failed")
          /\ UNCHANGED <<bound, made, id>>
    /\ UNCHANGED <<files, creat, mem, attached>>

\* The segment may have been removed since.
Shmat(p) ==
    /\ At(p, "shmat")
    /\ IF SegExists(id[p])
       THEN /\ attached' = [attached EXCEPT ![p] = id[p]]
            /\ Goto(p, "zero")
       ELSE Goto(p, "failed") /\ UNCHANGED attached
    /\ UNCHANGED <<files, creat, bound, made, mem, id>>

\* Mutant of Zeroes: every process clears what it attaches.
ZeroesAlways(p) == TRUE

\* flag & IPC_CREAT
Zeroes(p) == creat[p]

Zero(p) ==
    /\ At(p, "zero")
    /\ mem' = IF Zeroes(p) THEN [mem EXCEPT ![attached[p]] = 0] ELSE mem
    /\ creat' = [creat EXCEPT ![p] = FALSE]
    /\ Goto(p, "idle")
    /\ UNCHANGED <<files, bound, made, id, attached>>

\* Mutant of LeftFiles: the key file is removed with the segment.
LeftFilesNone == files \ {"shm"}

\* The key files that destroy leaves.
LeftFiles == files

\* shm_destory, by a process that is done: shmctl fails on a segment that
\* another one has removed.
ShmDestroy(p) ==
    /\ At(p, "idle")
    /\ bound' = IF bound = id[p] THEN 0 ELSE bound
    /\ files' = LeftFiles
    /\ Goto(p, "failed")
    /\ UNCHANGED <<creat, made, mem, id, attached>>

ShmStep(p) ==
    ShmAccess(p) \/ ShmOpen(p) \/ Shmget(p) \/ Shmat(p) \/ Zero(p)
=============================================================================
