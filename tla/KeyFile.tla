------------------------------ MODULE KeyFile ------------------------------
(***************************************************************************)
(* What sema_init of linux/src/sema.c and shm_init of linux/src/shm.c have *)
(* in common: the processes, and the key file by which they agree on one   *)
(* kernel object.  A process that does not find the file makes it and will *)
(* create the object; it asks first and makes it then, in two system calls.*)
(***************************************************************************)
EXTENDS Integers, FiniteSets

CONSTANTS Procs

VARIABLES pc,      \* [Procs -> the call the process is in]
          files,   \* key files that exist
          creat    \* [Procs -> whether flag has IPC_CREAT]

keyVars == <<pc, files, creat>>

At(p, label) == pc[p] = label
Goto(p, label) == pc' = [pc EXCEPT ![p] = label]

KeyInit ==
    /\ pc = [p \in Procs |-> "off"]
    /\ files = {}
    /\ creat = [p \in Procs |-> FALSE]

\* Mutant of Missing: IPC_CREAT is added whether or not the file exists.
MissingAssumed(path) == TRUE

\* access(path, F_OK) fails.
Missing(path) == path \notin files

\* The call of init at label; it goes on at make or, with the file, at get.
Access(p, label, path, make, get) ==
    /\ At(p, label)
    /\ creat' = [creat EXCEPT ![p] = Missing(path)]
    /\ Goto(p, IF Missing(path) THEN make ELSE get)
    /\ UNCHANGED files

\* open(path, O_CREAT | O_RDWR): also when the file is there by now.  An open
\* that fails ends init with -2.
MakeFile(p, make, path, get) ==
    /\ At(p, make)
    /\ \/ files' = files \cup {path} /\ Goto(p, get)
       \/ UNCHANGED files /\ Goto(p, "failed")
    /\ UNCHANGED creat
=============================================================================
