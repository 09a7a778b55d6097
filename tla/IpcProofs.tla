----------------------------- MODULE IpcProofs -----------------------------
(***************************************************************************)
(* Proofs about Ipc: that outside the windows races names the semaphore    *)
(* excludes, the shared memory is one and loses no addition, and that      *)
(* tmlock is patient, for any number of processes, starts, kills, modes    *)
(* and segments.                                                           *)
(***************************************************************************)
EXTENDS Ipc, TimerProofs

\* The labels before a process has the semaphore.
Before == {"off", "failed", "sema_init", "sema_open", "semget"}

\* The two phases of an init that has found the key file missing.
Making(p) == creat[p] /\ pc[p] \in {"sema_open", "semget", "setval"}
Sharing(p) == creat[p] /\ pc[p] \in {"shm_open", "shmget", "shmat", "zero"}

\* Who is past semget has found a semaphore; there is none without the file.
SemaPart ==
    /\ val # NoSem => "sema" \in files
    /\ \A p \in Procs : /\ pc[p] \notin Before => val # NoSem
                        /\ At(p, "sema_open") => creat[p]
                        /\ At(p, "semget") => "sema" \in files

\* Unless two have met at the key file one process makes the semaphore, which
\* nobody has before it.
KeyPart ==
    "sema" \notin races =>
        /\ \A p, q \in Procs : Making(p) /\ Making(q) => p = q
        /\ \A p \in Procs :
              /\ At(p, "sema_open") => "sema" \notin files
              /\ creat[p] /\ pc[p] \in {"sema_open", "semget"} => val = NoSem

\* Unless it was forced free as well, it is 0 while somebody is inside, and
\* until its maker has given it its value.
ExcludesPart ==
    "sema" \notin races /\ "set" \notin races =>
        /\ val \in {NoSem, 0, 1}
        /\ \A p, q \in Procs : Inside(p) /\ Inside(q) => p = q
        /\ \A p \in Procs :
              /\ Inside(p) => val = 0
              /\ creat[p] /\ At(p, "setval")
                    => val = 0 /\ \A q \in Procs : ~Inside(q)

\* The key file comes before any segment, and every user has one attached.
ShmPart ==
    /\ made # 0 => "shm" \in files
    /\ \A p \in Procs :
          /\ At(p, "shm_open") => creat[p]
          /\ pc[p] \in {"shmget", "shmat", "zero"} => "shm" \in files
          /\ At(p, "zero") \/ At(p, "idle") \/ At(p, "lock") \/ InTmlock(p) \/ Inside(p)
                => attached[p] # 0

\* Unless two have met at its key file one process creates the only segment.
OnePart ==
    "shm" \notin races =>
        /\ made <= 1
        /\ \A p, q \in Procs : Sharing(p) /\ Sharing(q) => p = q
        /\ \A p \in Procs :
              /\ At(p, "shm_open") => "shm" \notin files
              /\ creat[p] /\ pc[p] \in {"shm_open", "shmget"} => made = 0

\* Unless two have met anywhere the counters are the additions, a process
\* about to add has the count, and nobody has what is still to be cleared.
CountPart ==
    races = {} =>
        /\ made = 0 => \A s \in 1 .. MaxSegs : writes[s] = 0
        /\ \A s \in 1 .. MaxSegs : mem[s] = writes[s]
        /\ \A p \in Procs : At(p, "write") => copy[p] = mem[attached[p]]
        /\ \A p \in Procs : Sharing(p) => \A s \in 1 .. MaxSegs : writes[s] = 0
        /\ \A p, q \in Procs : Sharing(p) /\ p # q => attached[q] = 0

\* The timer of a tmlock is that of its call.
TimerPart ==
    \A p \in Procs : InTmlock(p) =>
        /\ wait[p].from <= now
        /\ tmr[p] = SetMs(Clock(wait[p].from), wait[p].ms)

IInv == /\ TypeOK /\ SemaPart /\ KeyPart /\ ExcludesPart
        /\ ShmPart /\ OnePart /\ CountPart /\ TimerPart

-----------------------------------------------------------------------------
(* The timers that tmlock has, the windows and the segment of a user.      *)

LEMMA SetMsIsTimer ==
    ASSUME NEW n \in Nat, NEW ms \in Nat
    PROVE  SetMs(Clock(n), ms) \in Timers
BY ClockIsTimer, SetMsExact

LEMMA NoTimerIsTimer == NoTimer \in Timers /\ NoWait \in [from : Nat, ms : Nat]
BY ClockIsTimer DEF NoTimer, NoWait

LEMMA MetWindows ==
    ASSUME NEW p \in Procs
    PROVE  Met(p) \subseteq Windows
BY DEF Met, Meets

LEMMA UserHasSegment ==
    ASSUME TypeOK, ShmPart, NEW p \in Procs, At(p, "zero") \/ Inside(p)
    PROVE  attached[p] \in 1 .. MaxSegs /\ made # 0
<1>1. attached[p] # 0
  BY DEF ShmPart
<1>2. attached[p] \in 0 .. made /\ made \in 0 .. MaxSegs
  BY DEF TypeOK
<1> QED BY <1>1, <1>2, SegsAssumption

-----------------------------------------------------------------------------
(* Every action keeps the invariant.  In each lemma <1>1 and <1>2 say what *)
(* the action does, and one step per part of the invariant follows.        *)

LEMMA SemaAccessKeeps ==
    ASSUME IInv, NEW p \in Procs, SemaAccess(p), UNCHANGED <<shmVars, appVars>>,
           races' = races \cup Met(p)
    PROVE  IInv'
<1>0. /\ TypeOK /\ SemaPart /\ KeyPart /\ ExcludesPart
      /\ ShmPart /\ OnePart /\ CountPart /\ TimerPart
  BY DEF IInv
<1>1. PICK l \in {"sema_open", "semget"} :
        /\ At(p, "sema_init")
        /\ pc' = [pc EXCEPT ![p] = l]
        /\ creat' = [creat EXCEPT ![p] = (l = "sema_open")]
        /\ l = "semget" <=> "sema" \in files
  BY DEF SemaAccess, Goto, Access, Missing
<1>2. UNCHANGED <<files, val, mode, now, tmr, wait, bound, made, mem, id,
                  attached, starts, copy, writes>>
  BY DEF SemaAccess, Goto, Access, Missing, keyVars, semaVars, shmVars,
     appVars
<1>3. /\ pc \in [Procs -> Labels] /\ creat \in [Procs -> BOOLEAN] /\ mode \in [Procs -> Modes]
      /\ races \subseteq races' /\ races' \subseteq Windows
  BY <1>0, MetWindows DEF TypeOK
<1>4. "sema" \notin races' /\ l = "sema_open" => \A q \in Procs : q # p => ~At(q, "sema_open")
  BY <1>0, <1>1, <1>2 DEF Met, Meets, Windows, SemaPart, ShmPart, TypeOK, At
<1>5. TypeOK'
  BY <1>0, <1>1, <1>2, <1>3, <1>4, SMTT(20) DEF TypeOK, TmlockOver, NoTimer,
     NoWait, Modes, Labels, At
<1>6. SemaPart'
  <2>1. /\ pc'[p] = l /\ creat'[p] = (l = "sema_open")
        /\ \A q \in Procs : q # p => creat'[q] = creat[q] /\ pc'[q] = pc[q]
    BY <1>1, <1>3
  <2> QED BY <1>0, <1>1, <1>2, <2>1 DEF SemaPart, Before, At
<1>7. KeyPart'
  <2> SUFFICES ASSUME "sema" \notin races' PROVE KeyPart'
    BY DEF KeyPart
  <2>1. /\ pc'[p] = l /\ creat'[p] = (l = "sema_open")
        /\ \A q \in Procs : q # p => creat'[q] = creat[q] /\ pc'[q] = pc[q]
    BY <1>1, <1>3
  <2>2. "sema" \notin races /\ ~Making(p)
    BY <1>1, <1>3 DEF Making, At
  <2>3. \A q \in Procs : q # p => (Making(q)' <=> Making(q))
    BY <2>1 DEF Making
  <2>4. l = "sema_open" => \A q \in Procs : q # p => ~Making(q)
    <3> SUFFICES ASSUME l = "sema_open", NEW q \in Procs, q # p, Making(q) PROVE FALSE
      OBVIOUS
    <3>1. pc[q] \in {"semget", "setval"}
      BY <1>4 DEF Making, At
    <3>2. "sema" \in files
      BY <1>0, <3>1 DEF SemaPart, Before, At
    <3> QED BY <1>1, <3>2
  <2>5. \A q, r \in Procs : Making(q)' /\ Making(r)' => q = r
    <3>1. Making(p)' => l = "sema_open"
      BY <2>1 DEF Making
    <3> QED BY <1>0, <2>2, <2>3, <2>4, <3>1 DEF KeyPart
  <2>6. l = "sema_open" => "sema" \notin files /\ val = NoSem
    BY <1>0, <1>1 DEF SemaPart
  <2>7. ASSUME NEW q \in Procs
        PROVE  /\ At(q, "sema_open")' => "sema" \notin files'
               /\ creat'[q] /\ pc'[q] \in {"sema_open", "semget"} => val' = NoSem
    <3>1. CASE q = p
      BY <1>2, <2>1, <2>6, <3>1 DEF At
    <3>2. CASE q # p
      BY <1>0, <1>2, <2>1, <2>2, <3>2 DEF KeyPart, At
    <3> QED BY <3>1, <3>2
  <2> QED BY <2>5, <2>7 DEF KeyPart
<1>8. ExcludesPart'
  BY <1>0, <1>1, <1>2, <1>3, <1>4, SMTT(20) DEF SemaPart, KeyPart,
     ExcludesPart, Inside, NoSem, Before, Making, At
<1>9. ShmPart'
  BY <1>0, <1>1, <1>2, <1>3, <1>4, SMTT(20) DEF TypeOK, ShmPart, InTmlock,
     Inside, At
<1>10. OnePart'
  BY <1>0, <1>1, <1>2, <1>3, <1>4, SMTT(20) DEF ShmPart, OnePart, Sharing,
     InTmlock, Inside, At
<1>11. CountPart'
  BY <1>0, <1>1, <1>2, <1>3, <1>4, SMTT(20) DEF TypeOK, ShmPart, OnePart,
     CountPart, Sharing, InTmlock, Inside, At
<1>12. TimerPart'
  BY <1>0, <1>1, <1>2, <1>3, <1>4, SMTT(20) DEF TypeOK, TimerPart, InTmlock,
     TmlockOver, At
<1> QED BY <1>5, <1>6, <1>7, <1>8, <1>9, <1>10, <1>11, <1>12 DEF IInv

LEMMA SemaOpenKeeps ==
    ASSUME IInv, NEW p \in Procs, SemaOpen(p), UNCHANGED <<shmVars, appVars>>,
           races' = races \cup Met(p)
    PROVE  IInv'
<1>0. /\ TypeOK /\ SemaPart /\ KeyPart /\ ExcludesPart
      /\ ShmPart /\ OnePart /\ CountPart /\ TimerPart
  BY DEF IInv
<1>1. PICK l \in {"semget", "failed"} :
        /\ At(p, "sema_open")
        /\ pc' = [pc EXCEPT ![p] = l]
        /\ \/ l = "semget" /\ files' = files \cup {"sema"}
           \/ l = "failed" /\ UNCHANGED files
  BY DEF SemaOpen, Goto, MakeFile
<1>2. UNCHANGED <<creat, val, mode, now, tmr, wait, bound, made, mem, id,
                  attached, starts, copy, writes>>
  BY DEF SemaOpen, Goto, MakeFile, keyVars, semaVars, shmVars, appVars
<1>3. /\ pc \in [Procs -> Labels] /\ creat \in [Procs -> BOOLEAN] /\ mode \in [Procs -> Modes]
      /\ races \subseteq races' /\ races' \subseteq Windows
  BY <1>0, MetWindows DEF TypeOK
<1>4. TypeOK'
  <2>1. pc' \in [Procs -> Labels]
    BY <1>1, <1>3 DEF Labels
  <2>2. files' \subseteq {"sema", "shm"}
    BY <1>0, <1>1 DEF TypeOK
  <2> QED BY <1>0, <1>2, <2>1, <2>2, <1>3 DEF TypeOK
<1>5. SemaPart'
  BY <1>0, <1>1, <1>2, <1>3, SMTT(20) DEF TypeOK, SemaPart, Before, NoSem, At
<1>6. KeyPart'
  BY <1>0, <1>1, <1>2, <1>3, SMTT(20) DEF SemaPart, KeyPart, Making, NoSem,
     Before, At
<1>7. ExcludesPart'
  BY <1>0, <1>1, <1>2, <1>3, SMTT(20) DEF SemaPart, KeyPart, ExcludesPart,
     Inside, NoSem, Before, Making, At
<1>8. ShmPart'
  BY <1>0, <1>1, <1>2, <1>3, SMTT(20) DEF TypeOK, ShmPart, InTmlock, Inside,
     At
<1>9. OnePart'
  BY <1>0, <1>1, <1>2, <1>3, SMTT(20) DEF ShmPart, OnePart, Sharing, InTmlock,
     Inside, At
<1>10. CountPart'
  BY <1>0, <1>1, <1>2, <1>3, SMTT(20) DEF TypeOK, ShmPart, OnePart, CountPart,
     Sharing, InTmlock, Inside, At
<1>11. TimerPart'
  BY <1>0, <1>1, <1>2, <1>3, SMTT(20) DEF TypeOK, TimerPart, InTmlock,
     TmlockOver, At
<1> QED BY <1>4, <1>5, <1>6, <1>7, <1>8, <1>9, <1>10, <1>11 DEF IInv

LEMMA SemgetKeeps ==
    ASSUME IInv, NEW p \in Procs, Semget(p), UNCHANGED <<shmVars, appVars>>,
           races' = races \cup Met(p)
    PROVE  IInv'
<1>0. /\ TypeOK /\ SemaPart /\ KeyPart /\ ExcludesPart
      /\ ShmPart /\ OnePart /\ CountPart /\ TimerPart
  BY DEF IInv
<1>1. PICK l \in {"setval", "failed"} :
        /\ At(p, "semget")
        /\ pc' = [pc EXCEPT ![p] = l]
        /\ \/ l = "setval" /\ val # NoSem /\ UNCHANGED val
           \/ l = "setval" /\ val = NoSem /\ creat[p] /\ val' = 0
           \/ l = "failed" /\ UNCHANGED val
  BY DEF Semget, Goto
<1>2. UNCHANGED <<files, creat, mode, now, tmr, wait, bound, made, mem, id,
                  attached, starts, copy, writes>>
  BY DEF Semget, Goto, keyVars, semaVars, shmVars, appVars
<1>3. /\ pc \in [Procs -> Labels] /\ creat \in [Procs -> BOOLEAN] /\ mode \in [Procs -> Modes]
      /\ races \subseteq races' /\ races' \subseteq Windows
  BY <1>0, MetWindows DEF TypeOK
<1>4. TypeOK'
  BY <1>0, <1>1, <1>2, <1>3, SMTT(20) DEF TypeOK, TmlockOver, NoTimer, NoWait,
     Modes, Labels, At
<1>5. SemaPart'
  BY <1>0, <1>1, <1>2, <1>3, SMTT(20) DEF TypeOK, SemaPart, Before, NoSem, At
<1>6. KeyPart'
  BY <1>0, <1>1, <1>2, <1>3, SMTT(20) DEF SemaPart, KeyPart, Making, NoSem,
     Before, At
<1>7. ExcludesPart'
  BY <1>0, <1>1, <1>2, <1>3, SMTT(20) DEF SemaPart, KeyPart, ExcludesPart,
     Inside, NoSem, Before, Making, At
<1>8. ShmPart'
  BY <1>0, <1>1, <1>2, <1>3, SMTT(20) DEF TypeOK, ShmPart, InTmlock, Inside,
     At
<1>9. OnePart'
  BY <1>0, <1>1, <1>2, <1>3, SMTT(20) DEF ShmPart, OnePart, Sharing, InTmlock,
     Inside, At
<1>10. CountPart'
  BY <1>0, <1>1, <1>2, <1>3, SMTT(20) DEF TypeOK, ShmPart, OnePart, CountPart,
     Sharing, InTmlock, Inside, At
<1>11. TimerPart'
  BY <1>0, <1>1, <1>2, <1>3, SMTT(20) DEF TypeOK, TimerPart, InTmlock,
     TmlockOver, At
<1> QED BY <1>4, <1>5, <1>6, <1>7, <1>8, <1>9, <1>10, <1>11 DEF IInv

LEMMA SetValKeeps ==
    ASSUME IInv, NEW p \in Procs, SetVal(p), UNCHANGED <<shmVars, appVars>>,
           races' = races \cup Met(p)
    PROVE  IInv'
<1>0. /\ TypeOK /\ SemaPart /\ KeyPart /\ ExcludesPart
      /\ ShmPart /\ OnePart /\ CountPart /\ TimerPart
  BY DEF IInv
<1>1. /\ At(p, "setval")
      /\ pc' = [pc EXCEPT ![p] = "shm_init"]
      /\ \/ mode[p] \notin Forced /\ ~creat[p] /\ UNCHANGED val
         \/ mode[p] = "FORCE_UNLOCK" /\ val' = 1
         \/ creat[p] /\ val' = 1
         \/ mode[p] # "FORCE_UNLOCK" /\ val' = 0
      /\ mode' = [mode EXCEPT ![p] = "EXCEP_UNLOCK"]
      /\ creat' = [creat EXCEPT ![p] = FALSE]
  BY DEF SetVal, Goto, InitialValue, InitOver, Forced
<1>2. UNCHANGED <<files, now, tmr, wait, bound, made, mem, id, attached,
                  starts, copy, writes>>
  BY DEF SetVal, Goto, InitialValue, InitOver, Forced, keyVars, semaVars,
     shmVars, appVars
<1>3. /\ pc \in [Procs -> Labels] /\ creat \in [Procs -> BOOLEAN] /\ mode \in [Procs -> Modes]
      /\ races \subseteq races' /\ races' \subseteq Windows
  BY <1>0, MetWindows DEF TypeOK
<1>4. "set" \notin races' /\ mode[p] = "FORCE_UNLOCK"
         => \A q \in Procs : q # p => ~Inside(q) /\ ~(creat[q] /\ At(q, "setval"))
  BY <1>0, <1>1, <1>2 DEF Met, Meets, Windows, SemaPart, ShmPart, TypeOK, At
<1>5. TypeOK'
  BY <1>0, <1>1, <1>2, <1>3, <1>4, SMTT(20) DEF TypeOK, TmlockOver, NoTimer,
     NoWait, Modes, Labels, At
<1>6. SemaPart'
  <2>1. val # NoSem
    BY <1>0, <1>1 DEF SemaPart, Before, At
  <2>2. val' # NoSem
    BY <1>1, <2>1 DEF NoSem
  <2>3. pc'[p] = "shm_init" /\ \A q \in Procs : q # p => creat'[q] = creat[q] /\ pc'[q] = pc[q]
    BY <1>1, <1>3
  <2> QED BY <1>0, <1>1, <1>2, <2>1, <2>2, <2>3 DEF SemaPart, Before, At
<1>7. KeyPart'
  BY <1>0, <1>1, <1>2, <1>3, <1>4, SMTT(20) DEF SemaPart, KeyPart, Making,
     NoSem, Before, At
<1>8. ExcludesPart'
  BY <1>0, <1>1, <1>2, <1>3, <1>4, SMTT(20) DEF SemaPart, KeyPart,
     ExcludesPart, Inside, NoSem, Before, Making, At
<1>9. ShmPart'
  BY <1>0, <1>1, <1>2, <1>3, <1>4, SMTT(20) DEF TypeOK, ShmPart, InTmlock,
     Inside, At
<1>10. OnePart'
  BY <1>0, <1>1, <1>2, <1>3, <1>4, SMTT(20) DEF ShmPart, OnePart, Sharing,
     InTmlock, Inside, At
<1>11. CountPart'
  BY <1>0, <1>1, <1>2, <1>3, <1>4, SMTT(20) DEF TypeOK, ShmPart, OnePart,
     CountPart, Sharing, InTmlock, Inside, At
<1>12. TimerPart'
  BY <1>0, <1>1, <1>2, <1>3, <1>4, SMTT(20) DEF TypeOK, TimerPart, InTmlock,
     TmlockOver, At
<1> QED BY <1>5, <1>6, <1>7, <1>8, <1>9, <1>10, <1>11, <1>12 DEF IInv

LEMMA LockKeeps ==
    ASSUME IInv, NEW p \in Procs, Lock(p), UNCHANGED <<shmVars, appVars>>,
           races' = races \cup Met(p)
    PROVE  IInv'
<1>0. /\ TypeOK /\ SemaPart /\ KeyPart /\ ExcludesPart
      /\ ShmPart /\ OnePart /\ CountPart /\ TimerPart
  BY DEF IInv
<1>1. /\ At(p, "lock")
      /\ pc' = [pc EXCEPT ![p] = "read"]
      /\ val > 0 /\ val' = val - 1
  BY DEF Lock, Goto, Taken
<1>2. UNCHANGED <<files, creat, mode, now, tmr, wait, bound, made, mem, id,
                  attached, starts, copy, writes>>
  BY DEF Lock, Goto, Taken, keyVars, semaVars, shmVars, appVars
<1>3. /\ pc \in [Procs -> Labels] /\ creat \in [Procs -> BOOLEAN] /\ mode \in [Procs -> Modes]
      /\ races \subseteq races' /\ races' \subseteq Windows
  BY <1>0, MetWindows DEF TypeOK
<1>4. TypeOK'
  <2>1. pc' \in [Procs -> Labels]
    BY <1>1, <1>3 DEF Labels
  <2>2. val' \in {NoSem} \cup Nat
    BY <1>0, <1>1 DEF TypeOK, NoSem
  <2> QED BY <1>0, <1>2, <2>1, <2>2, <1>3 DEF TypeOK
<1>5. SemaPart'
  BY <1>0, <1>1, <1>2, <1>3, SMTT(20) DEF TypeOK, SemaPart, Before, NoSem, At
<1>6. KeyPart'
  BY <1>0, <1>1, <1>2, <1>3, SMTT(20) DEF SemaPart, KeyPart, Making, NoSem,
     Before, At
<1>7. ExcludesPart'
  BY <1>0, <1>1, <1>2, <1>3, SMTT(20) DEF SemaPart, KeyPart, ExcludesPart,
     Inside, NoSem, Before, Making, At
<1>8. ShmPart'
  BY <1>0, <1>1, <1>2, <1>3, SMTT(20) DEF TypeOK, ShmPart, InTmlock, Inside,
     At
<1>9. OnePart'
  BY <1>0, <1>1, <1>2, <1>3, SMTT(20) DEF ShmPart, OnePart, Sharing, InTmlock,
     Inside, At
<1>10. CountPart'
  BY <1>0, <1>1, <1>2, <1>3, SMTT(20) DEF TypeOK, ShmPart, OnePart, CountPart,
     Sharing, InTmlock, Inside, At
<1>11. TimerPart'
  BY <1>0, <1>1, <1>2, <1>3, SMTT(20) DEF TypeOK, TimerPart, InTmlock,
     TmlockOver, At
<1> QED BY <1>4, <1>5, <1>6, <1>7, <1>8, <1>9, <1>10, <1>11 DEF IInv

LEMMA TmlockTryKeeps ==
    ASSUME IInv, NEW p \in Procs, TmlockTry(p), UNCHANGED <<shmVars, appVars>>,
           races' = races \cup Met(p)
    PROVE  IInv'
<1>0. /\ TypeOK /\ SemaPart /\ KeyPart /\ ExcludesPart
      /\ ShmPart /\ OnePart /\ CountPart /\ TimerPart
  BY DEF IInv
<1>1. PICK l \in {"read", "busy"} :
        /\ At(p, "tmlock")
        /\ pc' = [pc EXCEPT ![p] = l]
        /\ \/ l = "read" /\ val > 0 /\ val' = val - 1 /\ TmlockOver(p)
           \/ l = "busy" /\ UNCHANGED <<val, tmr, wait>>
  BY DEF TmlockTry, Goto, Taken
<1>2. UNCHANGED <<files, creat, mode, now, bound, made, mem, id, attached,
                  starts, copy, writes>>
  BY DEF TmlockTry, Goto, Taken, TmlockOver, keyVars, semaVars, shmVars,
     appVars
<1>3. /\ pc \in [Procs -> Labels] /\ creat \in [Procs -> BOOLEAN] /\ mode \in [Procs -> Modes]
      /\ races \subseteq races' /\ races' \subseteq Windows
  BY <1>0, MetWindows DEF TypeOK
<1>4. TypeOK'
  <2>1. pc' \in [Procs -> Labels]
    BY <1>1, <1>3 DEF Labels
  <2>2. val' \in {NoSem} \cup Nat
    BY <1>0, <1>1 DEF TypeOK, NoSem
  <2>3. tmr' \in [Procs -> Timers]
    BY <1>0, <1>1, NoTimerIsTimer DEF TypeOK, TmlockOver
  <2>4. wait' \in [Procs -> [from : Nat, ms : Nat]]
    BY <1>0, <1>1, NoTimerIsTimer DEF TypeOK, TmlockOver
  <2> QED BY <1>0, <1>2, <2>1, <2>2, <2>3, <2>4, <1>3 DEF TypeOK
<1>5. SemaPart'
  BY <1>0, <1>1, <1>2, <1>3, SMTT(20) DEF TypeOK, SemaPart, Before, NoSem, At
<1>6. KeyPart'
  BY <1>0, <1>1, <1>2, <1>3, SMTT(20) DEF SemaPart, KeyPart, Making, NoSem,
     Before, At
<1>7. ExcludesPart'
  BY <1>0, <1>1, <1>2, <1>3, SMTT(20) DEF SemaPart, KeyPart, ExcludesPart,
     Inside, NoSem, Before, Making, At
<1>8. ShmPart'
  BY <1>0, <1>1, <1>2, <1>3, SMTT(20) DEF TypeOK, ShmPart, InTmlock, Inside,
     At
<1>9. OnePart'
  BY <1>0, <1>1, <1>2, <1>3, SMTT(20) DEF ShmPart, OnePart, Sharing, InTmlock,
     Inside, At
<1>10. CountPart'
  BY <1>0, <1>1, <1>2, <1>3, SMTT(20) DEF TypeOK, ShmPart, OnePart, CountPart,
     Sharing, InTmlock, Inside, At
<1>11. TimerPart'
  BY <1>0, <1>1, <1>2, <1>3, SMTT(20) DEF TypeOK, TimerPart, InTmlock,
     TmlockOver, At
<1> QED BY <1>4, <1>5, <1>6, <1>7, <1>8, <1>9, <1>10, <1>11 DEF IInv

LEMMA TmlockCheckKeeps ==
    ASSUME IInv, NEW p \in Procs, TmlockCheck(p), UNCHANGED <<shmVars, appVars>>,
           races' = races \cup Met(p)
    PROVE  IInv'
<1>0. /\ TypeOK /\ SemaPart /\ KeyPart /\ ExcludesPart
      /\ ShmPart /\ OnePart /\ CountPart /\ TimerPart
  BY DEF IInv
<1>1. PICK l \in {"idle", "tmlock"} :
        /\ At(p, "busy")
        /\ pc' = [pc EXCEPT ![p] = l]
        /\ \/ l = "idle" /\ TmlockOver(p)
           \/ l = "tmlock" /\ UNCHANGED <<tmr, wait>>
  BY DEF TmlockCheck, Goto
<1>2. UNCHANGED <<files, creat, val, mode, now, bound, made, mem, id,
                  attached, starts, copy, writes>>
  BY DEF TmlockCheck, Goto, TmlockOver, keyVars, semaVars, shmVars, appVars
<1>3. /\ pc \in [Procs -> Labels] /\ creat \in [Procs -> BOOLEAN] /\ mode \in [Procs -> Modes]
      /\ races \subseteq races' /\ races' \subseteq Windows
  BY <1>0, MetWindows DEF TypeOK
<1>4. TypeOK'
  <2>1. pc' \in [Procs -> Labels]
    BY <1>1, <1>3 DEF Labels
  <2>2. tmr' \in [Procs -> Timers]
    BY <1>0, <1>1, NoTimerIsTimer DEF TypeOK, TmlockOver
  <2>3. wait' \in [Procs -> [from : Nat, ms : Nat]]
    BY <1>0, <1>1, NoTimerIsTimer DEF TypeOK, TmlockOver
  <2> QED BY <1>0, <1>2, <2>1, <2>2, <2>3, <1>3 DEF TypeOK
<1>5. SemaPart'
  BY <1>0, <1>1, <1>2, <1>3, SMTT(20) DEF TypeOK, SemaPart, Before, NoSem, At
<1>6. KeyPart'
  BY <1>0, <1>1, <1>2, <1>3, SMTT(20) DEF SemaPart, KeyPart, Making, NoSem,
     Before, At
<1>7. ExcludesPart'
  BY <1>0, <1>1, <1>2, <1>3, SMTT(20) DEF SemaPart, KeyPart, ExcludesPart,
     Inside, NoSem, Before, Making, At
<1>8. ShmPart'
  BY <1>0, <1>1, <1>2, <1>3, SMTT(20) DEF TypeOK, ShmPart, InTmlock, Inside,
     At
<1>9. OnePart'
  BY <1>0, <1>1, <1>2, <1>3, SMTT(20) DEF ShmPart, OnePart, Sharing, InTmlock,
     Inside, At
<1>10. CountPart'
  BY <1>0, <1>1, <1>2, <1>3, SMTT(20) DEF TypeOK, ShmPart, OnePart, CountPart,
     Sharing, InTmlock, Inside, At
<1>11. TimerPart'
  BY <1>0, <1>1, <1>2, <1>3, SMTT(20) DEF TypeOK, TimerPart, InTmlock,
     TmlockOver, At
<1> QED BY <1>4, <1>5, <1>6, <1>7, <1>8, <1>9, <1>10, <1>11 DEF IInv

LEMMA UnlockKeeps ==
    ASSUME IInv, NEW p \in Procs, Unlock(p), UNCHANGED <<shmVars, appVars>>,
           races' = races \cup Met(p)
    PROVE  IInv'
<1>0. /\ TypeOK /\ SemaPart /\ KeyPart /\ ExcludesPart
      /\ ShmPart /\ OnePart /\ CountPart /\ TimerPart
  BY DEF IInv
<1>1. /\ At(p, "unlock")
      /\ pc' = [pc EXCEPT ![p] = "idle"]
      /\ val' = val + 1
  BY DEF Unlock, Goto
<1>2. UNCHANGED <<files, creat, mode, now, tmr, wait, bound, made, mem, id,
                  attached, starts, copy, writes>>
  BY DEF Unlock, Goto, keyVars, semaVars, shmVars, appVars
<1>3. /\ pc \in [Procs -> Labels] /\ creat \in [Procs -> BOOLEAN] /\ mode \in [Procs -> Modes]
      /\ races \subseteq races' /\ races' \subseteq Windows
  BY <1>0, MetWindows DEF TypeOK
<1>4. TypeOK'
  <2>1. pc' \in [Procs -> Labels]
    BY <1>1, <1>3 DEF Labels
  <2>2. val' \in {NoSem} \cup Nat
    BY <1>0, <1>1 DEF TypeOK, NoSem
  <2> QED BY <1>0, <1>2, <2>1, <2>2, <1>3 DEF TypeOK
<1>5. SemaPart'
  <2>1. val # NoSem
    BY <1>0, <1>1 DEF SemaPart, Before, At
  <2>2. val' # NoSem
    BY <1>0, <1>1, <2>1 DEF TypeOK, NoSem
  <2>3. pc'[p] = "idle" /\ \A q \in Procs : q # p => pc'[q] = pc[q]
    BY <1>1, <1>3
  <2> QED BY <1>0, <1>1, <1>2, <2>1, <2>2, <2>3 DEF SemaPart, Before, At
<1>6. KeyPart'
  BY <1>0, <1>1, <1>2, <1>3, SMTT(20) DEF SemaPart, KeyPart, Making, NoSem,
     Before, At
<1>7. ExcludesPart'
  BY <1>0, <1>1, <1>2, <1>3, SMTT(20) DEF SemaPart, KeyPart, ExcludesPart,
     Inside, NoSem, Before, Making, At
<1>8. ShmPart'
  BY <1>0, <1>1, <1>2, <1>3, SMTT(20) DEF TypeOK, ShmPart, InTmlock, Inside,
     At
<1>9. OnePart'
  BY <1>0, <1>1, <1>2, <1>3, SMTT(20) DEF ShmPart, OnePart, Sharing, InTmlock,
     Inside, At
<1>10. CountPart'
  BY <1>0, <1>1, <1>2, <1>3, SMTT(20) DEF TypeOK, ShmPart, OnePart, CountPart,
     Sharing, InTmlock, Inside, At
<1>11. TimerPart'
  BY <1>0, <1>1, <1>2, <1>3, SMTT(20) DEF TypeOK, TimerPart, InTmlock,
     TmlockOver, At
<1> QED BY <1>4, <1>5, <1>6, <1>7, <1>8, <1>9, <1>10, <1>11 DEF IInv

LEMMA ShmAccessKeeps ==
    ASSUME IInv, NEW p \in Procs, ShmAccess(p), UNCHANGED <<semaVars, appVars>>,
           races' = races \cup Met(p)
    PROVE  IInv'
<1>0. /\ TypeOK /\ SemaPart /\ KeyPart /\ ExcludesPart
      /\ ShmPart /\ OnePart /\ CountPart /\ TimerPart
  BY DEF IInv
<1>1. PICK l \in {"shm_open", "shmget"} :
        /\ At(p, "shm_init")
        /\ pc' = [pc EXCEPT ![p] = l]
        /\ creat' = [creat EXCEPT ![p] = (l = "shm_open")]
        /\ l = "shmget" <=> "shm" \in files
  BY DEF ShmAccess, Goto, Access, Missing
<1>2. UNCHANGED <<files, val, mode, now, tmr, wait, bound, made, mem, id,
                  attached, starts, copy, writes>>
  BY DEF ShmAccess, Goto, Access, Missing, keyVars, semaVars, shmVars, appVars
<1>3. /\ pc \in [Procs -> Labels] /\ creat \in [Procs -> BOOLEAN] /\ mode \in [Procs -> Modes]
      /\ races \subseteq races' /\ races' \subseteq Windows
  BY <1>0, MetWindows DEF TypeOK
<1>4. "shm" \notin races' /\ l = "shm_open" => \A q \in Procs : q # p => ~At(q, "shm_open")
  BY <1>0, <1>1, <1>2 DEF Met, Meets, Windows, SemaPart, ShmPart, TypeOK, At
<1>5. TypeOK'
  BY <1>0, <1>1, <1>2, <1>3, <1>4, SMTT(20) DEF TypeOK, TmlockOver, NoTimer,
     NoWait, Modes, Labels, At
<1>6. SemaPart'
  BY <1>0, <1>1, <1>2, <1>3, <1>4, SMTT(20) DEF TypeOK, SemaPart, Before,
     NoSem, At
<1>7. KeyPart'
  BY <1>0, <1>1, <1>2, <1>3, <1>4, SMTT(20) DEF SemaPart, KeyPart, Making,
     NoSem, Before, At
<1>8. ExcludesPart'
  BY <1>0, <1>1, <1>2, <1>3, <1>4, SMTT(20) DEF SemaPart, KeyPart,
     ExcludesPart, Inside, NoSem, Before, Making, At
<1>9. ShmPart'
  <2>1. /\ pc'[p] = l /\ creat'[p] = (l = "shm_open")
        /\ \A q \in Procs : q # p => creat'[q] = creat[q] /\ pc'[q] = pc[q]
    BY <1>1, <1>3
  <2> QED BY <1>0, <1>1, <1>2, <2>1 DEF ShmPart, InTmlock, Inside, At
<1>10. OnePart'
  <2> SUFFICES ASSUME "shm" \notin races' PROVE OnePart'
    BY DEF OnePart
  <2>1. /\ pc'[p] = l /\ creat'[p] = (l = "shm_open")
        /\ \A q \in Procs : q # p => creat'[q] = creat[q] /\ pc'[q] = pc[q]
    BY <1>1, <1>3
  <2>2. "shm" \notin races /\ ~Sharing(p)
    BY <1>1, <1>3 DEF Sharing, At
  <2>3. \A q \in Procs : q # p => (Sharing(q)' <=> Sharing(q))
    BY <2>1 DEF Sharing
  <2>4. l = "shm_open" => \A q \in Procs : q # p => ~Sharing(q)
    <3> SUFFICES ASSUME l = "shm_open", NEW q \in Procs, q # p, Sharing(q) PROVE FALSE
      OBVIOUS
    <3>1. pc[q] \in {"shmget", "shmat", "zero"}
      BY <1>4 DEF Sharing, At
    <3>2. "shm" \in files
      BY <1>0, <3>1 DEF ShmPart
    <3> QED BY <1>1, <3>2
  <2>5. \A q, r \in Procs : Sharing(q)' /\ Sharing(r)' => q = r
    <3>1. Sharing(p)' => l = "shm_open"
      BY <2>1 DEF Sharing
    <3> QED BY <1>0, <2>2, <2>3, <2>4, <3>1 DEF OnePart
  <2>6. l = "shm_open" => "shm" \notin files /\ made = 0
    BY <1>0, <1>1 DEF ShmPart
  <2>7. ASSUME NEW q \in Procs
        PROVE  /\ At(q, "shm_open")' => "shm" \notin files'
               /\ creat'[q] /\ pc'[q] \in {"shm_open", "shmget"} => made' = 0
    <3>1. CASE q = p
      BY <1>2, <2>1, <2>6, <3>1 DEF At
    <3>2. CASE q # p
      BY <1>0, <1>2, <2>1, <2>2, <3>2 DEF OnePart, At
    <3> QED BY <3>1, <3>2
  <2>8. made' <= 1
    BY <1>0, <1>2, <2>2 DEF OnePart
  <2> QED BY <2>5, <2>7, <2>8 DEF OnePart
<1>11. CountPart'
  <2> SUFFICES ASSUME races' = {} PROVE CountPart'
    BY DEF CountPart
  <2>1. /\ pc'[p] = l /\ creat'[p] = (l = "shm_open")
        /\ \A q \in Procs : q # p => creat'[q] = creat[q] /\ pc'[q] = pc[q]
    BY <1>1, <1>3
  <2>2. races = {}
    BY <1>3
  <2>3. l = "shm_open" => made = 0
    BY <1>0, <1>1 DEF ShmPart
  <2>4. l = "shm_open" => /\ \A s \in 1 .. MaxSegs : writes[s] = 0
                          /\ \A q \in Procs : attached[q] = 0
    BY <1>0, <2>2, <2>3 DEF CountPart, TypeOK
  <2>5. \A q \in Procs : Sharing(q)' => Sharing(q) \/ l = "shm_open"
    BY <2>1 DEF Sharing
  <2>6. \A q \in Procs : At(q, "write")' => At(q, "write")
    BY <1>1, <2>1 DEF At
  <2> QED BY <1>0, <1>2, <2>2, <2>4, <2>5, <2>6 DEF CountPart, At
<1>12. TimerPart'
  BY <1>0, <1>1, <1>2, <1>3, <1>4, SMTT(20) DEF TypeOK, TimerPart, InTmlock,
     TmlockOver, At
<1> QED BY <1>5, <1>6, <1>7, <1>8, <1>9, <1>10, <1>11, <1>12 DEF IInv

LEMMA ShmOpenKeeps ==
    ASSUME IInv, NEW p \in Procs, ShmOpen(p), UNCHANGED <<semaVars, appVars>>,
           races' = races \cup Met(p)
    PROVE  IInv'
<1>0. /\ TypeOK /\ SemaPart /\ KeyPart /\ ExcludesPart
      /\ ShmPart /\ OnePart /\ CountPart /\ TimerPart
  BY DEF IInv
<1>1. PICK l \in {"shmget", "failed"} :
        /\ At(p, "shm_open")
        /\ pc' = [pc EXCEPT ![p] = l]
        /\ \/ l = "shmget" /\ files' = files \cup {"shm"}
           \/ l = "failed" /\ UNCHANGED files
  BY DEF ShmOpen, Goto, MakeFile
<1>2. UNCHANGED <<creat, val, mode, now, tmr, wait, bound, made, mem, id,
                  attached, starts, copy, writes>>
  BY DEF ShmOpen, Goto, MakeFile, keyVars, semaVars, shmVars, appVars
<1>3. /\ pc \in [Procs -> Labels] /\ creat \in [Procs -> BOOLEAN] /\ mode \in [Procs -> Modes]
      /\ races \subseteq races' /\ races' \subseteq Windows
  BY <1>0, MetWindows DEF TypeOK
<1>4. TypeOK'
  <2>1. pc' \in [Procs -> Labels]
    BY <1>1, <1>3 DEF Labels
  <2>2. files' \subseteq {"sema", "shm"}
    BY <1>0, <1>1 DEF TypeOK
  <2> QED BY <1>0, <1>2, <2>1, <2>2, <1>3 DEF TypeOK
<1>5. SemaPart'
  BY <1>0, <1>1, <1>2, <1>3, SMTT(20) DEF TypeOK, SemaPart, Before, NoSem, At
<1>6. KeyPart'
  BY <1>0, <1>1, <1>2, <1>3, SMTT(20) DEF SemaPart, KeyPart, Making, NoSem,
     Before, At
<1>7. ExcludesPart'
  BY <1>0, <1>1, <1>2, <1>3, SMTT(20) DEF SemaPart, KeyPart, ExcludesPart,
     Inside, NoSem, Before, Making, At
<1>8. ShmPart'
  BY <1>0, <1>1, <1>2, <1>3, SMTT(20) DEF TypeOK, ShmPart, InTmlock, Inside,
     At
<1>9. OnePart'
  BY <1>0, <1>1, <1>2, <1>3, SMTT(20) DEF ShmPart, OnePart, Sharing, InTmlock,
     Inside, At
<1>10. CountPart'
  BY <1>0, <1>1, <1>2, <1>3, SMTT(20) DEF TypeOK, ShmPart, OnePart, CountPart,
     Sharing, InTmlock, Inside, At
<1>11. TimerPart'
  BY <1>0, <1>1, <1>2, <1>3, SMTT(20) DEF TypeOK, TimerPart, InTmlock,
     TmlockOver, At
<1> QED BY <1>4, <1>5, <1>6, <1>7, <1>8, <1>9, <1>10, <1>11 DEF IInv

LEMMA ShmgetKeeps ==
    ASSUME IInv, NEW p \in Procs, Shmget(p), UNCHANGED <<semaVars, appVars>>,
           races' = races \cup Met(p)
    PROVE  IInv'
<1>0. /\ TypeOK /\ SemaPart /\ KeyPart /\ ExcludesPart
      /\ ShmPart /\ OnePart /\ CountPart /\ TimerPart
  BY DEF IInv
<1>1. PICK l \in {"shmat", "failed"} :
        /\ At(p, "shmget")
        /\ pc' = [pc EXCEPT ![p] = l]
        /\ \/ UNCHANGED <<bound, made>> /\ id' = [id EXCEPT ![p] = bound]
           \/ /\ bound = 0 /\ creat[p] /\ made < MaxSegs
              /\ made' = made + 1 /\ bound' = made + 1
              /\ id' = [id EXCEPT ![p] = made + 1]
           \/ UNCHANGED <<bound, made, id>>
  BY DEF Shmget, Goto
<1>2. UNCHANGED <<files, creat, val, mode, now, tmr, wait, mem, attached,
                  starts, copy, writes>>
  BY DEF Shmget, Goto, keyVars, semaVars, shmVars, appVars
<1>3. /\ pc \in [Procs -> Labels] /\ creat \in [Procs -> BOOLEAN] /\ mode \in [Procs -> Modes]
      /\ races \subseteq races' /\ races' \subseteq Windows
  BY <1>0, MetWindows DEF TypeOK
<1>4. TypeOK'
  <2>1. pc' \in [Procs -> Labels]
    BY <1>1, <1>3 DEF Labels
  <2>2. made' \in {made, made + 1} /\ bound' \in 0 .. made' /\ made' \in 0 .. MaxSegs
    <3>1. made \in Nat /\ MaxSegs \in Nat /\ bound \in 0 .. made /\ made \in 0 .. MaxSegs
      BY <1>0, SegsAssumption DEF TypeOK
    <3>2. \/ bound' = bound /\ made' = made
          \/ made < MaxSegs /\ made' = made + 1 /\ bound' = made + 1
      BY <1>1
    <3> QED BY <3>1, <3>2
  <2>3. id' \in [Procs -> 0 .. made']
    <3>1. made \in Nat /\ made' \in Nat /\ made <= made' /\ bound \in 0 .. made'
      BY <1>0, <2>2, SegsAssumption DEF TypeOK
    <3>2. id \in [Procs -> 0 .. made']
      BY <1>0, <3>1 DEF TypeOK
    <3>3. \/ id' = [id EXCEPT ![p] = bound] \/ id' = id
          \/ id' = [id EXCEPT ![p] = made']
      BY <1>1
    <3> QED BY <3>1, <3>2, <3>3
  <2>4. attached' \in [Procs -> 0 .. made']
    BY <1>0, <1>1, <1>2, <2>2, SegsAssumption DEF TypeOK
  <2> QED BY <1>0, <1>2, <2>1, <2>2, <2>3, <2>4, <1>3 DEF TypeOK
<1>5. SemaPart'
  BY <1>0, <1>1, <1>2, <1>3, SMTT(20) DEF TypeOK, SemaPart, Before, NoSem, At
<1>6. KeyPart'
  BY <1>0, <1>1, <1>2, <1>3, SMTT(20) DEF SemaPart, KeyPart, Making, NoSem,
     Before, At
<1>7. ExcludesPart'
  BY <1>0, <1>1, <1>2, <1>3, SMTT(20) DEF SemaPart, KeyPart, ExcludesPart,
     Inside, NoSem, Before, Making, At
<1>8. ShmPart'
  BY <1>0, <1>1, <1>2, <1>3, SMTT(20) DEF TypeOK, ShmPart, InTmlock, Inside,
     At
<1>9. OnePart'
  BY <1>0, <1>1, <1>2, <1>3, SMTT(20) DEF ShmPart, OnePart, Sharing, InTmlock,
     Inside, At
<1>10. CountPart'
  BY <1>0, <1>1, <1>2, <1>3, SMTT(20) DEF TypeOK, ShmPart, OnePart, CountPart,
     Sharing, InTmlock, Inside, At
<1>11. TimerPart'
  BY <1>0, <1>1, <1>2, <1>3, SMTT(20) DEF TypeOK, TimerPart, InTmlock,
     TmlockOver, At
<1> QED BY <1>4, <1>5, <1>6, <1>7, <1>8, <1>9, <1>10, <1>11 DEF IInv

LEMMA ShmatKeeps ==
    ASSUME IInv, NEW p \in Procs, Shmat(p), UNCHANGED <<semaVars, appVars>>,
           races' = races \cup Met(p)
    PROVE  IInv'
<1>0. /\ TypeOK /\ SemaPart /\ KeyPart /\ ExcludesPart
      /\ ShmPart /\ OnePart /\ CountPart /\ TimerPart
  BY DEF IInv
<1>1. PICK l \in {"zero", "failed"} :
        /\ At(p, "shmat")
        /\ pc' = [pc EXCEPT ![p] = l]
        /\ \/ l = "zero" /\ id[p] # 0 /\ attached' = [attached EXCEPT ![p] = id[p]]
           \/ l = "failed" /\ UNCHANGED attached
  BY DEF Shmat, Goto, SegExists
<1>2. UNCHANGED <<files, creat, val, mode, now, tmr, wait, bound, made, mem,
                  id, starts, copy, writes>>
  BY DEF Shmat, Goto, SegExists, keyVars, semaVars, shmVars, appVars
<1>3. /\ pc \in [Procs -> Labels] /\ creat \in [Procs -> BOOLEAN] /\ mode \in [Procs -> Modes]
      /\ races \subseteq races' /\ races' \subseteq Windows
  BY <1>0, MetWindows DEF TypeOK
<1>4. "attach" \notin races' => \A q \in Procs : q # p => ~(creat[q] /\ pc[q] \in {"shmat", "zero"})
  BY <1>0, <1>1, <1>2 DEF Met, Meets, Windows, SemaPart, ShmPart, TypeOK, At
<1>5. TypeOK'
  <2>1. pc' \in [Procs -> Labels]
    BY <1>1, <1>3 DEF Labels
  <2>2. attached' \in [Procs -> 0 .. made]
    BY <1>0, <1>1, <1>2 DEF TypeOK
  <2> QED BY <1>0, <1>2, <2>1, <2>2, <1>3 DEF TypeOK
<1>6. SemaPart'
  BY <1>0, <1>1, <1>2, <1>3, <1>4, SMTT(20) DEF TypeOK, SemaPart, Before,
     NoSem, At
<1>7. KeyPart'
  BY <1>0, <1>1, <1>2, <1>3, <1>4, SMTT(20) DEF SemaPart, KeyPart, Making,
     NoSem, Before, At
<1>8. ExcludesPart'
  BY <1>0, <1>1, <1>2, <1>3, <1>4, SMTT(20) DEF SemaPart, KeyPart,
     ExcludesPart, Inside, NoSem, Before, Making, At
<1>9. ShmPart'
  BY <1>0, <1>1, <1>2, <1>3, <1>4, SMTT(20) DEF TypeOK, ShmPart, InTmlock,
     Inside, At
<1>10. OnePart'
  BY <1>0, <1>1, <1>2, <1>3, <1>4, SMTT(20) DEF ShmPart, OnePart, Sharing,
     InTmlock, Inside, At
<1>11. CountPart'
  <2> SUFFICES ASSUME races' = {} PROVE CountPart'
    BY DEF CountPart
  <2>1. races = {}
    BY <1>3
  <2>2. \A q \in Procs : Sharing(q)' => Sharing(q)
    BY <1>1, <1>2, <1>3 DEF Sharing, At
  <2>3. \A q \in Procs : At(q, "write")' => q # p /\ At(q, "write")
    BY <1>1, <1>3 DEF At
  <2>4. \A q \in Procs : q # p => attached'[q] = attached[q]
    BY <1>0, <1>1 DEF TypeOK
  <2>5. ASSUME NEW q \in Procs, q # p, Sharing(q)
        PROVE  attached'[p] = 0
    <3>1. pc[q] \in {"shm_open", "shmget"}
      BY <1>4, <2>1, <2>5 DEF Sharing
    <3>2. made = 0
      BY <1>0, <2>1, <2>5, <3>1 DEF OnePart, Sharing
    <3>3. id[p] = 0 /\ attached[p] = 0
      BY <1>0, <3>2 DEF TypeOK
    <3> QED BY <1>1, <3>3
  <2> QED BY <1>0, <1>2, <2>1, <2>2, <2>3, <2>4, <2>5 DEF CountPart
<1>12. TimerPart'
  BY <1>0, <1>1, <1>2, <1>3, <1>4, SMTT(20) DEF TypeOK, TimerPart, InTmlock,
     TmlockOver, At
<1> QED BY <1>5, <1>6, <1>7, <1>8, <1>9, <1>10, <1>11, <1>12 DEF IInv

LEMMA ZeroKeeps ==
    ASSUME IInv, NEW p \in Procs, Zero(p), UNCHANGED <<semaVars, appVars>>,
           races' = races \cup Met(p)
    PROVE  IInv'
<1>0. /\ TypeOK /\ SemaPart /\ KeyPart /\ ExcludesPart
      /\ ShmPart /\ OnePart /\ CountPart /\ TimerPart
  BY DEF IInv
<1>1. /\ At(p, "zero")
      /\ pc' = [pc EXCEPT ![p] = "idle"]
      /\ creat' = [creat EXCEPT ![p] = FALSE]
      /\ \/ creat[p] /\ mem' = [mem EXCEPT ![attached[p]] = 0]
         \/ ~creat[p] /\ UNCHANGED mem
  BY DEF Zero, Goto, Zeroes
<1>2. UNCHANGED <<files, val, mode, now, tmr, wait, bound, made, id, attached,
                  starts, copy, writes>>
  BY DEF Zero, Goto, Zeroes, keyVars, semaVars, shmVars, appVars
<1>3. /\ pc \in [Procs -> Labels] /\ creat \in [Procs -> BOOLEAN] /\ mode \in [Procs -> Modes]
      /\ races \subseteq races' /\ races' \subseteq Windows
  BY <1>0, MetWindows DEF TypeOK
<1>4. TypeOK'
  <2>1. pc' \in [Procs -> Labels]
    BY <1>1, <1>3 DEF Labels
  <2>2. creat' \in [Procs -> BOOLEAN]
    BY <1>1, <1>3
  <2>3. mem' \in [1 .. MaxSegs -> Nat]
    <3>1. mem \in [1 .. MaxSegs -> Nat]
      BY <1>0 DEF TypeOK
    <3>2. mem' = [mem EXCEPT ![attached[p]] = 0] \/ mem' = mem
      BY <1>1
    <3> QED BY <3>1, <3>2
  <2> QED BY <1>0, <1>2, <2>1, <2>2, <2>3, <1>3 DEF TypeOK
<1>5. SemaPart'
  BY <1>0, <1>1, <1>2, <1>3, SMTT(20) DEF TypeOK, SemaPart, Before, NoSem, At
<1>6. KeyPart'
  BY <1>0, <1>1, <1>2, <1>3, SMTT(20) DEF SemaPart, KeyPart, Making, NoSem,
     Before, At
<1>7. ExcludesPart'
  BY <1>0, <1>1, <1>2, <1>3, SMTT(20) DEF SemaPart, KeyPart, ExcludesPart,
     Inside, NoSem, Before, Making, At
<1>8. ShmPart'
  BY <1>0, <1>1, <1>2, <1>3, SMTT(20) DEF TypeOK, ShmPart, InTmlock, Inside,
     At
<1>9. OnePart'
  BY <1>0, <1>1, <1>2, <1>3, SMTT(20) DEF ShmPart, OnePart, Sharing, InTmlock,
     Inside, At
<1>10. CountPart'
  <2> SUFFICES ASSUME races' = {} PROVE CountPart'
    BY DEF CountPart
  <2>1. attached[p] \in 1 .. MaxSegs /\ made # 0 /\ races = {}
    BY <1>0, <1>1, <1>3, UserHasSegment
  <2>2. creat[p] => Sharing(p)
    BY <1>1 DEF Sharing, At
  <2>3. \A s \in 1 .. MaxSegs : mem'[s] = writes[s]
    BY <1>0, <1>1, <2>1, <2>2 DEF TypeOK, CountPart
  <2>4. \A q \in Procs : At(q, "write")' => q # p /\ At(q, "write") /\ attached[q] # 0
    BY <1>0, <1>1, <1>3 DEF ShmPart, Inside, At
  <2>5. \A q \in Procs : At(q, "write")' => UNCHANGED mem
    BY <1>0, <1>1, <2>1, <2>2, <2>4 DEF CountPart
  <2>6. \A q \in Procs : At(q, "write")' => copy[q] = mem'[attached[q]]
    BY <1>0, <2>1, <2>4, <2>5 DEF CountPart
  <2>7. \A q \in Procs : Sharing(q)' => Sharing(q)
    BY <1>1, <1>3 DEF Sharing, At
  <2> QED BY <1>0, <1>2, <2>1, <2>3, <2>6, <2>7 DEF CountPart, At
<1>11. TimerPart'
  BY <1>0, <1>1, <1>2, <1>3, SMTT(20) DEF TypeOK, TimerPart, InTmlock,
     TmlockOver, At
<1> QED BY <1>4, <1>5, <1>6, <1>7, <1>8, <1>9, <1>10, <1>11 DEF IInv

LEMMA ShmDestroyKeeps ==
    ASSUME IInv, NEW p \in Procs, ShmDestroy(p), UNCHANGED <<semaVars, appVars>>,
           UNCHANGED races
    PROVE  IInv'
<1>0. /\ TypeOK /\ SemaPart /\ KeyPart /\ ExcludesPart
      /\ ShmPart /\ OnePart /\ CountPart /\ TimerPart
  BY DEF IInv
<1>1. /\ At(p, "idle")
      /\ pc' = [pc EXCEPT ![p] = "failed"]
      /\ bound' = 0 \/ UNCHANGED bound
  BY DEF ShmDestroy, Goto, LeftFiles
<1>2. UNCHANGED <<files, creat, val, mode, now, tmr, wait, made, mem, id,
                  attached, starts, copy, writes>>
  BY DEF ShmDestroy, Goto, LeftFiles, keyVars, semaVars, shmVars, appVars
<1>3. /\ pc \in [Procs -> Labels] /\ creat \in [Procs -> BOOLEAN] /\ mode \in [Procs -> Modes]
      /\ races \subseteq races' /\ races' \subseteq Windows
  BY <1>0 DEF TypeOK
<1>4. TypeOK'
  <2>1. pc' \in [Procs -> Labels]
    BY <1>1, <1>3 DEF Labels
  <2>2. bound' \in 0 .. made'
    BY <1>0, <1>1, <1>2, SegsAssumption DEF TypeOK
  <2> QED BY <1>0, <1>2, <1>3, <2>1, <2>2 DEF TypeOK
<1>5. SemaPart'
  BY <1>0, <1>1, <1>2, <1>3, SMTT(20) DEF TypeOK, SemaPart, Before, NoSem, At
<1>6. KeyPart'
  BY <1>0, <1>1, <1>2, <1>3, SMTT(20) DEF SemaPart, KeyPart, Making, NoSem,
     Before, At
<1>7. ExcludesPart'
  BY <1>0, <1>1, <1>2, <1>3, SMTT(20) DEF SemaPart, KeyPart, ExcludesPart,
     Inside, NoSem, Before, Making, At
<1>8. ShmPart'
  BY <1>0, <1>1, <1>2, <1>3, SMTT(20) DEF TypeOK, ShmPart, InTmlock, Inside,
     At
<1>9. OnePart'
  BY <1>0, <1>1, <1>2, <1>3, SMTT(20) DEF ShmPart, OnePart, Sharing, InTmlock,
     Inside, At
<1>10. CountPart'
  BY <1>0, <1>1, <1>2, <1>3, SMTT(20) DEF TypeOK, ShmPart, OnePart, CountPart,
     Sharing, InTmlock, Inside, At
<1>11. TimerPart'
  BY <1>0, <1>1, <1>2, <1>3, SMTT(20) DEF TypeOK, TimerPart, InTmlock,
     TmlockOver, At
<1> QED BY <1>4, <1>5, <1>6, <1>7, <1>8, <1>9, <1>10, <1>11 DEF IInv

LEMMA ReadKeeps ==
    ASSUME IInv, NEW p \in Procs, Read(p),
           races' = races \cup Met(p)
    PROVE  IInv'
<1>0. /\ TypeOK /\ SemaPart /\ KeyPart /\ ExcludesPart
      /\ ShmPart /\ OnePart /\ CountPart /\ TimerPart
  BY DEF IInv
<1>1. /\ At(p, "read")
      /\ pc' = [pc EXCEPT ![p] = "write"]
      /\ copy' = [copy EXCEPT ![p] = mem[attached[p]]]
  BY DEF Read, Goto
<1>2. UNCHANGED <<files, creat, val, mode, now, tmr, wait, bound, made, mem,
                  id, attached, starts, writes>>
  BY DEF Read, Goto, keyVars, semaVars, shmVars, appVars
<1>3. /\ pc \in [Procs -> Labels] /\ creat \in [Procs -> BOOLEAN] /\ mode \in [Procs -> Modes]
      /\ races \subseteq races' /\ races' \subseteq Windows
  BY <1>0, MetWindows DEF TypeOK
<1>4. TypeOK'
  <2>1. attached[p] \in 1 .. MaxSegs
    BY <1>0, <1>1, UserHasSegment DEF Inside, At
  <2>2. copy' \in [Procs -> Nat] /\ pc' \in [Procs -> Labels]
    BY <1>0, <1>1, <2>1 DEF TypeOK, Labels
  <2> QED BY <1>0, <1>2, <1>3, <2>2 DEF TypeOK
<1>5. SemaPart'
  BY <1>0, <1>1, <1>2, <1>3, SMTT(20) DEF TypeOK, SemaPart, Before, NoSem, At
<1>6. KeyPart'
  BY <1>0, <1>1, <1>2, <1>3, SMTT(20) DEF SemaPart, KeyPart, Making, NoSem,
     Before, At
<1>7. ExcludesPart'
  BY <1>0, <1>1, <1>2, <1>3, SMTT(20) DEF SemaPart, KeyPart, ExcludesPart,
     Inside, NoSem, Before, Making, At
<1>8. ShmPart'
  BY <1>0, <1>1, <1>2, <1>3, SMTT(20) DEF TypeOK, ShmPart, InTmlock, Inside,
     At
<1>9. OnePart'
  BY <1>0, <1>1, <1>2, <1>3, SMTT(20) DEF ShmPart, OnePart, Sharing, InTmlock,
     Inside, At
<1>10. CountPart'
  BY <1>0, <1>1, <1>2, <1>3, SMTT(20) DEF TypeOK, ShmPart, OnePart, CountPart,
     Sharing, InTmlock, Inside, At
<1>11. TimerPart'
  BY <1>0, <1>1, <1>2, <1>3, SMTT(20) DEF TypeOK, TimerPart, InTmlock,
     TmlockOver, At
<1> QED BY <1>4, <1>5, <1>6, <1>7, <1>8, <1>9, <1>10, <1>11 DEF IInv

LEMMA WriteKeeps ==
    ASSUME IInv, NEW p \in Procs, Write(p),
           races' = races \cup Met(p)
    PROVE  IInv'
<1>0. /\ TypeOK /\ SemaPart /\ KeyPart /\ ExcludesPart
      /\ ShmPart /\ OnePart /\ CountPart /\ TimerPart
  BY DEF IInv
<1>1. /\ At(p, "write")
      /\ pc' = [pc EXCEPT ![p] = "unlock"]
      /\ mem' = [mem EXCEPT ![attached[p]] = copy[p] + 1]
      /\ writes' = [writes EXCEPT ![attached[p]] = @ + 1]
      /\ copy' = [copy EXCEPT ![p] = 0]
  BY DEF Write, Goto
<1>2. UNCHANGED <<files, creat, val, mode, now, tmr, wait, bound, made, id,
                  attached, starts>>
  BY DEF Write, Goto, keyVars, semaVars, shmVars, appVars
<1>3. /\ pc \in [Procs -> Labels] /\ creat \in [Procs -> BOOLEAN] /\ mode \in [Procs -> Modes]
      /\ races \subseteq races' /\ races' \subseteq Windows
  BY <1>0, MetWindows DEF TypeOK
<1>4. TypeOK'
  <2>1. attached[p] \in 1 .. MaxSegs
    BY <1>0, <1>1, UserHasSegment DEF Inside, At
  <2>2. copy' \in [Procs -> Nat] /\ pc' \in [Procs -> Labels]
    BY <1>0, <1>1, <2>1 DEF TypeOK, Labels
  <2>3. mem' \in [1 .. MaxSegs -> Nat] /\ writes' \in [1 .. MaxSegs -> Nat]
    BY <1>0, <1>1, <2>1 DEF TypeOK
  <2> QED BY <1>0, <1>2, <1>3, <2>2, <2>3 DEF TypeOK
<1>5. SemaPart'
  BY <1>0, <1>1, <1>2, <1>3, SMTT(20) DEF TypeOK, SemaPart, Before, NoSem, At
<1>6. KeyPart'
  BY <1>0, <1>1, <1>2, <1>3, SMTT(20) DEF SemaPart, KeyPart, Making, NoSem,
     Before, At
<1>7. ExcludesPart'
  BY <1>0, <1>1, <1>2, <1>3, SMTT(20) DEF SemaPart, KeyPart, ExcludesPart,
     Inside, NoSem, Before, Making, At
<1>8. ShmPart'
  BY <1>0, <1>1, <1>2, <1>3, SMTT(20) DEF TypeOK, ShmPart, InTmlock, Inside,
     At
<1>9. OnePart'
  BY <1>0, <1>1, <1>2, <1>3, SMTT(20) DEF ShmPart, OnePart, Sharing, InTmlock,
     Inside, At
<1>10. CountPart'
  <2> SUFFICES ASSUME races' = {} PROVE CountPart'
    BY DEF CountPart
  <2>1. attached[p] \in 1 .. MaxSegs /\ races = {}
    BY <1>0, <1>1, <1>3, UserHasSegment DEF Inside, At
  <2>2. copy[p] = mem[attached[p]] /\ mem[attached[p]] = writes[attached[p]]
    BY <1>0, <1>1, <2>1 DEF CountPart
  <2>3. \A q \in Procs : q # p => pc[q] # "write"
    BY <1>0, <1>1, <2>1 DEF ExcludesPart, Inside, At
  <2>4. \A q \in Procs : ~Sharing(q)
    BY <1>0, <1>1, <2>1 DEF CountPart, Sharing, At
  <2>5. made # 0
    BY <1>0, <2>1 DEF TypeOK
  <2>6. \A s \in 1 .. MaxSegs : mem'[s] = writes'[s]
    BY <1>0, <1>1, <2>1, <2>2 DEF TypeOK, CountPart
  <2>7. \A q \in Procs : ~At(q, "write")'
    BY <1>1, <1>3, <2>3 DEF At
  <2>8. \A q \in Procs : ~Sharing(q)'
    BY <1>1, <1>2, <1>3, <2>4 DEF Sharing
  <2> QED BY <1>2, <2>5, <2>6, <2>7, <2>8 DEF CountPart
<1>11. TimerPart'
  BY <1>0, <1>1, <1>2, <1>3, SMTT(20) DEF TypeOK, TimerPart, InTmlock,
     TmlockOver, At
<1> QED BY <1>4, <1>5, <1>6, <1>7, <1>8, <1>9, <1>10, <1>11 DEF IInv

LEMMA LockCallKeeps ==
    ASSUME IInv, NEW p \in Procs, LockCall(p),
           UNCHANGED races
    PROVE  IInv'
<1>0. /\ TypeOK /\ SemaPart /\ KeyPart /\ ExcludesPart
      /\ ShmPart /\ OnePart /\ CountPart /\ TimerPart
  BY DEF IInv
<1>1. /\ At(p, "idle")
      /\ pc' = [pc EXCEPT ![p] = "lock"]
  BY DEF LockCall, Goto
<1>2. UNCHANGED <<files, creat, val, mode, now, tmr, wait, bound, made, mem,
                  id, attached, starts, copy, writes>>
  BY DEF LockCall, Goto, keyVars, semaVars, shmVars, appVars
<1>3. /\ pc \in [Procs -> Labels] /\ creat \in [Procs -> BOOLEAN] /\ mode \in [Procs -> Modes]
      /\ races \subseteq races' /\ races' \subseteq Windows
  BY <1>0 DEF TypeOK
<1>4. TypeOK'
  BY <1>0, <1>1, <1>2, <1>3, SMTT(20) DEF TypeOK, TmlockOver, NoTimer, NoWait,
     Modes, Labels, At
<1>5. SemaPart'
  BY <1>0, <1>1, <1>2, <1>3, SMTT(20) DEF TypeOK, SemaPart, Before, NoSem, At
<1>6. KeyPart'
  BY <1>0, <1>1, <1>2, <1>3, SMTT(20) DEF SemaPart, KeyPart, Making, NoSem,
     Before, At
<1>7. ExcludesPart'
  BY <1>0, <1>1, <1>2, <1>3, SMTT(20) DEF SemaPart, KeyPart, ExcludesPart,
     Inside, NoSem, Before, Making, At
<1>8. ShmPart'
  BY <1>0, <1>1, <1>2, <1>3, SMTT(20) DEF TypeOK, ShmPart, InTmlock, Inside,
     At
<1>9. OnePart'
  BY <1>0, <1>1, <1>2, <1>3, SMTT(20) DEF ShmPart, OnePart, Sharing, InTmlock,
     Inside, At
<1>10. CountPart'
  BY <1>0, <1>1, <1>2, <1>3, SMTT(20) DEF TypeOK, ShmPart, OnePart, CountPart,
     Sharing, InTmlock, Inside, At
<1>11. TimerPart'
  BY <1>0, <1>1, <1>2, <1>3, SMTT(20) DEF TypeOK, TimerPart, InTmlock,
     TmlockOver, At
<1> QED BY <1>4, <1>5, <1>6, <1>7, <1>8, <1>9, <1>10, <1>11 DEF IInv

LEMMA EndKeeps ==
    ASSUME IInv, NEW p \in Procs, End(p),
           UNCHANGED races
    PROVE  IInv'
<1>0. /\ TypeOK /\ SemaPart /\ KeyPart /\ ExcludesPart
      /\ ShmPart /\ OnePart /\ CountPart /\ TimerPart
  BY DEF IInv
<1>1. /\ pc' = [pc EXCEPT ![p] = "off"]
      /\ creat' = [creat EXCEPT ![p] = FALSE]
      /\ mode' = [mode EXCEPT ![p] = "EXCEP_UNLOCK"]
      /\ TmlockOver(p)
      /\ id' = [id EXCEPT ![p] = 0]
      /\ attached' = [attached EXCEPT ![p] = 0]
      /\ copy' = [copy EXCEPT ![p] = 0]
  BY DEF End, Goto, InitOver
<1>2. UNCHANGED <<files, val, now, bound, made, mem, starts, writes>>
  BY DEF End, Goto, InitOver, TmlockOver, keyVars, semaVars, shmVars, appVars
<1>3. /\ pc \in [Procs -> Labels] /\ creat \in [Procs -> BOOLEAN] /\ mode \in [Procs -> Modes]
      /\ races \subseteq races' /\ races' \subseteq Windows
  BY <1>0 DEF TypeOK
<1>4. TypeOK'
  <2>1. pc' \in [Procs -> Labels]
    BY <1>1, <1>3 DEF Labels
  <2>2. creat' \in [Procs -> BOOLEAN]
    BY <1>1, <1>3
  <2>3. mode' \in [Procs -> Modes]
    BY <1>1, <1>3 DEF Modes
  <2>4. tmr' \in [Procs -> Timers]
    BY <1>0, <1>1, NoTimerIsTimer DEF TypeOK, TmlockOver
  <2>5. wait' \in [Procs -> [from : Nat, ms : Nat]]
    BY <1>0, <1>1, NoTimerIsTimer DEF TypeOK, TmlockOver
  <2>6. id' \in [Procs -> 0 .. made]
    BY <1>0, <1>1 DEF TypeOK
  <2>7. attached' \in [Procs -> 0 .. made]
    BY <1>0, <1>1, <1>2 DEF TypeOK
  <2>8. copy' \in [Procs -> Nat]
    BY <1>0, <1>1 DEF TypeOK
  <2> QED BY <1>0, <1>2, <2>1, <2>2, <2>3, <2>4, <2>5, <2>6, <2>7, <2>8, <1>3
     DEF TypeOK
<1>5. SemaPart'
  BY <1>0, <1>1, <1>2, <1>3, SMTT(20) DEF TypeOK, SemaPart, Before, NoSem, At
<1>6. KeyPart'
  BY <1>0, <1>1, <1>2, <1>3, SMTT(20) DEF SemaPart, KeyPart, Making, NoSem,
     Before, At
<1>7. ExcludesPart'
  BY <1>0, <1>1, <1>2, <1>3, SMTT(20) DEF SemaPart, KeyPart, ExcludesPart,
     Inside, NoSem, Before, Making, At
<1>8. ShmPart'
  BY <1>0, <1>1, <1>2, <1>3, SMTT(20) DEF TypeOK, ShmPart, InTmlock, Inside,
     At
<1>9. OnePart'
  BY <1>0, <1>1, <1>2, <1>3, SMTT(20) DEF ShmPart, OnePart, Sharing, InTmlock,
     Inside, At
<1>10. CountPart'
  BY <1>0, <1>1, <1>2, <1>3, SMTT(20) DEF TypeOK, ShmPart, OnePart, CountPart,
     Sharing, InTmlock, Inside, At
<1>11. TimerPart'
  BY <1>0, <1>1, <1>2, <1>3, SMTT(20) DEF TypeOK, TimerPart, InTmlock,
     TmlockOver, At
<1> QED BY <1>4, <1>5, <1>6, <1>7, <1>8, <1>9, <1>10, <1>11 DEF IInv

LEMMA StartKeeps ==
    ASSUME IInv, NEW p \in Procs, NEW m \in Modes, Start(p, m),
           UNCHANGED races
    PROVE  IInv'
<1>0. /\ TypeOK /\ SemaPart /\ KeyPart /\ ExcludesPart
      /\ ShmPart /\ OnePart /\ CountPart /\ TimerPart
  BY DEF IInv
<1>1. /\ At(p, "off")
      /\ pc' = [pc EXCEPT ![p] = "sema_init"]
      /\ mode' = [mode EXCEPT ![p] = m]
      /\ starts' = starts + 1
  BY DEF Start, Goto
<1>2. UNCHANGED <<files, creat, val, now, tmr, wait, bound, made, mem, id,
                  attached, copy, writes>>
  BY DEF Start, Goto, keyVars, semaVars, shmVars, appVars
<1>3. /\ pc \in [Procs -> Labels] /\ creat \in [Procs -> BOOLEAN] /\ mode \in [Procs -> Modes]
      /\ races \subseteq races' /\ races' \subseteq Windows
  BY <1>0 DEF TypeOK
<1>4. TypeOK'
  BY <1>0, <1>1, <1>2, <1>3, SMTT(20) DEF TypeOK, TmlockOver, NoTimer, NoWait,
     Modes, Labels, At
<1>5. SemaPart'
  BY <1>0, <1>1, <1>2, <1>3, SMTT(20) DEF TypeOK, SemaPart, Before, NoSem, At
<1>6. KeyPart'
  BY <1>0, <1>1, <1>2, <1>3, SMTT(20) DEF SemaPart, KeyPart, Making, NoSem,
     Before, At
<1>7. ExcludesPart'
  BY <1>0, <1>1, <1>2, <1>3, SMTT(20) DEF SemaPart, KeyPart, ExcludesPart,
     Inside, NoSem, Before, Making, At
<1>8. ShmPart'
  BY <1>0, <1>1, <1>2, <1>3, SMTT(20) DEF TypeOK, ShmPart, InTmlock, Inside,
     At
<1>9. OnePart'
  BY <1>0, <1>1, <1>2, <1>3, SMTT(20) DEF ShmPart, OnePart, Sharing, InTmlock,
     Inside, At
<1>10. CountPart'
  BY <1>0, <1>1, <1>2, <1>3, SMTT(20) DEF TypeOK, ShmPart, OnePart, CountPart,
     Sharing, InTmlock, Inside, At
<1>11. TimerPart'
  BY <1>0, <1>1, <1>2, <1>3, SMTT(20) DEF TypeOK, TimerPart, InTmlock,
     TmlockOver, At
<1> QED BY <1>4, <1>5, <1>6, <1>7, <1>8, <1>9, <1>10, <1>11 DEF IInv

LEMMA TmlockCallKeeps ==
    ASSUME IInv, NEW p \in Procs, NEW ms \in LockMs, TmlockCall(p, ms),
           UNCHANGED <<shmVars, appVars>>,
           UNCHANGED races
    PROVE  IInv'
<1>0. /\ TypeOK /\ SemaPart /\ KeyPart /\ ExcludesPart
      /\ ShmPart /\ OnePart /\ CountPart /\ TimerPart
  BY DEF IInv
<1>1. /\ At(p, "idle")
      /\ pc' = [pc EXCEPT ![p] = "tmlock"]
      /\ tmr' = [tmr EXCEPT ![p] = SetMs(Clock(now), ms)]
      /\ wait' = [wait EXCEPT ![p] = [from |-> now, ms |-> ms]]
  BY DEF TmlockCall, Goto
<1>2. UNCHANGED <<files, creat, val, mode, now, bound, made, mem, id,
                  attached, starts, copy, writes>>
  BY DEF TmlockCall, Goto, TmlockOver, keyVars, semaVars, shmVars, appVars
<1>3. /\ pc \in [Procs -> Labels] /\ creat \in [Procs -> BOOLEAN] /\ mode \in [Procs -> Modes]
      /\ races \subseteq races' /\ races' \subseteq Windows
  BY <1>0 DEF TypeOK
<1>4. TypeOK'
  <2>1. pc' \in [Procs -> Labels]
    BY <1>1, <1>3 DEF Labels
  <2>2. tmr' \in [Procs -> Timers]
    BY <1>0, <1>1, SetMsIsTimer, LockMsAssumption DEF TypeOK
  <2>3. wait' \in [Procs -> [from : Nat, ms : Nat]]
    BY <1>0, <1>1, LockMsAssumption DEF TypeOK
  <2> QED BY <1>0, <1>2, <2>1, <2>2, <2>3, <1>3 DEF TypeOK
<1>5. SemaPart'
  BY <1>0, <1>1, <1>2, <1>3, SMTT(20) DEF TypeOK, SemaPart, Before, NoSem, At
<1>6. KeyPart'
  BY <1>0, <1>1, <1>2, <1>3, SMTT(20) DEF SemaPart, KeyPart, Making, NoSem,
     Before, At
<1>7. ExcludesPart'
  BY <1>0, <1>1, <1>2, <1>3, SMTT(20) DEF SemaPart, KeyPart, ExcludesPart,
     Inside, NoSem, Before, Making, At
<1>8. ShmPart'
  BY <1>0, <1>1, <1>2, <1>3, SMTT(20) DEF TypeOK, ShmPart, InTmlock, Inside,
     At
<1>9. OnePart'
  BY <1>0, <1>1, <1>2, <1>3, SMTT(20) DEF ShmPart, OnePart, Sharing, InTmlock,
     Inside, At
<1>10. CountPart'
  BY <1>0, <1>1, <1>2, <1>3, SMTT(20) DEF TypeOK, ShmPart, OnePart, CountPart,
     Sharing, InTmlock, Inside, At
<1>11. TimerPart'
  BY <1>0, <1>1, <1>2, <1>3, SMTT(20) DEF TypeOK, TimerPart, InTmlock,
     TmlockOver, At
<1> QED BY <1>4, <1>5, <1>6, <1>7, <1>8, <1>9, <1>10, <1>11 DEF IInv

LEMMA TickKeeps ==
    ASSUME IInv, Tick, UNCHANGED <<shmVars, appVars>>,
           UNCHANGED races
    PROVE  IInv'
<1>0. /\ TypeOK /\ SemaPart /\ KeyPart /\ ExcludesPart
      /\ ShmPart /\ OnePart /\ CountPart /\ TimerPart
  BY DEF IInv
<1>1. /\ now' = now + 1
  BY DEF Tick, Goto
<1>2. UNCHANGED <<pc, files, creat, val, mode, tmr, wait, bound, made, mem,
                  id, attached, starts, copy, writes>>
  BY DEF Tick, Goto, keyVars, semaVars, shmVars, appVars
<1>3. /\ pc \in [Procs -> Labels] /\ creat \in [Procs -> BOOLEAN] /\ mode \in [Procs -> Modes]
      /\ races \subseteq races' /\ races' \subseteq Windows
  BY <1>0 DEF TypeOK
<1>4. TypeOK'
  BY <1>0, <1>1, <1>2, <1>3, SMTT(20) DEF TypeOK, TmlockOver, NoTimer, NoWait,
     Modes, Labels, At
<1>5. SemaPart'
  BY <1>0, <1>2, <1>3 DEF SemaPart, Before, NoSem, At
<1>6. KeyPart'
  BY <1>0, <1>2, <1>3 DEF KeyPart, Making, NoSem, At
<1>7. ExcludesPart'
  BY <1>0, <1>2, <1>3 DEF ExcludesPart, Inside, NoSem, At
<1>8. ShmPart'
  BY <1>0, <1>2, <1>3 DEF ShmPart, InTmlock, Inside, At
<1>9. OnePart'
  BY <1>0, <1>2, <1>3 DEF OnePart, Sharing, At
<1>10. CountPart'
  BY <1>0, <1>2, <1>3 DEF CountPart, Sharing, At
<1>11. TimerPart'
  BY <1>0, <1>1, <1>2, <1>3, SMTT(20) DEF TypeOK, TimerPart, InTmlock,
     TmlockOver, At
<1> QED BY <1>4, <1>5, <1>6, <1>7, <1>8, <1>9, <1>10, <1>11 DEF IInv

-----------------------------------------------------------------------------
(* The theorems *)

LEMMA InitInv == Init => IInv
<1> SUFFICES ASSUME Init PROVE IInv
  OBVIOUS
<1>1. /\ pc = [p \in Procs |-> "off"] /\ files = {} /\ creat = [p \in Procs |-> FALSE]
      /\ val = NoSem /\ mode = [p \in Procs |-> "EXCEP_UNLOCK"]
      /\ now \in FirstNow
      /\ tmr = [p \in Procs |-> NoTimer] /\ wait = [p \in Procs |-> NoWait]
      /\ bound = 0 /\ made = 0 /\ mem = [s \in 1 .. MaxSegs |-> 0]
      /\ id = [p \in Procs |-> 0] /\ attached = [p \in Procs |-> 0]
      /\ starts = 0 /\ copy = [p \in Procs |-> 0]
      /\ writes = [s \in 1 .. MaxSegs |-> 0] /\ races = {}
  BY DEF Init, KeyInit, SemaInit, ShmInit
<1>2. TypeOK
  BY <1>1, NoTimerIsTimer, LockMsAssumption, SegsAssumption DEF TypeOK, Labels, Modes
<1>3. \A p \in Procs : pc[p] = "off"
  BY <1>1
<1>4. SemaPart /\ KeyPart
  BY <1>1, <1>3 DEF SemaPart, KeyPart, Before, Making, NoSem, At
<1>5. ExcludesPart
  BY <1>1, <1>3 DEF ExcludesPart, Inside, NoSem, At
<1>6. ShmPart /\ OnePart
  BY <1>1, <1>3 DEF ShmPart, OnePart, Sharing, InTmlock, Inside, At
<1>7. CountPart
  BY <1>1, <1>3 DEF CountPart, Sharing, At
<1>8. TimerPart
  BY <1>3 DEF TimerPart, InTmlock, At
<1> QED BY <1>2, <1>4, <1>5, <1>6, <1>7, <1>8 DEF IInv

LEMMA NextInv == IInv /\ [Next]_vars => IInv'
<1> SUFFICES ASSUME IInv, [Next]_vars PROVE IInv'
  OBVIOUS
<1>1. ASSUME NEW p \in Procs, SemaStep(p), UNCHANGED <<shmVars, appVars>>,
             races' = races \cup Met(p)
      PROVE  IInv'
  BY <1>1, SemaAccessKeeps, SemaOpenKeeps, SemgetKeeps, SetValKeeps, LockKeeps,
     TmlockTryKeeps, TmlockCheckKeeps, UnlockKeeps DEF SemaStep
<1>2. ASSUME NEW p \in Procs, ShmStep(p), UNCHANGED <<semaVars, appVars>>,
             races' = races \cup Met(p)
      PROVE  IInv'
  BY <1>2, ShmAccessKeeps, ShmOpenKeeps, ShmgetKeeps, ShmatKeeps, ZeroKeeps
     DEF ShmStep
<1>3. CASE \E p \in Procs : ProcStep(p)
  BY <1>1, <1>2, <1>3, ReadKeeps, WriteKeeps DEF ProcStep
<1>4. CASE OtherStep /\ UNCHANGED races
  <2>1. CASE \E p \in Procs, m \in Modes : Start(p, m)
    BY <1>4, <2>1, StartKeeps
  <2>2. CASE \E p \in Procs : LockCall(p) \/ End(p)
    BY <1>4, <2>2, LockCallKeeps, EndKeeps
  <2>3. CASE \E p \in Procs, ms \in LockMs :
                Unfinished /\ TmlockCall(p, ms) /\ UNCHANGED <<shmVars, appVars>>
    BY <1>4, <2>3, TmlockCallKeeps
  <2>4. CASE \E p \in Procs : ShmDestroy(p) /\ UNCHANGED <<semaVars, appVars>>
    BY <1>4, <2>4, ShmDestroyKeeps
  <2>5. CASE Tick /\ UNCHANGED <<shmVars, appVars>>
    BY <1>4, <2>5, TickKeeps
  <2> QED BY <1>4, <2>1, <2>2, <2>3, <2>4, <2>5 DEF OtherStep
<1>5. CASE UNCHANGED vars
  <2>1. UNCHANGED <<pc, files, creat, val, mode, now, tmr, wait, bound, made,
                    mem, id, attached, starts, copy, writes, races>>
    BY <1>5 DEF vars, keyVars, semaVars, shmVars, appVars
  <2>2. TypeOK'
    BY <2>1 DEF IInv, TypeOK
  <2>3. SemaPart' /\ KeyPart'
    BY <2>1 DEF IInv, SemaPart, KeyPart, Making, At
  <2>4. ExcludesPart'
    BY <2>1 DEF IInv, ExcludesPart, Inside, At
  <2>5. ShmPart' /\ OnePart'
    BY <2>1 DEF IInv, ShmPart, OnePart, Sharing, InTmlock, Inside, At
  <2>6. CountPart'
    BY <2>1 DEF IInv, CountPart, Sharing, At
  <2>7. TimerPart'
    BY <2>1 DEF IInv, TimerPart, InTmlock, At
  <2> QED BY <2>2, <2>3, <2>4, <2>5, <2>6, <2>7 DEF IInv
<1> QED
  BY <1>3, <1>4, <1>5 DEF Next

\* The invariant, of every behaviour: no order of starts, calls and kills is
\* excluded.
THEOREM Invariant == Spec => []IInv
BY InitInv, NextInv, PTL DEF Spec

\* Type correctness: the state of both objects stays in its bounds, a timer's
\* nanoseconds below a second among them (tm_set_ms).
THEOREM TypeCorrect == Spec => []TypeOK
<1>1. IInv => TypeOK
  BY DEF IInv
<1> QED BY <1>1, Invariant, PTL

\* sema_lock, tmlock and unlock exclude, in every mode of init and whoever is
\* killed, until two processes create the semaphore or one forces it free
\* under another.
THEOREM Excludes == Spec => []MutualExclusion
<1>1. IInv => MutualExclusion
  BY DEF IInv, ExcludesPart, MutualExclusion
<1> QED BY <1>1, Invariant, PTL

\* No addition to the memory is lost, to a race or to shm_init's memset, until
\* two processes meet in a window of their inits.
THEOREM LosesNothing == Spec => []NoLostUpdate
<1>1. IInv => NoLostUpdate
  <2> SUFFICES ASSUME IInv, races = {}, NEW s \in 1 .. made PROVE mem[s] = writes[s]
    BY DEF NoLostUpdate
  <2>1. s \in 1 .. MaxSegs
    BY SegsAssumption DEF IInv, TypeOK
  <2> QED BY <2>1 DEF IInv, CountPart
<1> QED BY <1>1, Invariant, PTL

\* All processes have one segment attached, as shm_destory leaves the key
\* file and no init after it can create another, until two processes find the
\* key file missing at once.
THEOREM OneForAll == Spec => []OneSegment
<1>1. IInv => OneSegment
  <2> SUFFICES ASSUME IInv, "shm" \notin races, NEW p \in Procs, NEW q \in Procs,
                      attached[p] # 0, attached[q] # 0
               PROVE  attached[p] = attached[q]
    BY DEF OneSegment
  <2>1. made \in {0, 1}
    BY SegsAssumption DEF IInv, TypeOK, OnePart
  <2>2. attached[p] = 1 /\ attached[q] = 1
    BY <2>1 DEF IInv, TypeOK
  <2> QED BY <2>2
<1> QED BY <1>1, Invariant, PTL

\* tmlock gives up less than a millisecond early at most: for every clock and
\* every time below a day.
THEOREM IsPatient == Spec => TmlockPatient
<1>1. ASSUME IInv, NEW p \in Procs PROVE Patient(p)
  <2> SUFFICES ASSUME GivesUp(p), wait[p].ms < MaxInterval
               PROVE  now - wait[p].from > (wait[p].ms - 1) * NsPerMs
    BY DEF Patient
  <2>1. now \in Nat /\ wait[p].from \in Nat /\ wait[p].ms \in Nat
    BY <1>1 DEF IInv, TypeOK
  <2>2. wait[p].from <= now /\ tmr[p] = SetMs(Clock(wait[p].from), wait[p].ms)
    BY <1>1 DEF IInv, TimerPart, InTmlock, GivesUp
  <2>3. IsTimeout(Clock(now), SetMs(Clock(wait[p].from), wait[p].ms))
    BY <2>2 DEF GivesUp
  <2> QED BY <2>1, <2>2, <2>3, TimeoutExact
<1>2. IInv => [\A p \in Procs : Patient(p)]_vars
  BY <1>1
<1> QED BY <1>2, Invariant, PTL DEF TmlockPatient

=============================================================================
