------------------------------ MODULE SysVMsg ------------------------------
(***************************************************************************)
(* The System V message queues of the kernel, as msgQ.c uses them, and     *)
(* msgQ_get_qid, which maps a key file to a queue.  External: modelled     *)
(* from the calls msgget, msgsnd, msgrcv and msgctl in linux/src/msgQ.c.   *)
(*                                                                         *)
(* A queue is a sequence of messages.  Each call is one atomic step: a     *)
(* caller that would block in msgsnd is a caller whose action is not       *)
(* enabled.                                                                *)
(***************************************************************************)
EXTENDS Naturals, Sequences, SequencesExt

CONSTANTS Names,   \* key files
          Cap,     \* messages a queue holds (msg_qbytes)
          MaxQid   \* bound: queue ids known at one time

ASSUME KernelAssumption == Cap \in Nat /\ MaxQid \in Nat

VARIABLES mq,     \* [qids of the queues that exist -> sequence of messages]
          bound   \* [Names -> qid, 0 when the key has no queue]

kernelVars == <<mq, bound>>

MAX_SIZE == 2040   \* MESSAGE_QUEUE_MAX_SIZE, and the msgsz of every msgrcv
XidSize == 8       \* sizeof(pkg.xid), part of every message's size

ANY_MESSAGE == 0   \* the msgtyp that selects every message

Exists(q) == q \in DOMAIN mq
Room(q) == Exists(q) /\ Len(mq[q]) < Cap

\* msgrcv selects the first message of its type (any, for type 0); a message
\* longer than msgsz stays where it is and the call fails with E2BIG.
First(q, type) ==
    SelectInSeq(mq[q], LAMBDA m : type = ANY_MESSAGE \/ m.type = type)
Receivable(m) == m.len + XidSize <= MAX_SIZE

NextMsg(q, type) == mq[q][First(q, type)]

Gets(q, type) ==
    Exists(q) /\ First(q, type) # 0 /\ Receivable(NextMsg(q, type))
Fails(q, type) ==
    Exists(q) => (First(q, type) # 0 /\ ~Receivable(NextMsg(q, type)))

\* msgsnd, msgrcv and msgctl(IPC_RMID): what they do to the queues.
MsgSnd(q, m) ==
    mq' = [mq EXCEPT ![q] = Append(@, m)] /\ UNCHANGED bound
MsgRcv(q, type) ==
    mq' = [mq EXCEPT ![q] = RemoveAt(@, First(q, type))] /\ UNCHANGED bound
RmId(q) ==
    /\ mq' = [x \in DOMAIN mq \ {q} |-> mq[x]]
    /\ bound' = [k \in Names |-> IF bound[k] = q THEN 0 ELSE bound[k]]

\* msgQ_get_qid: the queue of a key, created when there is none.  The kernel
\* does not reuse an id; known holds the ids somebody still remembers, and as
\* ids are only compared with each other, an id nobody knows is a new one.
GetQid(name, known, q) ==
    \/ /\ bound[name] # 0
       /\ q = bound[name]
       /\ UNCHANGED kernelVars
    \/ /\ bound[name] = 0
       /\ q \notin known \cup DOMAIN mq
       /\ 1 .. q - 1 \subseteq known \cup DOMAIN mq
       /\ bound' = [bound EXCEPT ![name] = q]
       /\ mq' = [x \in DOMAIN mq \cup {q} |-> IF x = q THEN <<>> ELSE mq[x]]

KernelInit == mq = [q \in {} |-> <<>>] /\ bound = [k \in Names |-> 0]
=============================================================================
