----------------------------- MODULE MsgQCommon -----------------------------
(***************************************************************************)
(* What the two sides of linux/src/msgQ.c share: the package and the       *)
(* message types of linux/include/msgQ.h, the objects of both sides, the   *)
(* server's key, and the flags of test_msgQ.c that select which of the two *)
(* services its loops use.                                                 *)
(***************************************************************************)
EXTENDS SysVMsg

CONSTANTS Clients,    \* pids of the client processes
          SrvName,    \* the server's key
          AskFlag,    \* -a : the loops use ask and answer
          BcastFlag   \* -b : the loops use events

ASSUME FlagsAssumption ==
    /\ SrvName \in Names
    /\ AskFlag \in BOOLEAN /\ BcastFlag \in BOOLEAN
    /\ AskFlag \/ BcastFlag

VARIABLES clt,  \* [Clients -> the process's msgQ_clt and control state]
          srv   \* the server process's msgQ_srv and control state

SEND_TO_SERVER == 1
REG_TO_SERVER == 2

\* A msgQ_pkg: type and xid, the data's length, and the data itself as the
\* pair (who, n): n-th question of client who, the answer to it, or n-th
\* event, of server who.  n = 0 is an empty data field.
Pkg(type, xid, len, who, n) ==
    [type |-> type, xid |-> xid, len |-> len, who |-> who, n |-> n]

\* The length checks at the head of send, srv send and send_event.
ValidLen(len) == len > 0 /\ len <= MAX_SIZE

\* The queue ids that a client, or a registration under way, still holds.
ClientQids == UNION {{clt[c].srvQ, clt[c].eid} : c \in {x \in Clients : clt[x].pc # "dead"}}
RequestQids ==
    UNION {{m.xid : m \in {x \in ToSet(mq[q]) : x.type = REG_TO_SERVER}} : q \in DOMAIN mq}

\* The queue ids that somebody still holds.
KnownQids ==
    ClientQids \cup {srv.qid, srv.req} \cup ToSet(srv.list) \cup ToSet(srv.todo)
        \cup RequestQids
=============================================================================
