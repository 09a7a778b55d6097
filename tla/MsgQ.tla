-------------------------------- MODULE MsgQ --------------------------------
(***************************************************************************)
(* Clients and server of linux/src/msgQ.c over the kernel's queues, as the *)
(* processes of test_msgQ.c: every client and the server run their loops   *)
(* concurrently, may be killed, and a server may be started again.         *)
(***************************************************************************)
EXTENDS MsgQClient, MsgQServer, FiniteSets

CONSTANT MaxSlow   \* bound: registrations that time out because the server
                   \* takes longer than 3000 ms

VARIABLE slow      \* how many did

vars == <<kernelVars, clientVars, serverVars, slow>>

ServerPids == SrvPidBase + 1 .. SrvPidBase + MaxStarts

\* Process ids are neither each other's nor a message type: types 1 and 2
\* are the protocol's, and the answers to a client have its pid as type.
ASSUME PidsAssumption ==
    /\ Clients \subseteq Nat /\ SrvPidBase \in Nat
    /\ \A p \in Clients \cup ServerPids : p > REG_TO_SERVER
    /\ Clients \cap ServerPids = {}

ASSUME KeysAssumption == KeyOf \in [Clients -> Names \ {SrvName}]

\* The server is still in init, holds the registration of client c, or has it
\* on its queue: it is within the 3000 ms of request_event unless it is slow.
AnswerDue(c) ==
    \/ SrvAt("clear")
    \/ SrvAt("respond") /\ srv.req = clt[c].eid
    \/ /\ Exists(clt[c].srvQ)
       /\ \E m \in ToSet(mq[clt[c].srvQ]) :
              m.type = REG_TO_SERVER /\ m.xid = clt[c].eid

ClientTurn(c) ==
    \/ ClientStep(c) /\ UNCHANGED slow
    \/ /\ RequestTimeout(c)
       /\ IF AnswerDue(c) THEN slow < MaxSlow /\ slow' = slow + 1
          ELSE UNCHANGED slow

Init == KernelInit /\ ClientInit /\ ServerInit /\ slow = 0

Next ==
    \/ \E c \in Clients : ClientTurn(c) /\ UNCHANGED serverVars
    \/ \E c \in Clients :
          (CltDestroy(c) \/ CltKilled(c)) /\ UNCHANGED <<serverVars, slow>>
    \/ (ServerStep \/ SrvDestroy \/ SrvKilled) /\ UNCHANGED <<clientVars, slow>>

Spec == Init /\ [][Next]_vars

\* Every process that can take a step by itself eventually does: the kernel
\* schedules it, and its polling loops and timers advance.
Fairness ==
    /\ \A c \in Clients : WF_vars(ClientTurn(c) /\ UNCHANGED serverVars)
    /\ WF_vars(ServerStep /\ UNCHANGED <<clientVars, slow>>)

FairSpec == Spec /\ Fairness

-----------------------------------------------------------------------------
(* Properties                                                              *)

Queued == {e \in (DOMAIN mq) \X (1 .. Cap) : e[2] <= Len(mq[e[1]])}
MsgAt(e) == mq[e[1]][e[2]]

MsgTypes == {SEND_TO_SERVER, REG_TO_SERVER} \cup Clients \cup ServerPids
ClientPcs == {"off", "top", "reg", "regwait", "monitor", "ask", "sending",
              "recving", "dead"}
ServerPcs == {"down", "clear", "recv", "ack", "monreq", "respond", "event", "bcast"}

TypeOK ==
    /\ DOMAIN mq \subseteq 1 .. MaxQid
    /\ \A q \in DOMAIN mq : Len(mq[q]) <= Cap
    /\ \A e \in Queued : MsgAt(e).type \in MsgTypes
    /\ bound \in [Names -> {0} \cup DOMAIN mq]
    /\ \A c \in Clients : /\ clt[c].pc \in ClientPcs
                          /\ clt[c].pid \in {0} \cup ServerPids
                          /\ clt[c].srvQ <= MaxQid /\ clt[c].eid <= MaxQid
    /\ srv.pc \in ServerPcs
    /\ srv.pid \in {0} \cup Clients
    /\ me \in {0} \cup ServerPids

\* The messages at places I of queue q are numbered upwards, from above least.
Increasing(q, I, least) ==
    /\ \A i \in I : mq[q][i].n > least
    /\ \A i, j \in I : i < j => mq[q][i].n < mq[q][j].n

\* The places in queue q of the answers to client c, and of the events.
AnswersTo(c, q) == {i \in 1 .. Len(mq[q]) : mq[q][i].type = c}
EventsOn(q) == {i \in 1 .. Len(mq[q]) : mq[q][i].n > 0}

\* The answers waiting for a client answer its own questions, each at most
\* once, in the order asked, and none it has had before: across clients
\* sharing the server's queue, lost answers, refused answers and restarts.
AnswersInOrder ==
    \A c \in Clients : Exists(clt[c].srvQ) =>
        LET answers == AnswersTo(c, clt[c].srvQ)
        IN  /\ \A i \in answers : mq[clt[c].srvQ][i].who = c
            /\ Increasing(clt[c].srvQ, answers, hist[c].got)

\* A client reads answers that are late by at most as many questions as it
\* has given up on (recv timeouts and errors): it never catches up, and it
\* never falls further behind for another reason.
InExchange(c) == clt[c].pc \in {"sending", "recving", "dead"}
LagBounded ==
    \A c \in Clients :
        hist[c].asked - hist[c].got <= hist[c].misses + (IF InExchange(c) THEN 1 ELSE 0)

\* What a client leaves behind on the server's queue, questions and answers,
\* is at most one message per recv it gave up on, plus the one under way: where
\* no client registers there, the queue does not fill, and send does not block,
\* before that many misses.
LeftBehind(c) ==
    {e \in Queued : /\ MsgAt(e).who = c
                    /\ MsgAt(e).type \in {SEND_TO_SERVER, c}}
BacklogBounded ==
    \A c \in Clients :
        Cardinality(LeftBehind(c)) + (IF srv.pid = c THEN 1 ELSE 0)
            <= hist[c].misses + (IF clt[c].pc \in {"recving", "dead"} THEN 1 ELSE 0)

\* The server's list has no queue twice, and clt_amt counts it, up to the
\* limit, through registrations, repeated registrations, removals in the
\* middle of a broadcast and restarts.
ListSound ==
    /\ srv.amt = Len(srv.list)
    /\ srv.amt <= MaxClient
    /\ Cardinality(ToSet(srv.list)) = Len(srv.list)

\* A client that holds the pid of the running server, and whose private
\* queue exists, is on that server's list: an event that has room on that queue
\* reaches it.  (One that has none is lost, and the client stays on the list.)
RegisteredIsListed ==
    \A c \in Clients :
        (/\ ~SrvAt("down") /\ clt[c].pc # "dead"
         /\ clt[c].pid = me /\ Exists(clt[c].eid))
            => clt[c].eid \in ToSet(srv.list)

\* The events on a private queue are in the order they were broadcast, none
\* twice, and newer than every event the client's handler has had.
EventsInOrder ==
    \A c \in Clients :
        (Exists(clt[c].eid) /\ clt[c].pc # "dead") =>
            Increasing(clt[c].eid, EventsOn(clt[c].eid), hist[c].handled)

\* A server that starts gets through init, although its queue may hold what
\* its predecessor and the clients left there, or comes to one of the two states
\* in which the loop of clear never ends: its queue has been removed, and len is
\* -1 for good, or the first message on it is one that send accepts and no
\* msgrcv takes, of more than 2032 bytes.
Spins ==
    \/ ~Exists(srv.qid)
    \/ mq[srv.qid] # <<>> /\ ~Receivable(Head(mq[srv.qid]))
InitTerminates == SrvAt("clear") ~> (~SrvAt("clear") \/ Spins)

\* Once servers stop being replaced, every client that runs is on the list of
\* the last one for good: the count of timeouts in monitor_event makes a
\* client notice a server that knows nothing of it.
Listed(c) == clt[c].eid \in ToSet(srv.list)
EventuallyListed ==
    <>[](\A c \in Clients : clt[c].pc = "dead" \/ Listed(c))

\* monitor_request returns within its time, also when it has a request.
MonitorReturns == SrvAt("respond") ~> ~SrvAt("respond")
=============================================================================
