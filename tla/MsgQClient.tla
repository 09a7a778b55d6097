----------------------------- MODULE MsgQClient -----------------------------
(***************************************************************************)
(* A client of linux/src/msgQ.c (msgQ_clt), driven by the loop of          *)
(* test_msgQ.c: with the broadcast flag it calls request_event and then    *)
(* monitor_event, with the ask flag it now and then calls send and recv.   *)
(* The loop polls (every call has a timeout), as the test does.            *)
(*                                                                         *)
(* A client is its pid.  clt[c] is its msgQ_clt, the static tout_cnt of    *)
(* its process, and pc, the call the process is in:                        *)
(*   off       before clt->init                                            *)
(*   top       the loop's broadcast half: about to call request_event      *)
(*   reg       request_event has its private queue, about to send          *)
(*   regwait   request_event polls its private queue for the answer        *)
(*   monitor   monitor_event polls its private queue                       *)
(*   ask       the loop's ask half                                         *)
(*   sending   in clt->send, which blocks while the queue is full          *)
(*   recving   clt->recv polls the server's queue                          *)
(*   dead      the process has ended                                       *)
(* hist[c] is history: what the process asked, got, missed and handled.    *)
(***************************************************************************)
EXTENDS MsgQCommon

CONSTANTS KeyOf,          \* [Clients -> Names]: key of the private queue
          AskLens,        \* lengths of the questions
          ToutLimit,      \* monitor_event gives up above this count
          Mortal,         \* clients that may be killed
          Destroyers,     \* clients that may call destroy
          MaxAsk          \* bound: questions per client

\* Lengths are size_t.
ASSUME ClientAssumption == AskLens \subseteq Nat /\ ToutLimit \in Nat /\ MaxAsk \in Nat

VARIABLE hist

clientVars == <<clt, hist>>

\* Where the loop starts, and where its broadcast half leads.
LoopTop == IF BcastFlag THEN "top" ELSE "ask"
AfterBcast == IF AskFlag THEN "ask" ELSE "top"

ClientInit ==
    /\ clt = [c \in Clients |->
                [pc |-> "off", srvQ |-> 0, pid |-> 0, eid |-> 0,
                 hand |-> FALSE, toutCnt |-> 0, len |-> 0]]
    /\ hist = [c \in Clients |->
                [asked |-> 0, got |-> 0, misses |-> 0, handled |-> 0]]

At(c, pc) == clt[c].pc = pc
Goto(c, pc) == clt' = [clt EXCEPT ![c].pc = pc]

\* msgQ_clt_new and msgQ_clt_init
CltInit(c) ==
    /\ At(c, "off")
    /\ \E q \in 1 .. MaxQid :
          /\ GetQid(SrvName, KnownQids, q)
          /\ clt' = [clt EXCEPT ![c].pc = LoopTop, ![c].srvQ = q]
    /\ UNCHANGED hist

-----------------------------------------------------------------------------
(* msgQ_clt_requestevent                                                   *)

\* A client that knows a server pid only changes its handler.
RequestKnown(c) ==
    /\ At(c, "top")
    /\ clt[c].pid # 0
    /\ clt' = [clt EXCEPT ![c].pc = "monitor", ![c].hand = TRUE]
    /\ UNCHANGED <<kernelVars, hist>>

RequestOpen(c) ==
    /\ At(c, "top")
    /\ clt[c].pid = 0
    /\ \E q \in 1 .. MaxQid :
          /\ GetQid(KeyOf[c], KnownQids, q)
          /\ clt' = [clt EXCEPT ![c].pc = "reg", ![c].eid = q]
    /\ UNCHANGED hist

\* The request carries the private queue's id; the send does not wait.
RequestSend(c) ==
    /\ At(c, "reg")
    /\ Room(clt[c].srvQ)
    /\ MsgSnd(clt[c].srvQ, Pkg(REG_TO_SERVER, clt[c].eid, 0, c, 0))
    /\ Goto(c, "regwait")
    /\ UNCHANGED hist

RequestRefused(c) ==
    /\ At(c, "reg")
    /\ ~Room(clt[c].srvQ)
    /\ RmId(clt[c].eid)
    /\ Goto(c, AfterBcast)
    /\ UNCHANGED hist

\* Mutant of ServerPid: the message type is taken for the pid.
ServerPidFromType(m) == m.type

\* client->pid = pkg.xid
ServerPid(m) == m.xid

\* Whatever message comes first on the private queue is the answer.
RequestAnswered(c) ==
    /\ At(c, "regwait")
    /\ Gets(clt[c].eid, ANY_MESSAGE)
    /\ MsgRcv(clt[c].eid, ANY_MESSAGE)
    /\ clt' = [clt EXCEPT ![c].pc = "monitor", ![c].hand = TRUE,
                          ![c].pid = ServerPid(NextMsg(clt[c].eid, ANY_MESSAGE))]
    /\ UNCHANGED hist

\* No answer within 3000 ms, or the private queue is gone or unreadable.
RequestTimeout(c) ==
    /\ At(c, "regwait")
    /\ ~Gets(clt[c].eid, ANY_MESSAGE)
    /\ RmId(clt[c].eid)
    /\ Goto(c, AfterBcast)
    /\ UNCHANGED hist

-----------------------------------------------------------------------------
(* msgQ_clt_monitorevent                                                   *)

\* The handler is called with the message's data, event or not (n = 0).
MonitorEvent(c) ==
    /\ At(c, "monitor")
    /\ Gets(clt[c].eid, ANY_MESSAGE)
    /\ MsgRcv(clt[c].eid, ANY_MESSAGE)
    /\ Goto(c, AfterBcast)
    /\ LET m == NextMsg(clt[c].eid, ANY_MESSAGE)
       IN  hist' = IF clt[c].hand /\ m.n > 0
                   THEN [hist EXCEPT ![c].handled = m.n] ELSE hist

\* Mutant of ForgetServer: the client keeps believing in its old server.
KeepServer(r) == r

ForgetServer(r) == [r EXCEPT !.pid = 0, !.hand = FALSE]

\* A timeout is looked at before the error: both are possible on an error.
MonitorTimeout(c) ==
    /\ At(c, "monitor")
    /\ ~Gets(clt[c].eid, ANY_MESSAGE)
    /\ LET r == [clt[c] EXCEPT !.pc = AfterBcast]
       IN  clt' = [clt EXCEPT ![c] =
                      IF r.toutCnt > ToutLimit
                      THEN [ForgetServer(r) EXCEPT !.toutCnt = 0]
                      ELSE [r EXCEPT !.toutCnt = @ + 1]]
    /\ UNCHANGED <<kernelVars, hist>>

MonitorError(c) ==
    /\ At(c, "monitor")
    /\ Fails(clt[c].eid, ANY_MESSAGE)
    /\ clt' = [clt EXCEPT ![c] = ForgetServer([@ EXCEPT !.pc = AfterBcast])]
    /\ UNCHANGED <<kernelVars, hist>>

-----------------------------------------------------------------------------
(* msgQ_clt_send and msgQ_clt_recv                                         *)

\* The test's ask_timer has not expired: back to the broadcast half.
AskLater(c) ==
    /\ At(c, "ask")
    /\ BcastFlag
    /\ Goto(c, "top")
    /\ UNCHANGED <<kernelVars, hist>>

SendCall(c) ==
    /\ At(c, "ask")
    /\ hist[c].asked < MaxAsk
    /\ \E len \in AskLens : clt' = [clt EXCEPT ![c].pc = "sending", ![c].len = len]
    /\ hist' = [hist EXCEPT ![c].asked = @ + 1]
    /\ UNCHANGED kernelVars

\* msgsnd without IPC_NOWAIT: enabled only when the queue has room.
SendOk(c) ==
    /\ At(c, "sending")
    /\ ValidLen(clt[c].len)
    /\ Room(clt[c].srvQ)
    /\ MsgSnd(clt[c].srvQ, Pkg(SEND_TO_SERVER, c, clt[c].len, c, hist[c].asked))
    /\ clt' = [clt EXCEPT ![c].pc = "recving", ![c].len = 0]
    /\ UNCHANGED hist

\* A refused length, or the queue is gone: the test goes on to recv.
SendError(c) ==
    /\ At(c, "sending")
    /\ ~ValidLen(clt[c].len) \/ ~Exists(clt[c].srvQ)
    /\ clt' = [clt EXCEPT ![c].pc = "recving", ![c].len = 0]
    /\ UNCHANGED <<kernelVars, hist>>

RecvOk(c) ==
    /\ At(c, "recving")
    /\ Gets(clt[c].srvQ, c)
    /\ MsgRcv(clt[c].srvQ, c)
    /\ Goto(c, LoopTop)
    /\ hist' = [hist EXCEPT ![c].got = NextMsg(clt[c].srvQ, c).n]

\* Timeout or error: no answer this time.
RecvMiss(c) ==
    /\ At(c, "recving")
    /\ ~Gets(clt[c].srvQ, c)
    /\ Goto(c, LoopTop)
    /\ hist' = [hist EXCEPT ![c].misses = @ + 1]
    /\ UNCHANGED kernelVars

-----------------------------------------------------------------------------
\* msgQ_clt_destroy removes the server's queue, not the private one.
CltDestroy(c) ==
    /\ At(c, LoopTop)
    /\ c \in Destroyers
    /\ RmId(clt[c].srvQ)
    /\ Goto(c, "dead")
    /\ UNCHANGED hist

\* The process is killed, wherever it is; its queues stay.
CltKilled(c) ==
    /\ c \in Mortal
    /\ ~At(c, "off") /\ ~At(c, "dead")
    /\ Goto(c, "dead")
    /\ UNCHANGED <<kernelVars, hist>>

\* The steps the process takes by itself, but for RequestTimeout.
ClientStep(c) ==
    \/ CltInit(c)
    \/ RequestKnown(c) \/ RequestOpen(c) \/ RequestSend(c) \/ RequestRefused(c)
    \/ RequestAnswered(c)
    \/ MonitorEvent(c) \/ MonitorTimeout(c) \/ MonitorError(c)
    \/ AskLater(c) \/ SendCall(c) \/ SendOk(c) \/ SendError(c)
    \/ RecvOk(c) \/ RecvMiss(c)
=============================================================================
