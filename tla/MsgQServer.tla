----------------------------- MODULE MsgQServer -----------------------------
(***************************************************************************)
(* The server of linux/src/msgQ.c (msgQ_srv), driven by the loop of        *)
(* test_msgQ.c: recv a question and send its answer, monitor_request, and  *)
(* now and then send_event.  srv is its msgQ_srv and pc:                   *)
(*   down      no server process                                           *)
(*   clear     init empties the queue it found                             *)
(*   recv      in srv->recv          ack      in srv->send                 *)
(*   monreq    in monitor_request    respond  in its answer's msgsnd,      *)
(*                                            which blocks on a full queue *)
(*   event     before send_event     bcast    in its loop over the list    *)
(* A server process is known by its pid, me; a later process has another.  *)
(***************************************************************************)
EXTENDS MsgQCommon

CONSTANTS ReplyLens,    \* lengths of the answers
          EventLens,    \* lengths of the events
          MaxClient,    \* MESSAGE_QUEUE_MAX_CLIENT
          SrvPidBase,   \* server pids are SrvPidBase + 1, + 2, ...
          SrvDestroys,  \* the server may call destroy
          MaxStarts,    \* bound: server processes
          MaxEvents     \* bound: events broadcast

ASSUME ServerAssumption ==
    /\ ReplyLens \subseteq Nat /\ EventLens \subseteq Nat
    /\ MaxClient \in Nat /\ MaxEvents \in Nat
    /\ MaxStarts \in Nat \ {0}

VARIABLES me,     \* the server's own pid, 0 before the first
          cur,    \* the application's buffer: the question last received
          evt     \* events the application has sent so far

serverVars == <<srv, me, cur, evt>>

NoData == [who |-> 0, n |-> 0]

\* msgQ_srv_new: memset and the method table.
NewSrv == [pc |-> "down", qid |-> 0, pid |-> 0, list |-> <<>>, amt |-> 0,
           req |-> 0, todo |-> <<>>, len |-> 0]

ServerInit == srv = NewSrv /\ me = 0 /\ cur = NoData /\ evt = 0

SrvAt(pc) == srv.pc = pc
SrvGoto(pc) == srv' = [srv EXCEPT !.pc = pc]

\* The loop's halves, by flag.
Recv == IF AskFlag THEN "recv" ELSE "monreq"
AfterAsk == IF BcastFlag THEN "monreq" ELSE "recv"

-----------------------------------------------------------------------------
(* msgQ_srv_init and msgQ_srv_clear                                        *)

SrvStart ==
    /\ SrvAt("down")
    /\ me < SrvPidBase + MaxStarts
    /\ me' = IF me = 0 THEN SrvPidBase + 1 ELSE me + 1
    /\ \E q \in 1 .. MaxQid :
          GetQid(SrvName, KnownQids, q) /\ srv' = [NewSrv EXCEPT !.pc = "clear", !.qid = q]
    /\ cur' = NoData
    /\ UNCHANGED evt

\* server->len is 0: not when the queue is gone, where it is -1.
Cleared == Exists(srv.qid) /\ mq[srv.qid] = <<>>

\* One turn of the loop, for the messages of a type.  A turn that receives
\* nothing changes nothing: on a message that is too long, or a queue that is
\* gone, the loop spins.
ClearTurn(type) ==
    /\ SrvAt("clear")
    /\ ~Cleared
    /\ IF Gets(srv.qid, type) THEN MsgRcv(srv.qid, type) ELSE UNCHANGED kernelVars
    /\ UNCHANGED serverVars

\* Mutant of SrvClear: only questions are cleared.
SrvClearQuestions == ClearTurn(SEND_TO_SERVER)

SrvClear == ClearTurn(ANY_MESSAGE)

SrvClearDone ==
    /\ SrvAt("clear")
    /\ Cleared
    /\ srv' = [srv EXCEPT !.pc = Recv, !.pid = 0, !.list = <<>>]
    /\ UNCHANGED <<kernelVars, me, cur, evt>>

-----------------------------------------------------------------------------
(* msgQ_srv_recv and msgQ_srv_send                                         *)

SrvRecv ==
    /\ SrvAt("recv")
    /\ srv.pid = 0
    /\ Gets(srv.qid, SEND_TO_SERVER)
    /\ MsgRcv(srv.qid, SEND_TO_SERVER)
    /\ LET m == NextMsg(srv.qid, SEND_TO_SERVER)
       IN  /\ srv' = [srv EXCEPT !.pc = "ack", !.pid = m.xid]
           /\ cur' = [who |-> m.who, n |-> m.n]
    /\ UNCHANGED <<me, evt>>

\* The last question has no answer yet: success, with nothing received.
SrvRecvBusy ==
    /\ SrvAt("recv")
    /\ srv.pid # 0
    /\ SrvGoto("ack")
    /\ UNCHANGED <<kernelVars, me, cur, evt>>

SrvRecvMiss ==
    /\ SrvAt("recv")
    /\ srv.pid = 0
    /\ ~Gets(srv.qid, SEND_TO_SERVER)
    /\ SrvGoto(AfterAsk)
    /\ UNCHANGED <<kernelVars, me, cur, evt>>

\* Mutant of Answered: the destination is kept after the answer.
AnsweredKeepsPid(r) == r

\* server->pid = 0, before the answer is queued.
Answered(r) == [r EXCEPT !.pid = 0]

\* The answer is lost when the queue is full or gone.
SrvSend(len) ==
    /\ SrvAt("ack")
    /\ ValidLen(len)
    /\ srv' = [Answered(srv) EXCEPT !.pc = AfterAsk]
    /\ IF Room(srv.qid)
       THEN MsgSnd(srv.qid, Pkg(srv.pid, 0, len, cur.who, cur.n))
       ELSE UNCHANGED kernelVars
    /\ UNCHANGED <<me, cur, evt>>

SrvSendRefused(len) ==
    /\ SrvAt("ack")
    /\ ~ValidLen(len)
    /\ SrvGoto(AfterAsk)
    /\ UNCHANGED <<kernelVars, me, cur, evt>>

-----------------------------------------------------------------------------
(* msgQ_srv_monitorrequest, msgQ_srv_add, msgQ_srv_del                     *)

\* Mutant of Add: a client already on the list is added again.
AddAgain(r, q) == [r EXCEPT !.list = Append(@, q), !.amt = @ + 1]

\* A queue already on the list is not added again.
Add(r, q) ==
    IF q \in ToSet(r.list) THEN r
    ELSE [r EXCEPT !.list = Append(@, q), !.amt = @ + 1]

Del(r, q) == [r EXCEPT !.list = RemoveFirst(@, q), !.amt = @ - 1]

Full(r) == r.amt >= MaxClient

MonReqAdmit ==
    /\ SrvAt("monreq")
    /\ Gets(srv.qid, REG_TO_SERVER)
    /\ ~Full(srv)
    /\ MsgRcv(srv.qid, REG_TO_SERVER)
    /\ LET q == NextMsg(srv.qid, REG_TO_SERVER).xid
       IN  srv' = [Add(srv, q) EXCEPT !.pc = "respond", !.req = q]
    /\ UNCHANGED <<me, cur, evt>>

\* A full server drops the request, even one from a listed client.
MonReqFull ==
    /\ SrvAt("monreq")
    /\ Gets(srv.qid, REG_TO_SERVER)
    /\ Full(srv)
    /\ MsgRcv(srv.qid, REG_TO_SERVER)
    /\ SrvGoto("event")
    /\ UNCHANGED <<me, cur, evt>>

MonReqMiss ==
    /\ SrvAt("monreq")
    /\ ~Gets(srv.qid, REG_TO_SERVER)
    /\ SrvGoto("event")
    /\ UNCHANGED <<kernelVars, me, cur, evt>>

\* msgsnd without IPC_NOWAIT, on the client's private queue.
SrvRespond ==
    /\ SrvAt("respond")
    /\ Room(srv.req)
    /\ MsgSnd(srv.req, Pkg(REG_TO_SERVER, me, 0, me, 0))
    /\ srv' = [srv EXCEPT !.pc = "event", !.req = 0]
    /\ UNCHANGED <<me, cur, evt>>

SrvRespondGone ==
    /\ SrvAt("respond")
    /\ ~Exists(srv.req)
    /\ srv' = [Del(srv, srv.req) EXCEPT !.pc = "event", !.req = 0]
    /\ UNCHANGED <<kernelVars, me, cur, evt>>

-----------------------------------------------------------------------------
(* msgQ_srv_sendevent                                                      *)

SrvEventSkip ==
    /\ SrvAt("event")
    /\ SrvGoto(Recv)
    /\ UNCHANGED <<kernelVars, me, cur, evt>>

SrvEventStart(len) ==
    /\ SrvAt("event")
    /\ ValidLen(len)
    /\ evt < MaxEvents
    /\ evt' = evt + 1
    /\ srv' = [srv EXCEPT !.pc = "bcast", !.todo = srv.list, !.len = len]
    /\ UNCHANGED <<kernelVars, me, cur>>

\* Mutant of Undeliverable: a full queue costs its client the registration.
UndeliverableOrFull(q) == ~Room(q)

\* The errors other than EAGAIN: the client is removed from the list.
Undeliverable(q) == ~Exists(q)

\* One client: the event is queued, or lost on a full queue, or the client
\* is removed because its queue is gone.
SrvEventSend ==
    /\ SrvAt("bcast")
    /\ srv.todo # <<>>
    /\ LET q == Head(srv.todo)
           r == [srv EXCEPT !.todo = Tail(@)]
       IN  \/ /\ Room(q)
              /\ MsgSnd(q, Pkg(me, 0, srv.len, me, evt))
              /\ srv' = r
           \/ /\ ~Room(q)
              /\ srv' = IF Undeliverable(q) THEN Del(r, q) ELSE r
              /\ UNCHANGED kernelVars
    /\ UNCHANGED <<me, cur, evt>>

SrvEventEnd ==
    /\ SrvAt("bcast")
    /\ srv.todo = <<>>
    /\ srv' = [srv EXCEPT !.pc = Recv, !.len = 0]
    /\ UNCHANGED <<kernelVars, me, cur, evt>>

-----------------------------------------------------------------------------
\* msgQ_srv_destroy, and the end of the server's process.
SrvDestroy ==
    /\ SrvDestroys
    /\ SrvAt(Recv)
    /\ me < SrvPidBase + MaxStarts
    /\ RmId(srv.qid)
    /\ srv' = NewSrv
    /\ UNCHANGED <<me, cur, evt>>

\* The process is killed; its queue and its clients' queues stay.
SrvKilled ==
    /\ ~SrvAt("down")
    /\ me < SrvPidBase + MaxStarts
    /\ srv' = NewSrv
    /\ UNCHANGED <<kernelVars, me, cur, evt>>

ServerStep ==
    \/ SrvStart \/ SrvClear \/ SrvClearDone
    \/ SrvRecv \/ SrvRecvBusy \/ SrvRecvMiss
    \/ \E len \in ReplyLens : SrvSend(len) \/ SrvSendRefused(len)
    \/ MonReqAdmit \/ MonReqFull \/ MonReqMiss \/ SrvRespond \/ SrvRespondGone
    \/ SrvEventSkip \/ (\E len \in EventLens : SrvEventStart(len))
    \/ SrvEventSend \/ SrvEventEnd
=============================================================================
