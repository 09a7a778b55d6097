----------------------------- MODULE MsgQProofs -----------------------------
(***************************************************************************)
(* Proofs about MsgQ: the server's list, the registrations, the order of   *)
(* the answers and of the events, and what clients leave behind, for any   *)
(* clients, keys and bounds.                                               *)
(***************************************************************************)
EXTENDS MsgQ, FiniteSetTheorems, SequenceTheorems, WellFoundedInduction, TLAPS

-----------------------------------------------------------------------------
(* Sequences *)

\* A set of numbers has a least element, and Min is it.
LEMMA LeastIsMin ==
    ASSUME NEW S \in SUBSET Nat, S # {}
    PROVE  Min(S) \in S /\ \A x \in S : Min(S) <= x
<1>1. \E m \in S : \A x \in S : ~ (<<x, m>> \in OpToRel(<, Nat))
    BY NatLessThanWellFounded, WFMin
<1>2. ASSUME NEW m \in S, NEW x \in S, ~ (<<x, m>> \in OpToRel(<, Nat))
      PROVE  m <= x
    BY <1>2 DEF OpToRel
<1>3. \E m \in S : \A x \in S : m <= x
    BY <1>1, <1>2
<1> QED
    BY <1>3 DEF Min

\* Without its i-th element a sequence is shorter, and otherwise the same.
LEMMA Removed ==
    ASSUME NEW S, NEW s \in Seq(S), NEW i \in 1 .. Len(s)
    PROVE  /\ RemoveAt(s, i) \in Seq(S)
           /\ Len(RemoveAt(s, i)) = Len(s) - 1
           /\ \A j \in 1 .. Len(s) - 1 :
                 RemoveAt(s, i)[j] = IF j < i THEN s[j] ELSE s[j + 1]
<1> DEFINE a == SubSeq(s, 1, i - 1)
           b == SubSeq(s, i + 1, Len(s))
<1>1. Len(s) \in Nat /\ \A j \in 1 .. Len(s) : s[j] \in S
    BY LenProperties, ElementOfSeq
<1>2. /\ a \in Seq(S) /\ Len(a) = i - 1
      /\ \A j \in 1 .. i - 1 : a[j] = s[j]
    BY <1>1, SubSeqProperties
<1>3. /\ b \in Seq(S) /\ Len(b) = Len(s) - i
      /\ \A j \in 1 .. Len(s) - i : b[j] = s[i + j]
    BY <1>1, SubSeqProperties
<1> HIDE DEF a, b
<1>4. /\ a \o b \in Seq(S)
      /\ Len(a \o b) = Len(a) + Len(b)
      /\ \A j \in 1 .. Len(a) + Len(b) :
            (a \o b)[j] = IF j <= Len(a) THEN a[j] ELSE b[j - Len(a)]
    BY <1>2, <1>3, ConcatProperties
<1>5. Len(a) + Len(b) = Len(s) - 1 /\ Len(a) = i - 1 /\ Len(b) = Len(s) - i /\ i \in 1 .. Len(s)
    BY <1>1, <1>2, <1>3
<1>6. ASSUME NEW j \in 1 .. Len(s) - 1
      PROVE  (a \o b)[j] = IF j < i THEN s[j] ELSE s[j + 1]
    <2>1. (a \o b)[j] = IF j <= i - 1 THEN a[j] ELSE b[j - (i - 1)]
        BY <1>4, <1>5
    <2>2. CASE j < i
        BY <1>1, <1>2, <2>1, <2>2
    <2>3. CASE ~(j < i)
        <3>1. j - (i - 1) \in 1 .. Len(s) - i /\ i + (j - (i - 1)) = j + 1
            BY <1>1, <2>3
        <3>2. b[j - (i - 1)] = s[j + 1]
            BY <1>3, <3>1
        <3> QED
            BY <1>1, <2>1, <2>3, <3>2
    <2> QED
        BY <2>2, <2>3
<1> QED
    BY <1>4, <1>5, <1>6 DEF RemoveAt, a, b

\* Of a queue on the list, RemoveFirst takes the first entry.
LEMMA RemovedFirst ==
    ASSUME NEW S, NEW s \in Seq(S), NEW e
    PROVE  /\ RemoveFirst(s, e) \in Seq(S)
           /\ e \in ToSet(s) =>
                 \E i \in 1 .. Len(s) : s[i] = e /\ RemoveFirst(s, e) = RemoveAt(s, i)
<1> DEFINE I == {i \in 1 .. Len(s) : s[i] = e}
<1>1. Len(s) \in Nat /\ DOMAIN s = 1 .. Len(s)
    BY LenProperties
<1>2. CASE I = {}
    <2>1. RemoveFirst(s, e) = s
        BY <1>2 DEF RemoveFirst
    <2> QED
        BY <1>1, <1>2, <2>1 DEF ToSet
<1>3. CASE I # {}
    <2>1. I \in SUBSET Nat
        BY <1>1
    <2>2. Min(I) \in I
        BY <1>3, <2>1, LeastIsMin
    <2>3. RemoveFirst(s, e) = RemoveAt(s, Min(I))
        BY <1>3 DEF RemoveFirst, SelectInSeq
    <2>4. Min(I) \in 1 .. Len(s) /\ s[Min(I)] = e
        BY <2>2
    <2> HIDE DEF I
    <2> QED
        BY <2>3, <2>4, Removed
<1> QED
    BY <1>2, <1>3

-----------------------------------------------------------------------------
(* The kernel's queues *)

Package == [type : Nat, xid : Nat, len : Nat, who : Nat, n : Nat]

\* The queues hold packages, no more than they have room for, and every key
\* has a queue or none.
KernelType ==
    /\ mq \in [DOMAIN mq -> Seq(Package)]
    /\ DOMAIN mq \subseteq 1 .. MaxQid
    /\ \A q \in DOMAIN mq : Len(mq[q]) <= Cap
    /\ bound \in [Names -> {0} \cup DOMAIN mq]

\* msgrcv takes the first message of its type.
LEMMA FirstOfType ==
    ASSUME KernelType, NEW q \in DOMAIN mq, NEW type, First(q, type) # 0
    PROVE  /\ First(q, type) \in 1 .. Len(mq[q])
           /\ type = ANY_MESSAGE \/ NextMsg(q, type).type = type
           /\ \A i \in 1 .. First(q, type) - 1 :
                 type # ANY_MESSAGE /\ mq[q][i].type # type
<1> DEFINE I == {i \in 1 .. Len(mq[q]) : type = ANY_MESSAGE \/ mq[q][i].type = type}
<1>1. mq[q] \in Seq(Package) /\ Len(mq[q]) \in Nat
    BY LenProperties DEF KernelType
<1>2. First(q, type) = IF I # {} THEN Min(I) ELSE 0
    BY DEF First, SelectInSeq
<1>3. I # {} /\ I \in SUBSET Nat
    BY <1>1, <1>2
<1>4. First(q, type) \in I /\ \A x \in I : First(q, type) <= x
    BY <1>2, <1>3, LeastIsMin
<1>5. ASSUME NEW i \in 1 .. First(q, type) - 1
      PROVE  i \notin I
    BY <1>1, <1>4, <1>5
<1> QED
    BY <1>1, <1>4, <1>5 DEF NextMsg

\* msgsnd puts one package at the end of one queue.
LEMMA Sent ==
    ASSUME KernelType, NEW q \in DOMAIN mq, NEW m \in Package, Room(q), MsgSnd(q, m)
    PROVE  /\ KernelType'
           /\ bound' = bound /\ DOMAIN mq' = DOMAIN mq
           /\ \A x \in DOMAIN mq : x # q => mq'[x] = mq[x]
           /\ Len(mq[q]) \in Nat /\ Len(mq'[q]) = Len(mq[q]) + 1
           /\ \A i \in 1 .. Len(mq[q]) : mq'[q][i] = mq[q][i]
           /\ mq'[q][Len(mq[q]) + 1] = m
<1>1. mq[q] \in Seq(Package) /\ Len(mq[q]) \in Nat
    BY LenProperties DEF KernelType
<1>2. bound' = bound /\ mq' = [mq EXCEPT ![q] = Append(mq[q], m)]
    BY DEF MsgSnd
<1>3. /\ Append(mq[q], m) \in Seq(Package)
      /\ Len(Append(mq[q], m)) = Len(mq[q]) + 1
      /\ \A i \in 1 .. Len(mq[q]) : Append(mq[q], m)[i] = mq[q][i]
      /\ Append(mq[q], m)[Len(mq[q]) + 1] = m
    BY <1>1, AppendProperties
<1>4. /\ DOMAIN mq' = DOMAIN mq /\ mq'[q] = Append(mq[q], m)
      /\ \A x \in DOMAIN mq : x # q => mq'[x] = mq[x]
    BY <1>2
<1>5. mq' \in [DOMAIN mq' -> Seq(Package)]
    BY <1>2, <1>3 DEF KernelType
<1>6. \A x \in DOMAIN mq' : Len(mq'[x]) <= Cap
    BY <1>1, <1>3, <1>4, KernelAssumption DEF KernelType, Room
<1> QED
    BY <1>1, <1>2, <1>3, <1>4, <1>5, <1>6 DEF KernelType

\* Where a package of queue x, now at place j, was before msgrcv took the one
\* at place f of queue q.
Before(q, f, x, j) == IF x = q /\ j >= f THEN j + 1 ELSE j

\* msgrcv takes the first package of its type, and leaves the order of the rest.
LEMMA Received ==
    ASSUME KernelType, NEW q, NEW type, Gets(q, type), MsgRcv(q, type)
    PROVE  /\ KernelType'
           /\ bound' = bound /\ DOMAIN mq' = DOMAIN mq /\ q \in DOMAIN mq
           /\ First(q, type) \in 1 .. Len(mq[q])
           /\ NextMsg(q, type) = mq[q][First(q, type)] /\ NextMsg(q, type) \in Package
           /\ \A x \in DOMAIN mq : /\ Len(mq[x]) \in Nat
                                   /\ Len(mq'[x]) = IF x = q THEN Len(mq[x]) - 1 ELSE Len(mq[x])
           /\ \A x \in DOMAIN mq : \A j \in 1 .. Len(mq'[x]) :
                 /\ Before(q, First(q, type), x, j) \in 1 .. Len(mq[x])
                 /\ mq'[x][j] = mq[x][Before(q, First(q, type), x, j)]
<1> DEFINE f == First(q, type)
<1>1. q \in DOMAIN mq /\ f # 0
    BY DEF Gets, Exists
<1>2. \A x \in DOMAIN mq : mq[x] \in Seq(Package) /\ Len(mq[x]) \in Nat
    BY LenProperties DEF KernelType
<1>3. f \in 1 .. Len(mq[q])
    BY <1>1, FirstOfType
<1>4. NextMsg(q, type) = mq[q][f] /\ mq[q][f] \in Package
    BY <1>1, <1>2, <1>3, ElementOfSeq DEF NextMsg
<1>5. bound' = bound /\ mq' = [mq EXCEPT ![q] = RemoveAt(mq[q], f)]
    BY DEF MsgRcv
<1> HIDE DEF f
<1>6. /\ RemoveAt(mq[q], f) \in Seq(Package)
      /\ Len(RemoveAt(mq[q], f)) = Len(mq[q]) - 1
      /\ \A j \in 1 .. Len(mq[q]) - 1 :
            RemoveAt(mq[q], f)[j] = IF j < f THEN mq[q][j] ELSE mq[q][j + 1]
    BY <1>1, <1>2, <1>3, Removed
<1>7. /\ DOMAIN mq' = DOMAIN mq /\ mq'[q] = RemoveAt(mq[q], f)
      /\ \A x \in DOMAIN mq : x # q => mq'[x] = mq[x]
    BY <1>1, <1>5
<1>8. mq' \in [DOMAIN mq' -> Seq(Package)]
    BY <1>1, <1>5, <1>6 DEF KernelType
<1>9. \A x \in DOMAIN mq : Len(mq'[x]) = IF x = q THEN Len(mq[x]) - 1 ELSE Len(mq[x])
    BY <1>6, <1>7
<1>10. \A x \in DOMAIN mq' : Len(mq'[x]) <= Cap
    BY <1>2, <1>7, <1>9, KernelAssumption DEF KernelType
<1>11. ASSUME NEW x \in DOMAIN mq, NEW j \in 1 .. Len(mq'[x])
       PROVE  /\ Before(q, f, x, j) \in 1 .. Len(mq[x])
              /\ mq'[x][j] = mq[x][Before(q, f, x, j)]
    <2>1. CASE x = q
        BY <1>2, <1>3, <1>6, <1>7, <2>1 DEF Before
    <2>2. CASE x # q
        BY <1>2, <1>7, <2>2 DEF Before
    <2> QED
        BY <2>1, <2>2
<1>12. KernelType'
    BY <1>5, <1>7, <1>8, <1>10 DEF KernelType
<1>13. /\ \A x \in DOMAIN mq : /\ Len(mq[x]) \in Nat
                               /\ Len(mq'[x]) = IF x = q THEN Len(mq[x]) - 1 ELSE Len(mq[x])
       /\ \A x \in DOMAIN mq : \A j \in 1 .. Len(mq'[x]) :
             /\ Before(q, f, x, j) \in 1 .. Len(mq[x])
             /\ mq'[x][j] = mq[x][Before(q, f, x, j)]
    BY <1>2, <1>9, <1>11
<1>14. bound' = bound /\ DOMAIN mq' = DOMAIN mq
    BY <1>5, <1>7
<1> QED
    BY <1>1, <1>3, <1>4, <1>12, <1>13, <1>14 DEF f

\* msgctl(IPC_RMID) removes one queue and its key.
LEMMA QueueRemoved ==
    ASSUME KernelType, NEW q, RmId(q)
    PROVE  /\ KernelType'
           /\ DOMAIN mq' = DOMAIN mq \ {q}
           /\ \A x \in DOMAIN mq' : mq'[x] = mq[x]
           /\ \A k \in Names : bound'[k] = IF bound[k] = q THEN 0 ELSE bound[k]
BY DEF KernelType, RmId

\* Queue q, which is empty, is created for a name.
Created(name, known, q) ==
    /\ bound[name] = 0 /\ q \notin known /\ q \notin DOMAIN mq
    /\ DOMAIN mq' = DOMAIN mq \cup {q} /\ mq'[q] = <<>>
    /\ \A x \in DOMAIN mq : mq'[x] = mq[x]
    /\ bound'[name] = q
    /\ \A k \in Names : k # name => bound'[k] = bound[k]

\* msgQ_get_qid finds the queue of its key, or creates one nobody knows.
LEMMA QueueFound ==
    ASSUME KernelType, NEW name \in Names, NEW known, NEW q \in 1 .. MaxQid,
           GetQid(name, known, q)
    PROVE  /\ KernelType'
           /\ \/ UNCHANGED kernelVars /\ q = bound[name] /\ q \in DOMAIN mq
              \/ Created(name, known, q)
<1>1. CASE /\ bound[name] # 0 /\ q = bound[name] /\ UNCHANGED kernelVars
    BY <1>1 DEF KernelType, kernelVars
<1>2. CASE /\ bound[name] = 0
           /\ q \notin known \cup DOMAIN mq
           /\ bound' = [bound EXCEPT ![name] = q]
           /\ mq' = [x \in DOMAIN mq \cup {q} |-> IF x = q THEN <<>> ELSE mq[x]]
    <2>1. /\ DOMAIN mq' = DOMAIN mq \cup {q} /\ mq'[q] = <<>> /\ q \notin DOMAIN mq
          /\ \A x \in DOMAIN mq : mq'[x] = mq[x]
        BY <1>2
    <2>2. <<>> \in Seq(Package) /\ Len(<<>>) = 0
        BY EmptySeq
    <2>3. mq' \in [DOMAIN mq' -> Seq(Package)]
        BY <1>2, <2>1, <2>2 DEF KernelType
    <2>4. \A x \in DOMAIN mq' : Len(mq'[x]) <= Cap
        BY <2>1, <2>2, KernelAssumption DEF KernelType
    <2>5. /\ bound' \in [Names -> {0} \cup DOMAIN mq'] /\ bound'[name] = q
          /\ \A k \in Names : k # name => bound'[k] = bound[k]
        BY <1>2, <2>1 DEF KernelType
    <2>6. DOMAIN mq' \subseteq 1 .. MaxQid
        BY <2>1 DEF KernelType
    <2> QED
        BY <1>2, <2>1, <2>3, <2>4, <2>5, <2>6 DEF KernelType, Created
<1> QED
    BY <1>1, <1>2 DEF GetQid

-----------------------------------------------------------------------------
(* Types *)

ClientRecord == [pc : ClientPcs, srvQ : 0 .. MaxQid, pid : Nat, eid : 0 .. MaxQid,
                 hand : BOOLEAN, toutCnt : Nat, len : Nat]
History == [asked : Nat, got : Nat, misses : Nat, handled : Nat]
ServerRecord == [pc : ServerPcs, qid : 0 .. MaxQid, pid : Nat, list : Seq(Nat),
                 amt : Int, req : Nat, todo : Seq(Nat), len : Nat]

ClientType == clt \in [Clients -> ClientRecord] /\ hist \in [Clients -> History]
ServerType == /\ srv \in ServerRecord
              /\ me \in Nat /\ evt \in Nat
              /\ cur \in [who : Nat, n : Nat]
TypeInv == KernelType /\ ClientType /\ ServerType

LEMMA ClientNats == Clients \subseteq Nat /\ SrvPidBase \in Nat /\ SrvName \in Names
                    /\ \A c \in Clients : KeyOf[c] \in Names /\ KeyOf[c] # SrvName
BY PidsAssumption, FlagsAssumption, KeysAssumption

LEMMA ClientStepTypes ==
    ASSUME TypeInv, NEW c \in Clients, ClientTurn(c)
    PROVE  KernelType' /\ ClientType'
<1> USE DEF TypeInv, ClientType, At, Goto
<1>0. /\ clt[c] \in ClientRecord /\ hist[c] \in History /\ c \in Nat /\ MaxQid \in Nat
      /\ LoopTop \in ClientPcs /\ AfterBcast \in ClientPcs
    BY ClientNats, KernelAssumption DEF LoopTop, AfterBcast, ClientPcs
<1>1. CASE CltInit(c)
    <2>1. PICK q \in 1 .. MaxQid :
             /\ GetQid(SrvName, KnownQids, q)
             /\ clt' = [clt EXCEPT ![c].pc = LoopTop, ![c].srvQ = q]
        BY <1>1 DEF CltInit
    <2>2. KernelType'
        BY <2>1, QueueFound, ClientNats
    <2>3. q \in 0 .. MaxQid
        BY <1>0
    <2>4. [clt[c] EXCEPT !.pc = LoopTop, !.srvQ = q] \in ClientRecord
        BY <1>0, <2>3 DEF ClientRecord
    <2>5. clt' \in [Clients -> ClientRecord]
        BY <1>0, <2>1, <2>4
    <2> QED
        BY <1>1, <2>2, <2>5 DEF CltInit
<1>2. CASE RequestKnown(c)
    BY <1>0, <1>2 DEF RequestKnown, ClientRecord, ClientPcs, KernelType, kernelVars
<1>3. CASE RequestOpen(c)
    <2>1. PICK q \in 1 .. MaxQid :
             /\ GetQid(KeyOf[c], KnownQids, q)
             /\ clt' = [clt EXCEPT ![c].pc = "reg", ![c].eid = q]
        BY <1>3 DEF RequestOpen
    <2>2. KernelType'
        BY <2>1, QueueFound, ClientNats
    <2>3. q \in 0 .. MaxQid
        BY <1>0
    <2>4. [clt[c] EXCEPT !.pc = "reg", !.eid = q] \in ClientRecord
        BY <1>0, <2>3 DEF ClientRecord, ClientPcs
    <2>5. clt' \in [Clients -> ClientRecord]
        BY <1>0, <2>1, <2>4
    <2> QED
        BY <1>3, <2>2, <2>5 DEF RequestOpen
<1>4. CASE RequestSend(c)
    <2>1. Pkg(REG_TO_SERVER, clt[c].eid, 0, c, 0) \in Package /\ clt[c].srvQ \in DOMAIN mq
        BY <1>0, <1>4 DEF RequestSend, Room, Exists, Pkg, Package, ClientRecord, REG_TO_SERVER
    <2>2. KernelType'
        BY <1>4, <2>1, Sent DEF RequestSend
    <2> QED
        BY <1>0, <1>4, <2>2 DEF RequestSend, ClientRecord, ClientPcs
<1>5. CASE RequestRefused(c)
    BY <1>0, <1>5, QueueRemoved DEF RequestRefused, ClientRecord, ClientPcs
<1>6. CASE RequestAnswered(c)
    <2>1. KernelType' /\ NextMsg(clt[c].eid, ANY_MESSAGE) \in Package
        BY <1>6, Received DEF RequestAnswered
    <2> QED
        BY <1>0, <1>6, <2>1 DEF RequestAnswered, ServerPid, ClientRecord, ClientPcs, Package
<1>7. CASE RequestTimeout(c)
    BY <1>0, <1>7, QueueRemoved DEF RequestTimeout, ClientRecord, ClientPcs
<1>8. CASE MonitorEvent(c)
    <2>1. KernelType' /\ NextMsg(clt[c].eid, ANY_MESSAGE) \in Package
        BY <1>8, Received DEF MonitorEvent
    <2>2. hist' \in [Clients -> History]
        BY <1>0, <1>8, <2>1 DEF MonitorEvent, History, Package
    <2> QED
        BY <1>0, <1>8, <2>1, <2>2 DEF MonitorEvent, ClientRecord, ClientPcs
<1>9. CASE MonitorTimeout(c)
    <2> DEFINE r == [clt[c] EXCEPT !.pc = AfterBcast]
               forgot == [ForgetServer(r) EXCEPT !.toutCnt = 0]
               counted == [r EXCEPT !.toutCnt = @ + 1]
    <2>1. r \in ClientRecord
        BY <1>0 DEF ClientRecord
    <2> HIDE DEF r
    <2>4. forgot \in ClientRecord
        BY <2>1 DEF ForgetServer, ClientRecord
    <2>5. counted \in ClientRecord
        BY <2>1 DEF ClientRecord
    <2>2. clt' = [clt EXCEPT ![c] = IF r.toutCnt > ToutLimit THEN forgot ELSE counted]
        BY <1>9 DEF MonitorTimeout, r
    <2> HIDE DEF forgot, counted
    <2>3. clt' \in [Clients -> ClientRecord]
        BY <2>2, <2>4, <2>5
    <2> QED
        BY <1>9, <2>3 DEF MonitorTimeout, KernelType, kernelVars
<1>10. CASE MonitorError(c)
    <2>1. clt' \in [Clients -> ClientRecord]
        BY <1>0, <1>10 DEF MonitorError, ForgetServer, ClientRecord, ClientPcs
    <2> QED
        BY <1>10, <2>1 DEF MonitorError, KernelType, kernelVars
<1>11. CASE AskLater(c)
    BY <1>0, <1>11 DEF AskLater, ClientRecord, ClientPcs, KernelType, kernelVars
<1>12. CASE SendCall(c)
    <2>1. PICK len \in Nat : clt' = [clt EXCEPT ![c].pc = "sending", ![c].len = len]
        BY <1>12, ClientAssumption DEF SendCall
    <2>2. clt' \in [Clients -> ClientRecord]
        BY <1>0, <2>1 DEF ClientRecord, ClientPcs
    <2>3. hist' \in [Clients -> History]
        BY <1>0, <1>12 DEF SendCall, History
    <2> QED
        BY <1>12, <2>2, <2>3 DEF SendCall, KernelType, kernelVars
<1>13. CASE SendOk(c)
    <2>1. /\ Pkg(SEND_TO_SERVER, c, clt[c].len, c, hist[c].asked) \in Package
          /\ clt[c].srvQ \in DOMAIN mq
        BY <1>0, <1>13
        DEF SendOk, Room, Exists, Pkg, Package, ClientRecord, History, SEND_TO_SERVER
    <2>2. KernelType'
        BY <1>13, <2>1, Sent DEF SendOk
    <2> QED
        BY <1>0, <1>13, <2>2 DEF SendOk, ClientRecord, ClientPcs
<1>14. CASE SendError(c)
    BY <1>0, <1>14 DEF SendError, ClientRecord, ClientPcs, KernelType, kernelVars
<1>15. CASE RecvOk(c)
    <2>1. KernelType' /\ NextMsg(clt[c].srvQ, c) \in Package
        BY <1>15, Received DEF RecvOk
    <2> QED
        BY <1>0, <1>15, <2>1 DEF RecvOk, ClientRecord, ClientPcs, History, Package
<1>16. CASE RecvMiss(c)
    <2>1. clt' \in [Clients -> ClientRecord]
        BY <1>0, <1>16 DEF RecvMiss, ClientRecord
    <2>2. hist' \in [Clients -> History]
        BY <1>0, <1>16 DEF RecvMiss, History
    <2> QED
        BY <1>16, <2>1, <2>2 DEF RecvMiss, KernelType, kernelVars
<1> QED
    BY <1>1, <1>2, <1>3, <1>4, <1>5, <1>6, <1>7, <1>8, <1>9, <1>10, <1>11, <1>12,
       <1>13, <1>14, <1>15, <1>16 DEF ClientTurn, ClientStep

LEMMA ClientEndTypes ==
    ASSUME TypeInv, NEW c \in Clients, CltDestroy(c) \/ CltKilled(c)
    PROVE  KernelType' /\ ClientType'
<1> USE DEF TypeInv, ClientType, At, Goto
<1>0. clt[c] \in ClientRecord
    OBVIOUS
<1>1. CASE CltDestroy(c)
    BY <1>0, <1>1, QueueRemoved DEF CltDestroy, ClientRecord, ClientPcs
<1>2. CASE CltKilled(c)
    BY <1>0, <1>2 DEF CltKilled, ClientRecord, ClientPcs, KernelType, kernelVars
<1> QED
    BY <1>1, <1>2

\* What add and del make of the list.
LEMMA ListTypes ==
    ASSUME NEW r \in ServerRecord, NEW q \in Nat
    PROVE  Add(r, q) \in ServerRecord /\ Del(r, q) \in ServerRecord
<1>1. Append(r.list, q) \in Seq(Nat) /\ RemoveFirst(r.list, q) \in Seq(Nat)
    BY AppendProperties, RemovedFirst DEF ServerRecord
<1>2. ASSUME NEW s \in Seq(Nat), NEW n \in Int
      PROVE  [r EXCEPT !.list = s, !.amt = n] \in ServerRecord
    BY DEF ServerRecord
<1>3. r.amt + 1 \in Int /\ r.amt - 1 \in Int
    BY DEF ServerRecord
<1> DEFINE added == [r EXCEPT !.list = Append(r.list, q), !.amt = r.amt + 1]
           removed == [r EXCEPT !.list = RemoveFirst(r.list, q), !.amt = r.amt - 1]
<1>4. added \in ServerRecord /\ removed \in ServerRecord
    BY <1>1, <1>2, <1>3
<1>5. Add(r, q) = IF q \in ToSet(r.list) THEN r ELSE added
    BY DEF Add, ServerRecord
<1>6. Del(r, q) = removed
    BY DEF Del, ServerRecord
<1> HIDE DEF added, removed
<1>7. Add(r, q) \in ServerRecord
    BY <1>4, <1>5
<1>8. Del(r, q) \in ServerRecord
    BY <1>4, <1>6
<1> QED
    BY <1>7, <1>8

LEMMA ServerStepTypes ==
    ASSUME TypeInv, ServerStep \/ SrvDestroy \/ SrvKilled
    PROVE  KernelType' /\ ServerType'
<1> USE DEF TypeInv, ServerType, SrvAt, SrvGoto
<1>0. /\ srv \in ServerRecord /\ MaxQid \in Nat /\ SrvPidBase \in Nat
      /\ SEND_TO_SERVER \in Nat /\ REG_TO_SERVER \in Nat
      /\ Recv \in ServerPcs /\ AfterAsk \in ServerPcs
    BY ClientNats, KernelAssumption DEF Recv, AfterAsk, ServerPcs, SEND_TO_SERVER, REG_TO_SERVER
<1>1. NewSrv \in ServerRecord
    BY <1>0, EmptySeq DEF NewSrv, ServerRecord, ServerPcs
<1>2. ASSUME UNCHANGED kernelVars
      PROVE  KernelType'
    BY <1>2 DEF KernelType, kernelVars
<1>3. CASE SrvStart
    <2>1. PICK q \in 1 .. MaxQid :
             GetQid(SrvName, KnownQids, q) /\ srv' = [NewSrv EXCEPT !.pc = "clear", !.qid = q]
        BY <1>3 DEF SrvStart
    <2>2. KernelType'
        BY <2>1, QueueFound, ClientNats
    <2>3. q \in 0 .. MaxQid
        BY <1>0
    <2>4. srv' \in ServerRecord
        BY <1>1, <2>1, <2>3 DEF ServerRecord, ServerPcs
    <2> QED
        BY <1>0, <1>3, <2>2, <2>4 DEF SrvStart, NoData
<1>4. CASE SrvClear
    <2>1. CASE Gets(srv.qid, ANY_MESSAGE)
        BY <1>4, <2>1, Received DEF SrvClear, ClearTurn, serverVars
    <2>2. CASE ~Gets(srv.qid, ANY_MESSAGE)
        BY <1>2, <1>4, <2>2 DEF SrvClear, ClearTurn, serverVars
    <2> QED
        BY <2>1, <2>2
<1>5. CASE SrvClearDone
    <2>1. srv' \in ServerRecord
        BY <1>0, <1>5, EmptySeq DEF SrvClearDone, ServerRecord
    <2> QED
        BY <1>2, <1>5, <2>1 DEF SrvClearDone
<1>6. CASE SrvRecv
    <2>1. KernelType' /\ NextMsg(srv.qid, SEND_TO_SERVER) \in Package
        BY <1>6, Received DEF SrvRecv
    <2> QED
        BY <1>0, <1>6, <2>1 DEF SrvRecv, ServerRecord, ServerPcs, Package
<1>7. CASE SrvRecvBusy \/ SrvRecvMiss
    <2>1. srv' \in ServerRecord
        BY <1>0, <1>7 DEF SrvRecvBusy, SrvRecvMiss, ServerRecord, ServerPcs
    <2> QED
        BY <1>2, <1>7, <2>1 DEF SrvRecvBusy, SrvRecvMiss
<1>8. ASSUME NEW len \in ReplyLens, SrvSend(len)
      PROVE  KernelType' /\ ServerType'
    <2>1. srv' \in ServerRecord
        BY <1>0, <1>8 DEF SrvSend, Answered, ServerRecord
    <2>2. CASE Room(srv.qid)
        <3>1. Pkg(srv.pid, 0, len, cur.who, cur.n) \in Package /\ srv.qid \in DOMAIN mq
            BY <1>0, <2>2, ServerAssumption DEF Pkg, Package, Room, Exists, ServerRecord
        <3> QED
            BY <1>8, <2>1, <2>2, <3>1, Sent DEF SrvSend
    <2>3. CASE ~Room(srv.qid)
        BY <1>2, <1>8, <2>1, <2>3 DEF SrvSend
    <2> QED
        BY <2>2, <2>3
<1>9. ASSUME NEW len \in ReplyLens, SrvSendRefused(len)
      PROVE  KernelType' /\ ServerType'
    BY <1>0, <1>2, <1>9 DEF SrvSendRefused, ServerRecord
<1>10. CASE MonReqAdmit
    <2> DEFINE q == NextMsg(srv.qid, REG_TO_SERVER).xid
    <2>1. KernelType' /\ NextMsg(srv.qid, REG_TO_SERVER) \in Package
        BY <1>10, Received DEF MonReqAdmit
    <2>2. q \in Nat
        BY <2>1 DEF Package
    <2>3. srv' = [Add(srv, q) EXCEPT !.pc = "respond", !.req = q]
        BY <1>10 DEF MonReqAdmit
    <2> HIDE DEF q
    <2>4. Add(srv, q) \in ServerRecord
        BY <1>0, <2>2, ListTypes
    <2>5. srv' \in ServerRecord
        BY <2>2, <2>3, <2>4 DEF ServerRecord, ServerPcs
    <2> QED
        BY <1>10, <2>1, <2>5 DEF MonReqAdmit
<1>11. CASE MonReqFull
    <2>1. KernelType'
        BY <1>11, Received DEF MonReqFull
    <2> QED
        BY <1>0, <1>11, <2>1 DEF MonReqFull, ServerRecord, ServerPcs
<1>12. CASE MonReqMiss \/ SrvEventSkip
    <2>1. srv' \in ServerRecord
        BY <1>0, <1>12 DEF MonReqMiss, SrvEventSkip, ServerRecord, ServerPcs
    <2> QED
        BY <1>2, <1>12, <2>1 DEF MonReqMiss, SrvEventSkip
<1>13. CASE SrvRespond
    <2>1. Pkg(REG_TO_SERVER, me, 0, me, 0) \in Package /\ srv.req \in DOMAIN mq
        BY <1>0, <1>13 DEF SrvRespond, Pkg, Package, Room, Exists
    <2>2. KernelType'
        BY <1>13, <2>1, Sent DEF SrvRespond
    <2> QED
        BY <1>0, <1>13, <2>2 DEF SrvRespond, ServerRecord, ServerPcs
<1>14. CASE SrvRespondGone
    <2>1. Del(srv, srv.req) \in ServerRecord
        BY <1>0, ListTypes DEF ServerRecord
    <2>2. srv' \in ServerRecord
        BY <1>14, <2>1 DEF SrvRespondGone, ServerRecord, ServerPcs
    <2> QED
        BY <1>2, <1>14, <2>2 DEF SrvRespondGone
<1>15. ASSUME NEW len \in EventLens, SrvEventStart(len)
       PROVE  KernelType' /\ ServerType'
    <2>1. srv' \in ServerRecord
        BY <1>0, <1>15, ServerAssumption DEF SrvEventStart, ServerRecord, ServerPcs
    <2> QED
        BY <1>2, <1>15, <2>1 DEF SrvEventStart
<1>16. CASE SrvEventSend
    <2> DEFINE q == Head(srv.todo)
               r == [srv EXCEPT !.todo = Tail(@)]
    <2>1. q \in Nat /\ r \in ServerRecord
        BY <1>0, <1>16, HeadTailProperties DEF SrvEventSend, ServerRecord
    <2>2. \/ Room(q) /\ MsgSnd(q, Pkg(me, 0, srv.len, me, evt)) /\ srv' = r
          \/ UNCHANGED kernelVars /\ srv' = (IF Undeliverable(q) THEN Del(r, q) ELSE r)
        BY <1>16 DEF SrvEventSend
    <2>3. Pkg(me, 0, srv.len, me, evt) \in Package
        BY <1>0 DEF Pkg, Package, ServerRecord
    <2> HIDE DEF q, r
    <2>4. srv' \in ServerRecord
        BY <2>1, <2>2, ListTypes
    <2>5. KernelType'
        BY <1>2, <2>2, <2>3, Sent DEF Room, Exists
    <2> QED
        BY <1>16, <2>4, <2>5 DEF SrvEventSend
<1>17. CASE SrvEventEnd
    <2>1. srv' \in ServerRecord
        BY <1>0, <1>17 DEF SrvEventEnd, ServerRecord
    <2> QED
        BY <1>2, <1>17, <2>1 DEF SrvEventEnd
<1>18. CASE SrvDestroy
    BY <1>1, <1>18, QueueRemoved DEF SrvDestroy
<1>19. CASE SrvKilled
    BY <1>1, <1>2, <1>19 DEF SrvKilled
<1> QED
    BY <1>3, <1>4, <1>5, <1>6, <1>7, <1>8, <1>9, <1>10, <1>11, <1>12, <1>13, <1>14,
       <1>15, <1>16, <1>17, <1>18, <1>19 DEF ServerStep

LEMMA TypeInvInit == Init => TypeInv
<1>1. KernelInit => KernelType
    BY DEF KernelInit, KernelType
<1>2. ClientInit => ClientType
    BY KernelAssumption DEF ClientInit, ClientType, ClientRecord, History, ClientPcs
<1>3. ServerInit => ServerType
    BY KernelAssumption, EmptySeq DEF ServerInit, ServerType, NewSrv, NoData, ServerRecord, ServerPcs
<1> QED
    BY <1>1, <1>2, <1>3 DEF Init, TypeInv

LEMMA TypeInvNext == TypeInv /\ [Next]_vars => TypeInv'
<1> SUFFICES ASSUME TypeInv, [Next]_vars PROVE TypeInv'
    OBVIOUS
<1>1. ASSUME UNCHANGED serverVars PROVE ServerType'
    BY <1>1 DEF TypeInv, ServerType, serverVars
<1>2. ASSUME UNCHANGED clientVars PROVE ClientType'
    BY <1>2 DEF TypeInv, ClientType, clientVars
<1>3. ASSUME NEW c \in Clients, ClientTurn(c) /\ UNCHANGED serverVars
      PROVE  TypeInv'
    BY <1>1, <1>3, ClientStepTypes DEF TypeInv
<1>4. ASSUME NEW c \in Clients,
             (CltDestroy(c) \/ CltKilled(c)) /\ UNCHANGED <<serverVars, slow>>
      PROVE  TypeInv'
    BY <1>1, <1>4, ClientEndTypes DEF TypeInv
<1>5. CASE (ServerStep \/ SrvDestroy \/ SrvKilled) /\ UNCHANGED <<clientVars, slow>>
    BY <1>2, <1>5, ServerStepTypes DEF TypeInv
<1>6. CASE UNCHANGED vars
    BY <1>1, <1>2, <1>6 DEF vars, TypeInv, KernelType, kernelVars
<1> QED
    BY <1>3, <1>4, <1>5, <1>6 DEF Next

LEMMA TypeInvariant == Spec => []TypeInv
BY TypeInvInit, TypeInvNext, PTL DEF Spec

-----------------------------------------------------------------------------
(* The server's list *)

\* No entry twice.
Distinct(s) == \A i, j \in 1 .. Len(s) : s[i] = s[j] => i = j

LEMMA DistinctAppended ==
    ASSUME NEW S, NEW s \in Seq(S), NEW e \in S, Distinct(s), e \notin ToSet(s)
    PROVE  /\ Distinct(Append(s, e)) /\ Len(Append(s, e)) = Len(s) + 1
           /\ ToSet(Append(s, e)) = ToSet(s) \cup {e}
<1> DEFINE t == Append(s, e)
<1>1. /\ t \in Seq(S) /\ Len(s) \in Nat /\ Len(t) = Len(s) + 1
      /\ DOMAIN s = 1 .. Len(s) /\ DOMAIN t = 1 .. Len(t)
    BY AppendProperties, LenProperties
<1>2. /\ \A i \in 1 .. Len(s) : t[i] = s[i] /\ t[i] # e
      /\ t[Len(t)] = e
    BY <1>1, AppendProperties DEF ToSet
<1> HIDE DEF t
<1>3. Distinct(t)
    BY <1>1, <1>2 DEF Distinct
<1>4. ToSet(t) = ToSet(s) \cup {e}
    BY <1>1, <1>2 DEF ToSet
<1> QED
    BY <1>1, <1>3, <1>4 DEF t

LEMMA DistinctRemoved ==
    ASSUME NEW S, NEW s \in Seq(S), NEW e \in ToSet(s), Distinct(s)
    PROVE  /\ Distinct(RemoveFirst(s, e)) /\ Len(RemoveFirst(s, e)) = Len(s) - 1
           /\ ToSet(RemoveFirst(s, e)) = ToSet(s) \ {e}
<1> DEFINE t == RemoveFirst(s, e)
<1>1. PICK k \in 1 .. Len(s) : s[k] = e /\ t = RemoveAt(s, k)
    BY RemovedFirst
<1> HIDE DEF t
<1>2. /\ t \in Seq(S) /\ Len(s) \in Nat /\ Len(t) = Len(s) - 1
      /\ \A j \in 1 .. Len(s) - 1 : t[j] = IF j < k THEN s[j] ELSE s[j + 1]
    <2>1. /\ RemoveAt(s, k) \in Seq(S)
          /\ Len(RemoveAt(s, k)) = Len(s) - 1
          /\ \A j \in 1 .. Len(s) - 1 :
                RemoveAt(s, k)[j] = IF j < k THEN s[j] ELSE s[j + 1]
        BY Removed
    <2> QED
        BY <1>1, <2>1, LenProperties
<1>3. DOMAIN s = 1 .. Len(s) /\ DOMAIN t = 1 .. Len(t)
    BY <1>2, LenProperties
<1>4. Distinct(t)
    BY <1>2 DEF Distinct
<1>5. ASSUME NEW j \in 1 .. Len(t)
      PROVE  t[j] \in ToSet(s) /\ t[j] # e
    <2>1. PICK i \in 1 .. Len(s) : i # k /\ t[j] = s[i]
        BY <1>2
    <2>2. s[i] # e
        BY <1>1, <2>1 DEF Distinct
    <2> QED
        BY <1>3, <2>1, <2>2 DEF ToSet
<1>6. ASSUME NEW j \in 1 .. Len(s), s[j] # e
      PROVE  s[j] \in ToSet(t)
    <2>1. j < k \/ j > k
        BY <1>1, <1>2, <1>6
    <2>2. CASE j < k
        <3>1. j \in 1 .. Len(t) /\ t[j] = s[j]
            BY <1>2, <2>2
        <3> QED
            BY <1>3, <3>1 DEF ToSet
    <2>3. CASE j > k
        <3>1. j - 1 \in 1 .. Len(t) /\ t[j - 1] = s[j]
            BY <1>1, <1>2, <2>3
        <3> QED
            BY <1>3, <3>1 DEF ToSet
    <2> QED
        BY <2>1, <2>2, <2>3
<1>7. ToSet(t) = ToSet(s) \ {e}
    BY <1>3, <1>5, <1>6 DEF ToSet
<1> QED
    BY <1>2, <1>4, <1>7 DEF t

LEMMA DistinctTail ==
    ASSUME NEW S, NEW s \in Seq(S), s # <<>>, Distinct(s)
    PROVE  /\ Distinct(Tail(s)) /\ Head(s) \in ToSet(s)
           /\ ToSet(Tail(s)) = ToSet(s) \ {Head(s)}
<1> DEFINE t == Tail(s)
<1>1. /\ t \in Seq(S) /\ Len(s) \in Nat \ {0} /\ Len(t) = Len(s) - 1
      /\ \A i \in 1 .. Len(t) : t[i] = s[i + 1]
    BY HeadTailProperties, EmptySeq
<1>2. DOMAIN s = 1 .. Len(s) /\ DOMAIN t = 1 .. Len(t)
    BY <1>1, LenProperties
<1>3. Head(s) = s[1]
    BY <1>1
<1> HIDE DEF t
<1>4. Distinct(t)
    BY <1>1 DEF Distinct
<1>5. ASSUME NEW j \in 1 .. Len(t)
      PROVE  t[j] \in ToSet(s) /\ t[j] # Head(s)
    BY <1>1, <1>2, <1>3 DEF ToSet, Distinct
<1>6. ASSUME NEW j \in 1 .. Len(s), s[j] # Head(s)
      PROVE  s[j] \in ToSet(t)
    <2>1. j - 1 \in 1 .. Len(t) /\ t[j - 1] = s[j]
        BY <1>1, <1>3, <1>6
    <2> QED
        BY <1>2, <2>1 DEF ToSet
<1>7. ToSet(t) = ToSet(s) \ {Head(s)}
    BY <1>2, <1>5, <1>6 DEF ToSet
<1>8. Head(s) \in ToSet(s)
    BY <1>1, <1>2, <1>3 DEF ToSet
<1> QED
    BY <1>4, <1>7, <1>8 DEF t

ListInv ==
    /\ srv.amt = Len(srv.list) /\ srv.amt <= MaxClient
    /\ Distinct(srv.list) /\ Distinct(srv.todo)
    /\ ToSet(srv.todo) \subseteq ToSet(srv.list)
    /\ ~SrvAt("bcast") => srv.todo = <<>>
    /\ SrvAt("down") \/ SrvAt("clear") => srv.list = <<>>
    /\ SrvAt("respond") => srv.req \in ToSet(srv.list)

LEMMA ListInvStep ==
    ASSUME TypeInv, ListInv, ServerStep \/ SrvDestroy \/ SrvKilled
    PROVE  ListInv'
<1> USE DEF SrvAt, SrvGoto
<1>0. /\ srv \in ServerRecord /\ srv.list \in Seq(Nat) /\ srv.todo \in Seq(Nat)
      /\ srv.amt \in Int /\ srv.req \in Nat
    BY DEF TypeInv, ServerType, ServerRecord
<1>1. /\ srv.amt = Len(srv.list) /\ srv.amt <= MaxClient
      /\ Distinct(srv.list) /\ Distinct(srv.todo)
      /\ ToSet(srv.todo) \subseteq ToSet(srv.list)
      /\ srv.pc # "bcast" => srv.todo = <<>>
      /\ srv.pc = "down" \/ srv.pc = "clear" => srv.list = <<>>
      /\ srv.pc = "respond" => srv.req \in ToSet(srv.list)
    BY DEF ListInv
<1>2. Recv \notin {"down", "clear", "respond", "bcast"} /\ AfterAsk \notin {"down", "clear", "respond", "bcast"}
    BY DEF Recv, AfterAsk
<1>3. Len(<<>>) = 0 /\ ToSet(<<>>) = {} /\ Distinct(<<>>)
    BY DEF ToSet, Distinct
<1>4. CASE SrvStart \/ SrvDestroy \/ SrvKilled
    <2>1. /\ srv'.list = <<>> /\ srv'.todo = <<>> /\ srv'.amt = 0
          /\ srv'.pc \in {"clear", "down"}
      <3>1. CASE SrvStart
        <4>1. PICK q \in 1 .. MaxQid : srv' = [NewSrv EXCEPT !.pc = "clear", !.qid = q]
            BY <3>1 DEF SrvStart
        <4> QED
            BY <4>1 DEF NewSrv
      <3>2. CASE SrvDestroy \/ SrvKilled
        BY <3>2 DEF SrvDestroy, SrvKilled, NewSrv
      <3> QED
        BY <1>4, <3>1, <3>2
    <2> QED
        BY <1>3, <2>1, ServerAssumption DEF ListInv
<1>5. ASSUME srv' = srv
      PROVE  ListInv'
    BY <1>1, <1>5 DEF ListInv
<1>6. CASE SrvClear
    BY <1>5, <1>6 DEF SrvClear, ClearTurn, serverVars
\* The steps that leave list, amt and todo alone.
<1>7. ASSUME srv'.list = srv.list, srv'.amt = srv.amt, srv'.todo = srv.todo,
             srv.pc # "bcast", srv'.pc \notin {"down", "clear", "respond", "bcast"}
      PROVE  ListInv'
    BY <1>1, <1>7 DEF ListInv
<1>8. CASE SrvClearDone
    <2>1. /\ srv.pc = "clear" /\ srv'.list = <<>> /\ srv'.amt = srv.amt
          /\ srv'.todo = srv.todo /\ srv'.pc = Recv
        BY <1>0, <1>8 DEF SrvClearDone, ServerRecord
    <2> QED
        BY <1>1, <1>2, <1>7, <2>1
<1>9. CASE SrvRecv \/ SrvRecvBusy \/ SrvRecvMiss \/ MonReqFull \/ MonReqMiss
           \/ SrvRespond \/ SrvEventSkip
    <2>1. /\ srv'.list = srv.list /\ srv'.amt = srv.amt /\ srv'.todo = srv.todo
          /\ srv.pc # "bcast" /\ srv'.pc \in {"ack", AfterAsk, "event", Recv}
        BY <1>0, <1>9 DEF SrvRecv, SrvRecvBusy, SrvRecvMiss, MonReqFull, MonReqMiss,
                          SrvRespond, SrvEventSkip, ServerRecord
    <2> QED
        BY <1>2, <1>7, <2>1
<1>10. ASSUME NEW len, SrvSend(len) \/ SrvSendRefused(len)
       PROVE  ListInv'
    <2>1. /\ srv'.list = srv.list /\ srv'.amt = srv.amt /\ srv'.todo = srv.todo
          /\ srv.pc # "bcast" /\ srv'.pc = AfterAsk
        BY <1>0, <1>10 DEF SrvSend, SrvSendRefused, Answered, ServerRecord
    <2> QED
        BY <1>2, <1>7, <2>1
<1>11. CASE MonReqAdmit
    <2> DEFINE q == NextMsg(srv.qid, REG_TO_SERVER).xid
    <2>1. q \in Nat
        BY <1>11, Received DEF MonReqAdmit, TypeInv, Package
    <2>2. /\ srv' = [Add(srv, q) EXCEPT !.pc = "respond", !.req = q]
          /\ ~Full(srv) /\ srv.pc = "monreq"
        BY <1>11 DEF MonReqAdmit
    <2> HIDE DEF q
    <2>3. CASE q \in ToSet(srv.list)
        <3>1. /\ srv'.list = srv.list /\ srv'.amt = srv.amt /\ srv'.todo = srv.todo
              /\ srv'.pc = "respond" /\ srv'.req = q
            BY <1>0, <2>2, <2>3 DEF Add, ServerRecord
        <3> QED
            BY <1>1, <2>2, <2>3, <3>1 DEF ListInv
    <2>4. CASE q \notin ToSet(srv.list)
        <3>1. /\ srv'.list = Append(srv.list, q) /\ srv'.amt = srv.amt + 1
              /\ srv'.todo = srv.todo /\ srv'.pc = "respond" /\ srv'.req = q
            BY <1>0, <2>2, <2>4 DEF Add, ServerRecord
        <3>2. /\ Distinct(srv'.list) /\ Len(srv'.list) = Len(srv.list) + 1
              /\ ToSet(srv'.list) = ToSet(srv.list) \cup {q}
            BY <1>0, <1>1, <2>1, <2>4, <3>1, DistinctAppended
        <3>3. srv.amt + 1 <= MaxClient
            BY <1>0, <2>2, ServerAssumption DEF Full
        <3> QED
            BY <1>1, <1>3, <2>2, <3>1, <3>2, <3>3 DEF ListInv
    <2> QED
        BY <2>3, <2>4
<1>12. CASE SrvRespondGone
    <2>1. /\ srv.req \in ToSet(srv.list) /\ srv.todo = <<>>
          /\ srv'.list = RemoveFirst(srv.list, srv.req) /\ srv'.amt = srv.amt - 1
          /\ srv'.todo = srv.todo /\ srv'.pc = "event"
        BY <1>0, <1>1, <1>12 DEF SrvRespondGone, Del, ServerRecord
    <2>2. Distinct(srv'.list) /\ Len(srv'.list) = Len(srv.list) - 1
        BY <1>0, <1>1, <2>1, DistinctRemoved
    <2> QED
        BY <1>0, <1>1, <1>3, <2>1, <2>2, ServerAssumption DEF ListInv
<1>13. ASSUME NEW len, SrvEventStart(len)
       PROVE  ListInv'
    <2>1. /\ srv'.list = srv.list /\ srv'.amt = srv.amt /\ srv'.todo = srv.list
          /\ srv'.pc = "bcast"
        BY <1>0, <1>13 DEF SrvEventStart, ServerRecord
    <2> QED
        BY <1>1, <2>1 DEF ListInv
<1>14. CASE SrvEventSend
    <2> DEFINE q == Head(srv.todo)
    <2>1. /\ Distinct(Tail(srv.todo)) /\ q \in ToSet(srv.todo)
          /\ ToSet(Tail(srv.todo)) = ToSet(srv.todo) \ {q}
        BY <1>0, <1>1, <1>14, DistinctTail DEF SrvEventSend
    <2>2. srv.pc = "bcast" /\ srv'.todo = Tail(srv.todo) /\ srv'.pc = "bcast"
        BY <1>0, <1>14 DEF SrvEventSend, Del, ServerRecord
    <2>3. \/ srv'.list = srv.list /\ srv'.amt = srv.amt
          \/ srv'.list = RemoveFirst(srv.list, q) /\ srv'.amt = srv.amt - 1
        BY <1>0, <1>14 DEF SrvEventSend, Del, ServerRecord
    <2> HIDE DEF q
    <2>4. CASE srv'.list = srv.list /\ srv'.amt = srv.amt
        BY <1>1, <2>1, <2>2, <2>4 DEF ListInv
    <2>5. CASE srv'.list = RemoveFirst(srv.list, q) /\ srv'.amt = srv.amt - 1
        <3>1. /\ Distinct(srv'.list) /\ Len(srv'.list) = Len(srv.list) - 1
              /\ ToSet(srv'.list) = ToSet(srv.list) \ {q}
            BY <1>0, <1>1, <2>1, <2>5, DistinctRemoved
        <3> QED
            BY <1>0, <1>1, <2>1, <2>2, <2>5, <3>1, ServerAssumption DEF ListInv
    <2> QED
        BY <2>3, <2>4, <2>5
<1>15. CASE SrvEventEnd
    <2>1. /\ srv.todo = <<>> /\ srv'.list = srv.list /\ srv'.amt = srv.amt
          /\ srv'.todo = srv.todo /\ srv'.pc = Recv
        BY <1>0, <1>15 DEF SrvEventEnd, ServerRecord
    <2> QED
        BY <1>1, <1>2, <2>1 DEF ListInv
<1> QED
    BY <1>4, <1>6, <1>8, <1>9, <1>10, <1>11, <1>12, <1>13, <1>14, <1>15 DEF ServerStep

LEMMA ListInvariant == Spec => []ListInv
<1>1. Init => ListInv
    BY ServerAssumption DEF Init, ServerInit, NewSrv, ListInv, SrvAt, Distinct, ToSet
<1>2. TypeInv /\ ListInv /\ [Next]_vars => ListInv'
    <2> SUFFICES ASSUME TypeInv, ListInv, [Next]_vars PROVE ListInv'
        OBVIOUS
    <2>1. CASE ServerStep \/ SrvDestroy \/ SrvKilled
        BY <2>1, ListInvStep
    <2>2. CASE UNCHANGED serverVars
        BY <2>2 DEF ListInv, SrvAt, serverVars
    <2> QED
        BY <2>1, <2>2 DEF Next, vars
<1> QED
    BY <1>1, <1>2, TypeInvariant, PTL DEF Spec

\* The server's list has no queue twice, and clt_amt counts it up to the
\* limit, through every registration, removal, broadcast and restart.
THEOREM ServerListSound == Spec => []ListSound
<1>1. TypeInv /\ ListInv => ListSound
    <2> SUFFICES ASSUME TypeInv, ListInv PROVE ListSound
        OBVIOUS
    <2> DEFINE s == srv.list
    <2>1. s \in Seq(Nat) /\ Len(s) \in Nat /\ DOMAIN s = 1 .. Len(s)
        BY LenProperties DEF TypeInv, ServerType, ServerRecord
    <2>2. s \in [1 .. Len(s) -> Nat] /\ Distinct(s)
        BY <2>1, LenProperties DEF ListInv
    <2> HIDE DEF s
    <2>3. s \in Bijection(1 .. Len(s), ToSet(s))
      <3>1. s \in [1 .. Len(s) -> ToSet(s)]
        BY <2>1, <2>2 DEF ToSet
      <3>2. s \in Injection(1 .. Len(s), ToSet(s))
        BY <2>2, <3>1 DEF Distinct, Injection, IsInjective
      <3>3. s \in Surjection(1 .. Len(s), ToSet(s))
        BY <2>1, <3>1 DEF ToSet, Surjection
      <3> QED
        BY <3>2, <3>3 DEF Bijection
    <2>4. Cardinality(ToSet(s)) = Len(s)
        BY <2>1, <2>3, FS_CountingElements DEF ExistsBijection
    <2> QED
        BY <2>4 DEF ListSound, ListInv, s
<1> QED
    BY <1>1, TypeInvariant, ListInvariant, PTL

-----------------------------------------------------------------------------
(* Queues, keys and packages *)

Alive(c) == ~At(c, "dead")

\* A queue has one key, and what a process remembers of a queue that exists
\* is true of it.
KeysInv ==
    /\ \A k, l \in Names : bound[k] = bound[l] /\ bound[k] # 0 => k = l
    /\ \A c \in Clients : Alive(c) =>
          /\ Exists(clt[c].srvQ) => bound[SrvName] = clt[c].srvQ
          /\ Exists(clt[c].eid) => bound[KeyOf[c]] = clt[c].eid
    /\ Exists(srv.qid) => bound[SrvName] = srv.qid
    /\ \A q \in ToSet(srv.list) : Exists(q) => q # bound[SrvName]

\* What is on the server's queue b, when D are the queues that exist:
\* questions, registrations and answers.
ForServer(m, D, b) ==
    \/ m.type = SEND_TO_SERVER /\ m.xid \in Clients /\ m.who = m.xid /\ m.n > 0
    \/ m.type = REG_TO_SERVER /\ m.n = 0 /\ (m.xid \in D => m.xid # b)
    \/ m.type \in Clients /\ m.who = m.type /\ m.n > 0

\* What is on a private queue: replies and events of servers up to pid last.
FromServer(m, last) ==
    \/ m.type = REG_TO_SERVER /\ m.xid \in ServerPids /\ m.xid <= last /\ m.n = 0
    \/ m.type \in ServerPids /\ m.xid = 0 /\ m.n > 0

PackagesInv ==
    \A q \in DOMAIN mq : \A i \in 1 .. Len(mq[q]) :
        IF q = bound[SrvName] THEN ForServer(mq[q][i], DOMAIN mq, bound[SrvName])
        ELSE FromServer(mq[q][i], me)

ProcessInv ==
    /\ me \in {0} \cup ServerPids /\ (~SrvAt("down") => me # 0)
    /\ \A c \in Clients : /\ clt[c].pid \in {0} \cup ServerPids /\ clt[c].pid <= me
                          /\ At(c, "sending") => hist[c].asked > 0
    /\ srv.pid # 0 => srv.pid \in Clients /\ cur.who = srv.pid /\ cur.n > 0
    /\ SrvAt("ack") => srv.pid # 0
    /\ SrvAt("bcast") => evt > 0

QueueInv == KeysInv /\ PackagesInv /\ ProcessInv

\* Who sends package m to queue q.
Sends(q, m) ==
    \/ \E c \in Clients : /\ RequestSend(c) /\ q = clt[c].srvQ
                         /\ m = Pkg(REG_TO_SERVER, clt[c].eid, 0, c, 0)
    \/ \E c \in Clients : /\ SendOk(c) /\ q = clt[c].srvQ
                         /\ m = Pkg(SEND_TO_SERVER, c, clt[c].len, c, hist[c].asked)
    \/ \E len \in ReplyLens : /\ SrvSend(len) /\ q = srv.qid
                             /\ m = Pkg(srv.pid, 0, len, cur.who, cur.n)
    \/ SrvRespond /\ q = srv.req /\ m = Pkg(REG_TO_SERVER, me, 0, me, 0)
    \/ SrvEventSend /\ q = Head(srv.todo) /\ m = Pkg(me, 0, srv.len, me, evt)

\* What a step does to the kernel's queues is one call of the kernel, if any.
KernelStep ==
    \/ UNCHANGED kernelVars
    \/ \E q \in DOMAIN mq, m \in Package : Room(q) /\ MsgSnd(q, m) /\ Sends(q, m)
    \/ \E q, type \in Nat : Gets(q, type) /\ MsgRcv(q, type)
    \/ \E q \in Nat : RmId(q)
    \/ \E name \in Names, q \in 1 .. MaxQid : GetQid(name, KnownQids, q)

LEMMA KernelSteps ==
    ASSUME TypeInv, Next
    PROVE  KernelStep
<1> USE DEF KernelStep
<1>0. /\ \A c \in Clients : /\ clt[c] \in ClientRecord /\ hist[c] \in History /\ c \in Nat
                            /\ clt[c].eid \in Nat /\ clt[c].srvQ \in Nat
      /\ srv \in ServerRecord /\ srv.qid \in Nat /\ me \in Nat /\ evt \in Nat
      /\ cur \in [who : Nat, n : Nat]
      /\ SEND_TO_SERVER \in Nat /\ REG_TO_SERVER \in Nat /\ ANY_MESSAGE \in Nat
  <2>1. SEND_TO_SERVER \in Nat /\ REG_TO_SERVER \in Nat /\ ANY_MESSAGE \in Nat
    BY DEF SEND_TO_SERVER, REG_TO_SERVER, ANY_MESSAGE
  <2>2. \A n \in 0 .. MaxQid : n \in Nat
    BY KernelAssumption
  <2>3. ASSUME NEW c \in Clients
        PROVE  /\ clt[c] \in ClientRecord /\ hist[c] \in History /\ c \in Nat
               /\ clt[c].eid \in 0 .. MaxQid /\ clt[c].srvQ \in 0 .. MaxQid
    BY ClientNats DEF TypeInv, ClientType, ClientRecord
  <2>4. /\ srv \in ServerRecord /\ srv.qid \in 0 .. MaxQid /\ me \in Nat /\ evt \in Nat
        /\ cur \in [who : Nat, n : Nat]
    BY DEF TypeInv, ServerType, ServerRecord
  <2> QED
    BY <2>1, <2>2, <2>3, <2>4
<1>1. ASSUME NEW c \in Clients, ClientTurn(c)
      PROVE  KernelStep
    <2>1. CASE CltInit(c) \/ RequestOpen(c)
        BY <2>1, ClientNats DEF CltInit, RequestOpen
    <2>2. CASE RequestKnown(c) \/ MonitorTimeout(c) \/ MonitorError(c) \/ AskLater(c)
               \/ SendCall(c) \/ SendError(c) \/ RecvMiss(c)
        BY <2>2 DEF RequestKnown, MonitorTimeout, MonitorError, AskLater, SendCall, SendError, RecvMiss
    <2>3. CASE RequestSend(c)
        <3>1. Pkg(REG_TO_SERVER, clt[c].eid, 0, c, 0) \in Package
            BY <1>0 DEF Pkg, Package
        <3> QED
            BY <2>3, <3>1 DEF RequestSend, Room, Exists, Sends
    <2>4. CASE SendOk(c)
        <3>1. Pkg(SEND_TO_SERVER, c, clt[c].len, c, hist[c].asked) \in Package
            BY <1>0 DEF Pkg, Package, ClientRecord, History
        <3> QED
            BY <2>4, <3>1 DEF SendOk, Room, Exists, Sends
    <2>5. CASE RequestRefused(c) \/ RequestTimeout(c)
        BY <1>0, <2>5 DEF RequestRefused, RequestTimeout
    <2>6. CASE RequestAnswered(c) \/ MonitorEvent(c) \/ RecvOk(c)
        BY <1>0, <2>6 DEF RequestAnswered, MonitorEvent, RecvOk
    <2> QED
        BY <1>1, <2>1, <2>2, <2>3, <2>4, <2>5, <2>6 DEF ClientTurn, ClientStep
<1>2. ASSUME NEW c \in Clients, CltDestroy(c) \/ CltKilled(c)
      PROVE  KernelStep
    BY <1>0, <1>2 DEF CltDestroy, CltKilled
<1>3. CASE ServerStep \/ SrvDestroy \/ SrvKilled
    <2>1. CASE SrvStart
        BY <2>1, ClientNats DEF SrvStart
    <2>2. CASE SrvClear
        BY <1>0, <2>2 DEF SrvClear, ClearTurn
    <2>3. CASE SrvClearDone \/ SrvRecvBusy \/ SrvRecvMiss \/ MonReqMiss \/ SrvRespondGone
               \/ SrvEventSkip \/ SrvEventEnd \/ SrvKilled
        BY <2>3 DEF SrvClearDone, SrvRecvBusy, SrvRecvMiss, MonReqMiss, SrvRespondGone,
                    SrvEventSkip, SrvEventEnd, SrvKilled
    <2>4. CASE SrvRecv \/ MonReqAdmit \/ MonReqFull
        BY <1>0, <2>4 DEF SrvRecv, MonReqAdmit, MonReqFull
    <2>5. ASSUME NEW len \in ReplyLens, SrvSend(len) \/ SrvSendRefused(len)
          PROVE  KernelStep
        <3>1. Pkg(srv.pid, 0, len, cur.who, cur.n) \in Package
            BY <1>0, ServerAssumption DEF Pkg, Package, ServerRecord
        <3> QED
            BY <2>5, <3>1 DEF SrvSend, SrvSendRefused, Room, Exists, Sends
    <2>6. CASE SrvRespond
        <3>1. Pkg(REG_TO_SERVER, me, 0, me, 0) \in Package
            BY <1>0 DEF Pkg, Package
        <3> QED
            BY <2>6, <3>1 DEF SrvRespond, Room, Exists, Sends
    <2>7. ASSUME NEW len \in EventLens, SrvEventStart(len)
          PROVE  KernelStep
        BY <2>7 DEF SrvEventStart
    <2>8. CASE SrvEventSend
        <3>1. Pkg(me, 0, srv.len, me, evt) \in Package
            BY <1>0 DEF Pkg, Package, ServerRecord
        <3> QED
            BY <2>8, <3>1 DEF SrvEventSend, Room, Exists, Sends
    <2>9. CASE SrvDestroy
        BY <1>0, <2>9 DEF SrvDestroy
    <2> QED
        BY <1>3, <2>1, <2>2, <2>3, <2>4, <2>5, <2>6, <2>7, <2>8, <2>9 DEF ServerStep
<1> QED
    BY <1>1, <1>2, <1>3 DEF Next

\* What is true of a queue that a process remembers stays true of it: its id
\* is given to no other queue.
LEMMA Remembered ==
    ASSUME KernelType, KernelStep
    PROVE  /\ \A x \in KnownQids : x \in DOMAIN mq' => x \in DOMAIN mq
           /\ \A x \in DOMAIN mq : x \in DOMAIN mq' =>
                 \A k \in Names : bound'[k] = x <=> bound[k] = x
           /\ (\A k, l \in Names : bound[k] = bound[l] /\ bound[k] # 0 => k = l)
                 => \A k, l \in Names : bound'[k] = bound'[l] /\ bound'[k] # 0 => k = l
<1>0. \A k \in Names : bound[k] \in {0} \cup DOMAIN mq
    BY DEF KernelType
<1>00. 0 \notin DOMAIN mq
    BY DEF KernelType
<1>1. CASE bound' = bound /\ DOMAIN mq' = DOMAIN mq
    BY <1>1
<1>2. CASE UNCHANGED kernelVars
    BY <1>1, <1>2 DEF kernelVars
<1>3. ASSUME NEW q \in DOMAIN mq, NEW m \in Package, Room(q) /\ MsgSnd(q, m)
      PROVE  bound' = bound /\ DOMAIN mq' = DOMAIN mq
    BY <1>3, Sent
<1>4. ASSUME NEW q, NEW type, Gets(q, type), MsgRcv(q, type)
      PROVE  bound' = bound /\ DOMAIN mq' = DOMAIN mq
    BY <1>4, Received
<1>5. CASE \E q \in Nat : RmId(q)
    <2>1. PICK q \in Nat : RmId(q)
        BY <1>5
    <2>2. /\ DOMAIN mq' = DOMAIN mq \ {q}
          /\ \A k \in Names : bound'[k] = IF bound[k] = q THEN 0 ELSE bound[k]
        BY <2>1, QueueRemoved
    <2> QED
        BY <1>00, <2>2
<1>6. CASE \E name \in Names, q \in 1 .. MaxQid : GetQid(name, KnownQids, q)
    <2>1. PICK name \in Names, q \in 1 .. MaxQid : GetQid(name, KnownQids, q)
        BY <1>6
    <2>2. CASE UNCHANGED kernelVars
        BY <1>2, <2>2
    <2>3. CASE Created(name, KnownQids, q)
        BY <1>0, <1>00, <2>3 DEF Created
    <2> QED
        BY <2>1, <2>2, <2>3, QueueFound
<1> QED
    BY <1>1, <1>2, <1>3, <1>4, <1>5, <1>6 DEF KernelStep

\* Every package that waits after a step waited before it, or was sent by it.
LEMMA Waiting ==
    ASSUME KernelType, KernelStep, NEW q \in DOMAIN mq', NEW i \in 1 .. Len(mq'[q])
    PROVE  /\ q \in DOMAIN mq
           /\ \/ \E j \in 1 .. Len(mq[q]) : mq'[q][i] = mq[q][j]
              \/ /\ Room(q) /\ MsgSnd(q, mq'[q][i]) /\ Sends(q, mq'[q][i])
                 /\ i = Len(mq[q]) + 1
<1>1. CASE UNCHANGED kernelVars
    BY <1>1 DEF kernelVars
<1>2. ASSUME NEW r \in DOMAIN mq, NEW m \in Package, Room(r), MsgSnd(r, m), Sends(r, m)
      PROVE  /\ q \in DOMAIN mq
             /\ \/ \E j \in 1 .. Len(mq[q]) : mq'[q][i] = mq[q][j]
                \/ /\ Room(q) /\ MsgSnd(q, mq'[q][i]) /\ Sends(q, mq'[q][i])
                   /\ i = Len(mq[q]) + 1
    <2>1. /\ DOMAIN mq' = DOMAIN mq
          /\ \A x \in DOMAIN mq : x # r => mq'[x] = mq[x]
          /\ Len(mq[r]) \in Nat /\ Len(mq'[r]) = Len(mq[r]) + 1
          /\ \A j \in 1 .. Len(mq[r]) : mq'[r][j] = mq[r][j]
          /\ mq'[r][Len(mq[r]) + 1] = m
        BY <1>2, Sent
    <2>2. CASE q # r
        BY <2>1, <2>2
    <2>3. CASE q = r /\ i \in 1 .. Len(mq[r])
        BY <2>1, <2>3
    <2>4. CASE q = r /\ i = Len(mq[r]) + 1
        BY <1>2, <2>1, <2>4
    <2> QED
        BY <2>1, <2>2, <2>3, <2>4
<1>3. ASSUME NEW r, NEW type, Gets(r, type), MsgRcv(r, type)
      PROVE  q \in DOMAIN mq /\ \E j \in 1 .. Len(mq[q]) : mq'[q][i] = mq[q][j]
    <2>1. /\ DOMAIN mq' = DOMAIN mq
          /\ \A x \in DOMAIN mq : \A j \in 1 .. Len(mq'[x]) :
                 /\ Before(r, First(r, type), x, j) \in 1 .. Len(mq[x])
                 /\ mq'[x][j] = mq[x][Before(r, First(r, type), x, j)]
        BY <1>3, Received
    <2> QED
        BY <2>1
<1>4. ASSUME NEW r \in Nat, RmId(r)
      PROVE  q \in DOMAIN mq /\ \E j \in 1 .. Len(mq[q]) : mq'[q][i] = mq[q][j]
    BY <1>4, QueueRemoved
<1>5. ASSUME NEW name \in Names, NEW r \in 1 .. MaxQid, GetQid(name, KnownQids, r)
      PROVE  q \in DOMAIN mq /\ \E j \in 1 .. Len(mq[q]) : mq'[q][i] = mq[q][j]
    <2>1. \/ UNCHANGED kernelVars
          \/ /\ DOMAIN mq' = DOMAIN mq \cup {r} /\ mq'[r] = <<>>
             /\ \A x \in DOMAIN mq : mq'[x] = mq[x]
        BY <1>5, QueueFound DEF Created
    <2>2. Len(<<>>) = 0
        OBVIOUS
    <2> QED
        BY <2>1, <2>2 DEF kernelVars
<1> QED
    BY <1>1, <1>2, <1>3, <1>4, <1>5 DEF KernelStep

LEMMA Known ==
    ASSUME TypeInv
    PROVE  /\ \A c \in Clients : Alive(c) => clt[c].srvQ \in KnownQids /\ clt[c].eid \in KnownQids
           /\ srv.qid \in KnownQids /\ srv.req \in KnownQids
           /\ ToSet(srv.list) \subseteq KnownQids /\ ToSet(srv.todo) \subseteq KnownQids
           /\ \A q \in DOMAIN mq : \A i \in 1 .. Len(mq[q]) :
                 mq[q][i].type = REG_TO_SERVER => mq[q][i].xid \in KnownQids
<1>1. ASSUME NEW q \in DOMAIN mq, NEW i \in 1 .. Len(mq[q]), mq[q][i].type = REG_TO_SERVER
      PROVE  mq[q][i].xid \in RequestQids
    <2>1. DOMAIN mq[q] = 1 .. Len(mq[q])
        BY LenProperties DEF TypeInv, KernelType
    <2>2. mq[q][i] \in {x \in ToSet(mq[q]) : x.type = REG_TO_SERVER}
        BY <1>1, <2>1 DEF ToSet
    <2>3. mq[q][i].xid \in {m.xid : m \in {x \in ToSet(mq[q]) : x.type = REG_TO_SERVER}}
        BY <2>2
    <2> QED
        BY <2>3 DEF RequestQids
<1>2. ASSUME NEW c \in Clients, Alive(c)
      PROVE  clt[c].srvQ \in ClientQids /\ clt[c].eid \in ClientQids
    <2>1. c \in {x \in Clients : clt[x].pc # "dead"}
        BY <1>2 DEF Alive, At
    <2> QED
        BY <2>1 DEF ClientQids
<1> QED
    BY <1>1, <1>2 DEF KnownQids

\* What a client remembers of queues it has from msgQ_get_qid.
LEMMA ClientMemory ==
    ASSUME TypeInv, Next, NEW c \in Clients, Alive(c)'
    PROVE  /\ Alive(c)
           /\ \/ clt'[c].srvQ = clt[c].srvQ
              \/ clt'[c].srvQ \in 1 .. MaxQid /\ GetQid(SrvName, KnownQids, clt'[c].srvQ)
           /\ \/ clt'[c].eid = clt[c].eid
              \/ clt'[c].eid \in 1 .. MaxQid /\ GetQid(KeyOf[c], KnownQids, clt'[c].eid)
<1> USE DEF At, Goto, Alive
<1>0. clt \in [Clients -> ClientRecord] /\ clt[c] \in ClientRecord
    BY DEF TypeInv, ClientType
<1>1. CASE UNCHANGED clt
    BY <1>1
<1>2. ASSUME NEW d \in Clients, d # c, clt' = [clt EXCEPT ![d] = clt'[d]]
      PROVE  clt'[c] = clt[c]
    BY <1>0, <1>2
<1> DEFINE Same(d) ==
             /\ d # c => clt'[c] = clt[c]
             /\ d = c => \/ CltInit(c) \/ RequestOpen(c)
                         \/ clt[c].pc # "dead" /\ clt'[c].srvQ = clt[c].srvQ /\ clt'[c].eid = clt[c].eid
<1>3. ASSUME NEW d \in Clients, ClientTurn(d)
      PROVE  Same(d)
    <2>1. CASE CltInit(d) \/ RequestOpen(d)
        BY <1>0, <2>1 DEF CltInit, RequestOpen
    <2>2. CASE RequestKnown(d) \/ RequestSend(d) \/ RequestRefused(d) \/ RequestAnswered(d)
               \/ RequestTimeout(d)
        BY <1>0, <2>2 DEF RequestKnown, RequestSend, RequestRefused, RequestAnswered, RequestTimeout,
                          ClientRecord
    <2>3. CASE MonitorEvent(d)
        BY <1>0, <2>3 DEF MonitorEvent, ClientRecord
    <2>8. CASE MonitorError(d)
        BY <1>0, <2>8 DEF MonitorError, ForgetServer, ClientRecord
    <2>4. CASE MonitorTimeout(d)
        BY <1>0, <2>4 DEF MonitorTimeout, ForgetServer, ClientRecord
    <2>5. CASE AskLater(d) \/ SendOk(d) \/ SendError(d) \/ RecvOk(d) \/ RecvMiss(d)
        BY <1>0, <2>5 DEF AskLater, SendOk, SendError, RecvOk, RecvMiss, ClientRecord
    <2>6. CASE SendCall(d)
        BY <1>0, <2>6 DEF SendCall, ClientRecord
    <2>7. \/ CltInit(d) \/ RequestOpen(d)
          \/ RequestKnown(d) \/ RequestSend(d) \/ RequestRefused(d) \/ RequestAnswered(d)
          \/ RequestTimeout(d) \/ MonitorEvent(d) \/ MonitorError(d) \/ MonitorTimeout(d)
          \/ AskLater(d) \/ SendOk(d) \/ SendError(d) \/ RecvOk(d) \/ RecvMiss(d) \/ SendCall(d)
        BY <1>3 DEF ClientTurn, ClientStep
    <2> HIDE DEF Same
    <2> QED
        BY <2>1, <2>2, <2>3, <2>4, <2>5, <2>6, <2>7, <2>8
<1>4. ASSUME NEW d \in Clients, CltDestroy(d) \/ CltKilled(d)
      PROVE  d # c /\ clt'[c] = clt[c]
    <2>1. clt' = [clt EXCEPT ![d].pc = "dead"]
        BY <1>4 DEF CltDestroy, CltKilled
    <2> QED
        BY <1>0, <2>1 DEF ClientRecord
<1>5. CASE CltInit(c)
    <2>1. PICK q \in 1 .. MaxQid :
             /\ GetQid(SrvName, KnownQids, q)
             /\ clt' = [clt EXCEPT ![c].pc = LoopTop, ![c].srvQ = q]
        BY <1>5 DEF CltInit
    <2>2. clt'[c].srvQ = q /\ clt'[c].eid = clt[c].eid /\ clt[c].pc # "dead"
        BY <1>0, <1>5, <2>1 DEF CltInit, ClientRecord
    <2> QED
        BY <2>1, <2>2
<1>6. CASE RequestOpen(c)
    <2>1. PICK q \in 1 .. MaxQid :
             /\ GetQid(KeyOf[c], KnownQids, q)
             /\ clt' = [clt EXCEPT ![c].pc = "reg", ![c].eid = q]
        BY <1>6 DEF RequestOpen
    <2>2. clt'[c].eid = q /\ clt'[c].srvQ = clt[c].srvQ /\ clt[c].pc # "dead"
        BY <1>0, <1>6, <2>1 DEF RequestOpen, ClientRecord
    <2> QED
        BY <2>1, <2>2
<1>7. \/ CltInit(c) \/ RequestOpen(c)
      \/ clt[c].pc # "dead" /\ clt'[c].srvQ = clt[c].srvQ /\ clt'[c].eid = clt[c].eid
    BY <1>3, <1>4 DEF Next, clientVars
<1> QED
    BY <1>5, <1>6, <1>7

\* What the server remembers: its queue is from msgQ_get_qid, and its list
\* grows by registrations only.
LEMMA ServerMemory ==
    ASSUME TypeInv, ListInv, Next
    PROVE  /\ \/ srv'.qid = srv.qid \/ srv'.qid = 0
              \/ srv'.qid \in 1 .. MaxQid /\ GetQid(SrvName, KnownQids, srv'.qid)
           /\ \/ ToSet(srv'.list) \subseteq ToSet(srv.list)
              \/ /\ Gets(srv.qid, REG_TO_SERVER)
                 /\ ToSet(srv'.list)
                       \subseteq ToSet(srv.list) \cup {NextMsg(srv.qid, REG_TO_SERVER).xid}
<1> USE DEF SrvAt, SrvGoto
<1>0. /\ srv \in ServerRecord /\ srv.list \in Seq(Nat) /\ srv.todo \in Seq(Nat)
      /\ ToSet(<<>>) = {}
    BY DEF TypeInv, ServerType, ServerRecord, ToSet
<1>1. CASE srv' = srv
    BY <1>1
<1>2. CASE SrvStart
    <2>1. PICK q \in 1 .. MaxQid :
             GetQid(SrvName, KnownQids, q) /\ srv' = [NewSrv EXCEPT !.pc = "clear", !.qid = q]
        BY <1>2 DEF SrvStart
    <2>2. srv'.qid = q /\ srv'.list = <<>>
        BY <2>1 DEF NewSrv
    <2> QED
        BY <1>0, <2>1, <2>2
<1>3. CASE SrvDestroy \/ SrvKilled
    BY <1>0, <1>3 DEF SrvDestroy, SrvKilled, NewSrv
<1>4. CASE SrvClear
    BY <1>1, <1>4 DEF SrvClear, ClearTurn, serverVars
<1>5. CASE SrvClearDone \/ SrvRecv \/ SrvRecvBusy \/ SrvRecvMiss \/ MonReqFull \/ MonReqMiss
           \/ SrvRespond \/ SrvEventSkip \/ SrvEventEnd
    BY <1>0, <1>5 DEF SrvClearDone, SrvRecv, SrvRecvBusy, SrvRecvMiss, MonReqFull, MonReqMiss,
                      SrvRespond, SrvEventSkip, SrvEventEnd, ServerRecord
<1>6. ASSUME NEW len, SrvSend(len) \/ SrvSendRefused(len) \/ SrvEventStart(len)
      PROVE  srv'.qid = srv.qid /\ srv'.list = srv.list
    BY <1>0, <1>6 DEF SrvSend, SrvSendRefused, SrvEventStart, Answered, ServerRecord
<1>7. CASE MonReqAdmit
    <2> DEFINE q == NextMsg(srv.qid, REG_TO_SERVER).xid
    <2>1. q \in Nat /\ Gets(srv.qid, REG_TO_SERVER)
        BY <1>7, Received DEF MonReqAdmit, TypeInv, Package
    <2>2. srv' = [Add(srv, q) EXCEPT !.pc = "respond", !.req = q]
        BY <1>7 DEF MonReqAdmit
    <2> HIDE DEF q
    <2>3. /\ srv'.qid = srv.qid
          /\ srv'.list = IF q \in ToSet(srv.list) THEN srv.list ELSE Append(srv.list, q)
        BY <1>0, <2>2 DEF Add, ServerRecord
    <2>4. q \notin ToSet(srv.list) => ToSet(Append(srv.list, q)) = ToSet(srv.list) \cup {q}
        BY <1>0, <2>1, DistinctAppended DEF ListInv
    <2> QED
        BY <2>1, <2>3, <2>4 DEF q
<1>8. ASSUME NEW q \in ToSet(srv.list), srv'.list = RemoveFirst(srv.list, q)
      PROVE  ToSet(srv'.list) \subseteq ToSet(srv.list)
    BY <1>0, <1>8, DistinctRemoved DEF ListInv
<1>9. CASE SrvRespondGone
    <2>1. srv.req \in ToSet(srv.list)
        BY <1>9 DEF SrvRespondGone, ListInv
    <2>2. srv'.qid = srv.qid /\ srv'.list = RemoveFirst(srv.list, srv.req)
        BY <1>0, <1>9 DEF SrvRespondGone, Del, ServerRecord
    <2> QED
        BY <1>8, <2>1, <2>2
<1>10. CASE SrvEventSend
    <2> DEFINE q == Head(srv.todo)
    <2>1. q \in ToSet(srv.list)
        BY <1>0, <1>10, DistinctTail DEF SrvEventSend, ListInv
    <2>2. srv'.qid = srv.qid
        BY <1>0, <1>10 DEF SrvEventSend, Del, ServerRecord
    <2>3. srv'.list = srv.list \/ srv'.list = RemoveFirst(srv.list, q)
        BY <1>0, <1>10 DEF SrvEventSend, Del, ServerRecord
    <2> HIDE DEF q
    <2> QED
        BY <1>8, <2>1, <2>2, <2>3
<1>11. CASE UNCHANGED serverVars
    BY <1>1, <1>11 DEF serverVars
<1>12. \/ UNCHANGED serverVars \/ SrvDestroy \/ SrvKilled \/ ServerStep
    BY DEF Next
<1> QED
    BY <1>2, <1>3, <1>4, <1>5, <1>6, <1>7, <1>9, <1>10, <1>11, <1>12 DEF ServerStep

LEMMA KeysInvStep ==
    ASSUME TypeInv, ListInv, QueueInv, Next
    PROVE  KeysInv'
<1> USE DEF QueueInv, TypeInv
<1>0. KernelStep
    BY KernelSteps
<1>1. /\ \A x \in KnownQids : x \in DOMAIN mq' => x \in DOMAIN mq
      /\ \A x \in DOMAIN mq : x \in DOMAIN mq' =>
            \A k \in Names : bound'[k] = x <=> bound[k] = x
    BY <1>0, Remembered
<1>2. \A k, l \in Names : bound'[k] = bound'[l] /\ bound'[k] # 0 => k = l
    BY <1>0, Remembered DEF KeysInv
<1>3. ASSUME NEW name \in Names, NEW q \in 1 .. MaxQid, GetQid(name, KnownQids, q)
      PROVE  bound'[name] = q
    BY <1>3, QueueFound DEF kernelVars, Created
<1>4. ASSUME NEW c \in Clients, Alive(c)'
      PROVE  /\ clt'[c].srvQ \in DOMAIN mq' => bound'[SrvName] = clt'[c].srvQ
             /\ clt'[c].eid \in DOMAIN mq' => bound'[KeyOf[c]] = clt'[c].eid
    <2>1. /\ clt[c].srvQ \in DOMAIN mq => bound[SrvName] = clt[c].srvQ
          /\ clt[c].eid \in DOMAIN mq => bound[KeyOf[c]] = clt[c].eid
          /\ clt[c].srvQ \in KnownQids /\ clt[c].eid \in KnownQids
        BY <1>4, ClientMemory, Known DEF KeysInv, Exists
    <2>2. KeyOf[c] \in Names /\ SrvName \in Names
        BY ClientNats
    <2>3. clt'[c].srvQ \in DOMAIN mq' => bound'[SrvName] = clt'[c].srvQ
        BY <1>1, <1>3, <1>4, <2>1, <2>2, ClientMemory
    <2>4. clt'[c].eid \in DOMAIN mq' => bound'[KeyOf[c]] = clt'[c].eid
        BY <1>1, <1>3, <1>4, <2>1, <2>2, ClientMemory
    <2> QED
        BY <2>3, <2>4
<1>5. srv'.qid \in DOMAIN mq' => bound'[SrvName] = srv'.qid
    <2>1. KernelType'
        BY TypeInvNext
    <2>2. 0 \notin DOMAIN mq' /\ SrvName \in Names
        BY <2>1, ClientNats DEF KernelType
    <2> QED
        BY <1>1, <1>3, <2>2, ServerMemory, Known DEF KeysInv, Exists
<1>6. ASSUME NEW q \in ToSet(srv'.list), q \in DOMAIN mq'
      PROVE  q # bound'[SrvName]
    <2>1. SrvName \in Names
        BY ClientNats
    <2>2. CASE q \in ToSet(srv.list)
        BY <1>1, <1>6, <2>1, <2>2, Known DEF KeysInv, Exists
    <2>3. CASE Gets(srv.qid, REG_TO_SERVER) /\ q = NextMsg(srv.qid, REG_TO_SERVER).xid
        <3> DEFINE f == First(srv.qid, REG_TO_SERVER)
                   m == mq[srv.qid][f]
        <3>1. /\ srv.qid \in DOMAIN mq /\ f \in 1 .. Len(mq[srv.qid])
              /\ m.type = REG_TO_SERVER /\ q = m.xid
            BY <2>3, FirstOfType DEF Gets, Exists, NextMsg, REG_TO_SERVER, ANY_MESSAGE
        <3>2. ForServer(m, DOMAIN mq, bound[SrvName])
            BY <3>1 DEF PackagesInv, KeysInv, Exists
        <3>3. q \in DOMAIN mq => q # bound[SrvName]
            BY <3>1, <3>2, PidsAssumption DEF ForServer, SEND_TO_SERVER, REG_TO_SERVER
        <3>4. q \in KnownQids
            BY <3>1, Known
        <3> QED
            BY <1>1, <1>6, <2>1, <3>3, <3>4
    <2> QED
        BY <1>6, <2>2, <2>3, ServerMemory
<1> QED
    BY <1>2, <1>4, <1>5, <1>6 DEF KeysInv, Exists, Alive, At

LEMMA PackagesInvStep ==
    ASSUME TypeInv, ListInv, QueueInv, Next, me <= me'
    PROVE  PackagesInv'
<1> USE DEF QueueInv, TypeInv
<1>0. KernelStep
    BY KernelSteps
<1>1. /\ \A x \in KnownQids : x \in DOMAIN mq' => x \in DOMAIN mq
      /\ \A x \in DOMAIN mq : x \in DOMAIN mq' => (bound'[SrvName] = x <=> bound[SrvName] = x)
    BY <1>0, Remembered, ClientNats
<1>2. SUFFICES ASSUME NEW q \in DOMAIN mq', NEW i \in 1 .. Len(mq'[q])
               PROVE  IF q = bound'[SrvName] THEN ForServer(mq'[q][i], DOMAIN mq', bound'[SrvName])
                      ELSE FromServer(mq'[q][i], me')
    BY DEF PackagesInv
<1>3. q \in DOMAIN mq /\ (bound'[SrvName] = q <=> bound[SrvName] = q)
    BY <1>0, <1>1, <1>2, Waiting
<1>4. CASE \E j \in 1 .. Len(mq[q]) : mq'[q][i] = mq[q][j]
    <2>1. PICK j \in 1 .. Len(mq[q]) : mq'[q][i] = mq[q][j]
        BY <1>4
    <2> DEFINE m == mq[q][j]
    <2>2. IF q = bound[SrvName] THEN ForServer(m, DOMAIN mq, bound[SrvName]) ELSE FromServer(m, me)
        BY <1>3 DEF PackagesInv
    <2>3. CASE q = bound[SrvName]
        <3>1. m.type = REG_TO_SERVER => m.xid \in KnownQids
            BY <1>3, Known
        <3>2. /\ m.type = REG_TO_SERVER /\ m.xid \in DOMAIN mq'
                    /\ (m.xid \in DOMAIN mq => m.xid # bound[SrvName])
                 => m.xid # bound'[SrvName]
            BY <1>1, <3>1
        <3> QED
            BY <1>3, <2>1, <2>2, <2>3, <3>2 DEF ForServer
    <2>4. CASE q # bound[SrvName]
        <3>1. FromServer(m, me)
            BY <2>2, <2>4
        <3>2. \A x \in ServerPids : x <= me => x <= me'
            BY TypeInvNext, ClientNats, ServerAssumption DEF ServerType, ServerPids
        <3> QED
            BY <1>3, <2>1, <2>4, <3>1, <3>2 DEF FromServer
    <2> QED
        BY <2>3, <2>4
<1>5. CASE Room(q) /\ MsgSnd(q, mq'[q][i]) /\ Sends(q, mq'[q][i])
    <2> DEFINE m == mq'[q][i]
    <2>0. DOMAIN mq' = DOMAIN mq /\ bound' = bound
        BY <1>5 DEF MsgSnd
    <2>1. ASSUME NEW c \in Clients, RequestSend(c), q = clt[c].srvQ,
                 m = Pkg(REG_TO_SERVER, clt[c].eid, 0, c, 0)
          PROVE  q = bound[SrvName] /\ ForServer(m, DOMAIN mq, bound[SrvName])
        <3>1. Alive(c)
            BY <2>1 DEF Alive, RequestSend, At
        <3>2. q = bound[SrvName]
            BY <1>3, <2>1, <3>1 DEF KeysInv, Exists
        <3>3. clt[c].eid \in DOMAIN mq => clt[c].eid # bound[SrvName]
            BY <1>3, <3>1, <3>2, ClientNats DEF KeysInv, Exists, KernelType
        <3> QED
            BY <2>1, <3>2, <3>3 DEF ForServer, Pkg
    <2>2. ASSUME NEW c \in Clients, SendOk(c), q = clt[c].srvQ,
                 m = Pkg(SEND_TO_SERVER, c, clt[c].len, c, hist[c].asked)
          PROVE  q = bound[SrvName] /\ ForServer(m, DOMAIN mq, bound[SrvName])
        <3>1. Alive(c) /\ At(c, "sending")
            BY <2>2 DEF Alive, SendOk, At
        <3>2. q = bound[SrvName] /\ hist[c].asked > 0
            BY <1>3, <2>2, <3>1 DEF KeysInv, ProcessInv, Exists
        <3> QED
            BY <2>2, <3>2 DEF ForServer, Pkg
    <2>3. ASSUME NEW len, SrvSend(len), q = srv.qid, m = Pkg(srv.pid, 0, len, cur.who, cur.n)
          PROVE  q = bound[SrvName] /\ ForServer(m, DOMAIN mq, bound[SrvName])
        <3>1. srv.pid \in Clients /\ cur.who = srv.pid /\ cur.n > 0
            BY <2>3 DEF SrvSend, ProcessInv
        <3> QED
            BY <1>3, <2>3, <3>1 DEF KeysInv, Exists, ForServer, Pkg
    <2>4. CASE SrvRespond /\ q = srv.req /\ m = Pkg(REG_TO_SERVER, me, 0, me, 0)
        <3>1. q # bound[SrvName]
            BY <1>3, <2>4 DEF SrvRespond, ListInv, KeysInv, Exists
        <3>2. me \in ServerPids /\ me <= me'
            BY <2>4 DEF SrvRespond, SrvAt, ProcessInv
        <3> QED
            BY <1>3, <2>4, <3>1, <3>2 DEF FromServer, Pkg
    <2>5. CASE SrvEventSend /\ q = Head(srv.todo) /\ m = Pkg(me, 0, srv.len, me, evt)
        <3>1. q \in ToSet(srv.list)
            BY <2>5, DistinctTail DEF SrvEventSend, ListInv, ServerType, ServerRecord
        <3>2. q # bound[SrvName]
            BY <1>3, <3>1 DEF KeysInv, Exists
        <3>3. me \in ServerPids /\ evt > 0
            BY <2>5 DEF SrvEventSend, SrvAt, ProcessInv
        <3> QED
            BY <1>3, <2>5, <3>2, <3>3 DEF FromServer, Pkg
    <2> HIDE DEF m
    <2>6. \/ q = bound[SrvName] /\ ForServer(m, DOMAIN mq, bound[SrvName])
          \/ SrvRespond /\ q = srv.req /\ m = Pkg(REG_TO_SERVER, me, 0, me, 0)
          \/ SrvEventSend /\ q = Head(srv.todo) /\ m = Pkg(me, 0, srv.len, me, evt)
        BY <1>5, <2>1, <2>2, <2>3 DEF Sends, m
    <2>7. (q = bound[SrvName] /\ ForServer(m, DOMAIN mq, bound[SrvName])) =>
              IF q = bound'[SrvName] THEN ForServer(m, DOMAIN mq', bound'[SrvName])
              ELSE FromServer(m, me')
        BY <2>0
    <2> QED
        BY <2>4, <2>5, <2>6, <2>7 DEF m
<1> QED
    BY <1>0, <1>2, <1>4, <1>5, Waiting

\* A private queue holds what servers sent, the server's queue what is for it.
LEMMA FirstPackage ==
    ASSUME TypeInv, KeysInv, PackagesInv, NEW type, NEW q, Gets(q, type)
    PROVE  /\ q = bound[SrvName] => ForServer(NextMsg(q, type), DOMAIN mq, bound[SrvName])
           /\ q # bound[SrvName] => FromServer(NextMsg(q, type), me)
           /\ type = ANY_MESSAGE \/ NextMsg(q, type).type = type
<1>1. /\ q \in DOMAIN mq /\ First(q, type) \in 1 .. Len(mq[q])
      /\ NextMsg(q, type) = mq[q][First(q, type)]
      /\ type = ANY_MESSAGE \/ NextMsg(q, type).type = type
    BY FirstOfType DEF Gets, Exists, TypeInv, NextMsg
<1> QED
    BY <1>1 DEF PackagesInv

\* A client's private queue, while it exists, is not the server's.
LEMMA PrivateQueue ==
    ASSUME TypeInv, KeysInv, NEW c \in Clients, Alive(c), Exists(clt[c].eid)
    PROVE  /\ bound[KeyOf[c]] = clt[c].eid /\ clt[c].eid # bound[SrvName]
           /\ clt[c].eid \in DOMAIN mq
<1>1. bound[KeyOf[c]] = clt[c].eid /\ clt[c].eid \in DOMAIN mq /\ clt[c].eid # 0
    BY DEF KeysInv, Exists, TypeInv, KernelType
<1> QED
    BY <1>1, ClientNats DEF KeysInv

LEMMA ServerPidFacts ==
    /\ ServerPids \subseteq Nat /\ 0 \notin ServerPids /\ Clients \cap ServerPids = {}
    /\ \A p \in Clients \cup ServerPids : p \notin {0, SEND_TO_SERVER, REG_TO_SERVER}
    /\ SrvPidBase + 1 \in ServerPids
    /\ \A p \in ServerPids : p < SrvPidBase + MaxStarts => p + 1 \in ServerPids
BY PidsAssumption, ServerAssumption DEF ServerPids, SEND_TO_SERVER, REG_TO_SERVER

\* What a client knows of servers, it has from a reply or an event.
LEMMA ClientPid ==
    ASSUME TypeInv, QueueInv, Next, NEW c \in Clients
    PROVE  /\ \/ clt'[c].pid = clt[c].pid \/ clt'[c].pid = 0
              \/ /\ RequestAnswered(c) /\ Alive(c) /\ Gets(clt[c].eid, ANY_MESSAGE)
                 /\ clt'[c].pid = NextMsg(clt[c].eid, ANY_MESSAGE).xid
                 /\ clt'[c].eid = clt[c].eid
           /\ clt'[c].eid = clt[c].eid \/ clt'[c].pid = 0
           /\ At(c, "sending")' =>
                 \/ At(c, "sending") /\ UNCHANGED hist[c]
                 \/ SendCall(c) /\ hist'[c].asked = hist[c].asked + 1
<1> USE DEF At, Goto
<1>0. /\ clt \in [Clients -> ClientRecord] /\ clt[c] \in ClientRecord
      /\ hist \in [Clients -> History] /\ hist[c] \in History
    BY DEF TypeInv, ClientType
<1>1. AfterBcast # "sending" /\ LoopTop # "sending"
    BY DEF AfterBcast, LoopTop
<1> DEFINE Effect(d) ==
        \/ /\ d # c /\ clt'[c] = clt[c] /\ hist'[c] = hist[c]
        \/ /\ d = c /\ RequestAnswered(c) /\ clt'[c].eid = clt[c].eid
           /\ clt'[c].pid = NextMsg(clt[c].eid, ANY_MESSAGE).xid /\ clt'[c].pc = "monitor"
        \/ /\ d = c /\ clt'[c].pid \in {clt[c].pid, 0} /\ clt'[c].pc # "sending"
           /\ clt'[c].eid = clt[c].eid \/ clt'[c].pid = 0
        \/ /\ d = c /\ SendCall(c) /\ clt'[c].pid = clt[c].pid /\ clt'[c].eid = clt[c].eid
           /\ hist'[c].asked = hist[c].asked + 1
<1>2. ASSUME NEW d \in Clients, ClientTurn(d)
      PROVE  Effect(d)
    <2>1. CASE CltInit(d) \/ RequestOpen(d)
        BY <1>0, <1>1, <2>1 DEF CltInit, RequestOpen, ClientRecord
    <2>2. CASE RequestKnown(d) \/ RequestSend(d) \/ RequestRefused(d) \/ RequestTimeout(d)
        BY <1>0, <1>1, <2>2 DEF RequestKnown, RequestSend, RequestRefused, RequestTimeout, ClientRecord
    <2>3. CASE RequestAnswered(d)
        BY <1>0, <1>1, <2>3 DEF RequestAnswered, ServerPid, ClientRecord
    <2>4. CASE MonitorEvent(d)
        <3>1. clt' = [clt EXCEPT ![d].pc = AfterBcast]
            BY <2>4 DEF MonitorEvent
        <3>2. d # c => hist'[c] = hist[c]
            <4> DEFINE h == IF clt[d].hand /\ NextMsg(clt[d].eid, ANY_MESSAGE).n > 0
                           THEN [hist EXCEPT ![d].handled = NextMsg(clt[d].eid, ANY_MESSAGE).n]
                           ELSE hist
            <4>1. hist' = h
                BY <2>4 DEF MonitorEvent
            <4>2. d # c => h[c] = hist[c]
                BY <1>0
            <4> HIDE DEF h
            <4> QED
                BY <4>1, <4>2
        <3> QED
            BY <1>0, <1>1, <3>1, <3>2 DEF ClientRecord
    <2>5. CASE MonitorError(d)
        BY <1>0, <1>1, <2>5 DEF MonitorError, ForgetServer, ClientRecord
    <2>6. CASE MonitorTimeout(d)
        BY <1>0, <1>1, <2>6 DEF MonitorTimeout, ForgetServer, ClientRecord
    <2>7. CASE AskLater(d) \/ SendOk(d) \/ SendError(d)
        BY <1>0, <1>1, <2>7 DEF AskLater, SendOk, SendError, ClientRecord
    <2>8. CASE RecvOk(d) \/ RecvMiss(d)
        BY <1>0, <1>1, <2>8 DEF RecvOk, RecvMiss, ClientRecord
    <2>9. CASE SendCall(d)
        <3>1. PICK len \in AskLens : clt' = [clt EXCEPT ![d].pc = "sending", ![d].len = len]
            BY <2>9 DEF SendCall
        <3>2. hist' = [hist EXCEPT ![d].asked = @ + 1]
            BY <2>9 DEF SendCall
        <3>3. hist'[d].asked = hist[d].asked + 1 /\ (d # c => hist'[c] = hist[c])
            BY <1>0, <3>2 DEF History
        <3>4. clt'[d].pid = clt[d].pid /\ clt'[d].eid = clt[d].eid /\ (d # c => clt'[c] = clt[c])
            BY <1>0, <3>1 DEF ClientRecord
        <3> QED
            BY <2>9, <3>3, <3>4
    <2>10. \/ CltInit(d) \/ RequestOpen(d)
           \/ RequestKnown(d) \/ RequestSend(d) \/ RequestRefused(d) \/ RequestAnswered(d)
           \/ RequestTimeout(d) \/ MonitorEvent(d) \/ MonitorError(d) \/ MonitorTimeout(d)
           \/ AskLater(d) \/ SendOk(d) \/ SendError(d) \/ RecvOk(d) \/ RecvMiss(d) \/ SendCall(d)
        BY <1>2 DEF ClientTurn, ClientStep
    <2> HIDE DEF Effect
    <2> QED
        BY <2>1, <2>2, <2>3, <2>4, <2>5, <2>6, <2>7, <2>8, <2>9, <2>10
<1>3. ASSUME NEW d \in Clients, CltDestroy(d) \/ CltKilled(d)
      PROVE  Effect(d)
    <2>1. clt' = [clt EXCEPT ![d].pc = "dead"] /\ hist' = hist
        BY <1>3 DEF CltDestroy, CltKilled
    <2> QED
        BY <1>0, <2>1 DEF ClientRecord
<1>4. RequestAnswered(c) => Alive(c) /\ Gets(clt[c].eid, ANY_MESSAGE)
    BY DEF RequestAnswered, Alive
<1>5. UNCHANGED clientVars \/ \E d \in Clients : Effect(d)
    BY <1>2, <1>3 DEF Next
<1> QED
    BY <1>4, <1>5 DEF clientVars

LEMMA ServerPidsStep ==
    ASSUME TypeInv, ProcessInv, Next
    PROVE  me' \in {0} \cup ServerPids /\ me' \in Nat /\ me <= me' /\ (SrvStart \/ me' = me)
<1>0. me \in Nat /\ SrvPidBase \in Nat /\ me \in {0} \cup ServerPids
    BY ClientNats DEF ProcessInv, TypeInv, ServerType
<1>1. CASE SrvStart
    <2>1. me < SrvPidBase + MaxStarts /\ me' = IF me = 0 THEN SrvPidBase + 1 ELSE me + 1
        BY <1>1 DEF SrvStart
    <2>2. CASE me = 0
        BY <1>0, <1>1, <2>1, <2>2, ServerPidFacts
    <2>3. CASE me # 0
        <3>1. me' = me + 1 /\ me \in ServerPids
            BY <1>0, <2>1, <2>3
        <3>2. me + 1 \in ServerPids
            BY <2>1, <3>1, ServerPidFacts
        <3> QED
            BY <1>0, <1>1, <3>1, <3>2
    <2> QED
        BY <2>2, <2>3
<1>2. SrvStart \/ me' = me
    BY DEF Next, ServerStep, serverVars, SrvDestroy, SrvKilled, SrvClear, ClearTurn, SrvClearDone, SrvRecv,
           SrvRecvBusy, SrvRecvMiss, SrvSend, SrvSendRefused, MonReqAdmit, MonReqFull, MonReqMiss,
           SrvRespond, SrvRespondGone, SrvEventSkip, SrvEventStart, SrvEventSend, SrvEventEnd
<1>3. CASE me' = me
    BY <1>0, <1>3
<1> QED
    BY <1>1, <1>2, <1>3

LEMMA ProcessInvStep ==
    ASSUME TypeInv, QueueInv, Next
    PROVE  ProcessInv'
<1> USE DEF QueueInv, SrvAt, SrvGoto
<1>0. /\ srv \in ServerRecord /\ me \in Nat /\ evt \in Nat /\ cur \in [who : Nat, n : Nat]
      /\ me' \in {0} \cup ServerPids /\ me <= me' /\ (SrvStart \/ me' = me) /\ me' \in Nat
    BY ServerPidsStep DEF TypeInv, ServerType
<1>1. ASSUME NEW c \in Clients
      PROVE  /\ clt'[c].pid \in {0} \cup ServerPids /\ clt'[c].pid <= me'
             /\ At(c, "sending")' => hist'[c].asked > 0
    <2>0. clt[c] \in ClientRecord
        BY DEF TypeInv, ClientType
    <2>1. clt[c].pid \in {0} \cup ServerPids /\ clt[c].pid <= me /\ clt[c].pid \in Nat
        BY <2>0 DEF ProcessInv, ClientRecord
    <2>2. ASSUME Alive(c), Gets(clt[c].eid, ANY_MESSAGE)
          PROVE  /\ NextMsg(clt[c].eid, ANY_MESSAGE).xid \in {0} \cup ServerPids
                 /\ NextMsg(clt[c].eid, ANY_MESSAGE).xid <= me
        <3>1. FromServer(NextMsg(clt[c].eid, ANY_MESSAGE), me)
            BY <2>2, FirstPackage, PrivateQueue DEF Gets
        <3> QED
            BY <1>0, <3>1 DEF FromServer
    <2>3. clt'[c].pid \in {0} \cup ServerPids /\ clt'[c].pid <= me
        BY <1>0, <2>1, <2>2, ClientPid
    <2>4. At(c, "sending")' => hist'[c].asked > 0
        BY ClientPid DEF ProcessInv, TypeInv, ClientType, History
    <2>5. clt'[c].pid \in Nat
        <3>1. \A x \in {0} \cup ServerPids : x \in Nat
            BY ServerPidFacts
        <3> QED
            BY <2>3, <3>1
    <2>6. clt'[c].pid <= me'
        BY <1>0, <2>3, <2>5
    <2> QED
        BY <2>3, <2>4, <2>6
<1>2. CASE UNCHANGED serverVars
    BY <1>0, <1>1, <1>2 DEF serverVars, ProcessInv
<1> DEFINE Held == /\ srv'.pid # 0 => srv'.pid \in Clients /\ cur'.who = srv'.pid /\ cur'.n > 0
                   /\ srv'.pc = "ack" => srv'.pid # 0
                   /\ srv'.pc = "bcast" => evt' > 0
                   /\ srv'.pc # "down" => me' # 0
<1>3. Recv # "ack" /\ Recv # "bcast" /\ AfterAsk # "ack" /\ AfterAsk # "bcast"
    BY DEF Recv, AfterAsk
<1>4. ASSUME SrvStart \/ SrvDestroy \/ SrvKilled
      PROVE  Held
    <2>1. CASE SrvStart
        <3>1. me' # 0
            <4>1. me' = (IF me = 0 THEN SrvPidBase + 1 ELSE me + 1) /\ SrvPidBase \in Nat
                BY <2>1, ClientNats DEF SrvStart
            <4> QED
                BY <1>0, <4>1
        <3>2. srv'.pid = 0 /\ srv'.pc = "clear"
            BY <2>1 DEF SrvStart, NewSrv
        <3> QED
            BY <3>1, <3>2
    <2>2. CASE SrvDestroy \/ SrvKilled
        BY <2>2 DEF SrvDestroy, SrvKilled, NewSrv
    <2> QED
        BY <1>4, <2>1, <2>2
<1>5. ASSUME SrvClear
      PROVE  Held
    BY <1>5 DEF SrvClear, ClearTurn, serverVars, ProcessInv
<1>6. ASSUME SrvClearDone \/ SrvRecvBusy \/ SrvRecvMiss \/ MonReqFull \/ MonReqMiss \/ SrvRespond
           \/ SrvEventSkip \/ SrvEventEnd
      PROVE  Held
    BY <1>0, <1>3, <1>6 DEF SrvClearDone, SrvRecvBusy, SrvRecvMiss, MonReqFull, MonReqMiss, SrvRespond,
                            SrvEventSkip, SrvEventEnd, ServerRecord, ProcessInv
<1>7. ASSUME SrvRecv
      PROVE  Held
    <2> DEFINE m == NextMsg(srv.qid, SEND_TO_SERVER)
    <2>1. ForServer(m, DOMAIN mq, bound[SrvName]) /\ m.type = SEND_TO_SERVER
        BY <1>7, FirstPackage DEF SrvRecv, Gets, KeysInv, SEND_TO_SERVER, ANY_MESSAGE
    <2>2. /\ srv' = [srv EXCEPT !.pc = "ack", !.pid = m.xid] /\ me' = me
          /\ cur' = [who |-> m.who, n |-> m.n] /\ srv.pc = "recv"
        BY <1>7 DEF SrvRecv
    <2> HIDE DEF m
    <2>3. m.xid \in Clients /\ m.who = m.xid /\ m.n > 0 /\ m.xid # 0
        BY <2>1, ServerPidFacts DEF ForServer, SEND_TO_SERVER, REG_TO_SERVER
    <2> QED
        BY <1>0, <2>2, <2>3 DEF ServerRecord, ProcessInv
<1>8. ASSUME NEW len, SrvSend(len) \/ SrvSendRefused(len)
      PROVE  Held
    BY <1>0, <1>3, <1>8 DEF SrvSend, SrvSendRefused, Answered, ServerRecord, ProcessInv
<1>9. ASSUME MonReqAdmit
      PROVE  Held
    <2> DEFINE q == NextMsg(srv.qid, REG_TO_SERVER).xid
    <2>1. /\ srv' = [Add(srv, q) EXCEPT !.pc = "respond", !.req = q] /\ srv.pc = "monreq"
          /\ me' = me /\ cur' = cur
        BY <1>9 DEF MonReqAdmit
    <2> HIDE DEF q
    <2>2. srv'.pid = srv.pid /\ srv'.pc = "respond"
        BY <1>0, <2>1 DEF Add, ServerRecord
    <2> QED
        BY <2>1, <2>2 DEF ProcessInv
<1>10. ASSUME SrvRespondGone \/ SrvEventSend
      PROVE  Held
    <2>1. /\ srv'.pid = srv.pid /\ srv'.pc \in {"event", srv.pc} /\ srv.pc # "down" /\ srv.pc # "ack"
          /\ cur' = cur /\ me' = me /\ evt' = evt
        BY <1>0, <1>10 DEF SrvRespondGone, SrvEventSend, Del, ServerRecord
    <2> QED
        BY <2>1 DEF ProcessInv
<1>11. ASSUME NEW len, SrvEventStart(len)
       PROVE  Held
    BY <1>0, <1>11 DEF SrvEventStart, ServerRecord, ProcessInv
<1> HIDE DEF Held
<1>12. ASSUME ServerStep \/ SrvDestroy \/ SrvKilled
       PROVE  Held
    BY <1>4, <1>5, <1>6, <1>7, <1>8, <1>9, <1>10, <1>11, <1>12 DEF ServerStep
<1> QED
    BY <1>0, <1>1, <1>2, <1>12 DEF Held, Next, ProcessInv, At
LEMMA QueueInvInit == Init => QueueInv
BY ServerPidFacts DEF Init, KernelInit, ClientInit, ServerInit, NewSrv, QueueInv, KeysInv, PackagesInv,
                      ProcessInv, Exists, SrvAt, At, ToSet, Alive

LEMMA QueueInvNext == TypeInv /\ ListInv /\ QueueInv /\ [Next]_vars => QueueInv'
<1>1. ASSUME TypeInv, ListInv, QueueInv, Next
      PROVE  QueueInv'
    <2>1. me <= me'
        BY <1>1, ServerPidsStep DEF QueueInv
    <2> QED
        BY <1>1, <2>1, KeysInvStep, PackagesInvStep, ProcessInvStep DEF QueueInv
<1>2. ASSUME QueueInv, UNCHANGED vars
      PROVE  QueueInv'
    BY <1>2 DEF vars, kernelVars, clientVars, serverVars, QueueInv, KeysInv, PackagesInv, ProcessInv,
                Exists, SrvAt, At, Alive
<1> QED
    BY <1>1, <1>2

LEMMA QueueInvariant == Spec => []QueueInv
BY QueueInvInit, QueueInvNext, TypeInvariant, ListInvariant, PTL DEF Spec

\* Only packages of the protocol wait on queues that keys lead to, no queue is
\* over its limit, and each process holds ids and pids of its peers' kind.
THEOREM TypeCorrect == Spec => []TypeOK
<1>1. TypeInv /\ ListInv /\ QueueInv => TypeOK
    <2> SUFFICES ASSUME TypeInv, ListInv, QueueInv
                 PROVE  TypeOK
        OBVIOUS
    <2> USE DEF TypeInv, QueueInv
    <2>1. \A e \in Queued : MsgAt(e).type \in MsgTypes
        <3> SUFFICES ASSUME NEW e \in Queued
                     PROVE  MsgAt(e).type \in MsgTypes
            OBVIOUS
        <3>1. e[1] \in DOMAIN mq /\ e[2] \in 1 .. Len(mq[e[1]])
            BY DEF Queued, KernelType
        <3>2. \/ ForServer(mq[e[1]][e[2]], DOMAIN mq, bound[SrvName])
              \/ FromServer(mq[e[1]][e[2]], me)
            BY <3>1 DEF PackagesInv
        <3> QED
            BY <3>2 DEF MsgAt, MsgTypes, ForServer, FromServer
    <2>2. \A c \in Clients : /\ clt[c].pc \in ClientPcs /\ clt[c].pid \in {0} \cup ServerPids
                             /\ clt[c].srvQ <= MaxQid /\ clt[c].eid <= MaxQid
        BY KernelAssumption DEF ClientType, ClientRecord, ProcessInv
    <2>3. srv.pc \in ServerPcs /\ srv.pid \in {0} \cup Clients /\ me \in {0} \cup ServerPids
        BY DEF ServerType, ServerRecord, ProcessInv
    <2> QED
        BY <2>1, <2>2, <2>3 DEF TypeOK, KernelType
<1> QED
    BY <1>1, TypeInvariant, ListInvariant, QueueInvariant, PTL

-----------------------------------------------------------------------------
(* Registrations *)

\* A reply of the running server waits only for a client on its list.
RepliedIsListed ==
    ~SrvAt("down") =>
        \A q \in DOMAIN mq : \A i \in 1 .. Len(mq[q]) :
            (q # bound[SrvName] /\ mq[q][i].type = REG_TO_SERVER /\ mq[q][i].xid = me)
                => q \in ToSet(srv.list)

\* A running server keeps on its list every queue that exists.
LEMMA ListKept ==
    ASSUME TypeInv, ListInv, QueueInv, Next
    PROVE  \/ SrvAt("down")'
           \/ SrvAt("down") /\ me' > me
           \/ /\ ~SrvAt("down") /\ me' = me
              /\ \A x \in ToSet(srv.list) : Exists(x) => x \in ToSet(srv'.list)
<1> USE DEF TypeInv, ServerType, SrvAt, SrvGoto
<1> DEFINE Kept == /\ srv.pc # "down" /\ me' = me
                   /\ \A x \in ToSet(srv.list) : Exists(x) => x \in ToSet(srv'.list)
           Effect == srv'.pc = "down" \/ (srv.pc = "down" /\ me' > me) \/ Kept
<1>0. me \in Nat /\ SrvPidBase \in Nat /\ srv \in ServerRecord
    BY ClientNats
<1>1. ASSUME SrvStart
      PROVE  Effect
    BY <1>0, <1>1 DEF SrvStart
<1>2. ASSUME SrvDestroy \/ SrvKilled
      PROVE  Effect
    BY <1>2 DEF SrvDestroy, SrvKilled, NewSrv
<1>3. ASSUME SrvClear
      PROVE  Effect
    BY <1>3 DEF SrvClear, ClearTurn, serverVars
<1>4. ASSUME SrvClearDone
      PROVE  Effect
    <2>1. srv.pc = "clear" /\ me' = me /\ srv.list = <<>>
        BY <1>4 DEF SrvClearDone, ListInv
    <2>2. \A x : x \notin ToSet(srv.list)
        BY <2>1 DEF ToSet
    <2> QED
        BY <2>1, <2>2
<1>5. ASSUME \/ SrvRecv \/ SrvRecvBusy \/ SrvRecvMiss \/ MonReqFull \/ MonReqMiss
             \/ SrvRespond \/ SrvEventSkip \/ SrvEventEnd
             \/ \E len \in ReplyLens : SrvSend(len) \/ SrvSendRefused(len)
             \/ \E len \in EventLens : SrvEventStart(len)
      PROVE  Effect
    BY <1>0, <1>5 DEF SrvRecv, SrvRecvBusy, SrvRecvMiss, MonReqFull, MonReqMiss, SrvRespond,
         SrvEventSkip, SrvEventEnd, SrvSend, SrvSendRefused, SrvEventStart, Answered, ServerRecord
<1>6. ASSUME MonReqAdmit
      PROVE  Effect
    <2> DEFINE q == NextMsg(srv.qid, REG_TO_SERVER).xid
    <2>1. /\ srv' = [Add(srv, q) EXCEPT !.pc = "respond", !.req = q] /\ srv.pc = "monreq"
          /\ me' = me /\ q \in Nat
        BY <1>6, Received DEF MonReqAdmit, Package
    <2> HIDE DEF q
    <2>2. srv'.list = Add(srv, q).list
        BY <1>0, <2>1, ListTypes DEF ServerRecord
    <2>3. Add(srv, q).list = srv.list \/ Add(srv, q).list = Append(srv.list, q)
        BY <1>0 DEF Add, ServerRecord
    <2>4. ToSet(Append(srv.list, q)) = ToSet(srv.list) \cup {q} \/ q \in ToSet(srv.list)
        BY <1>0, <2>1, DistinctAppended DEF ServerRecord, ListInv
    <2>5. q \in ToSet(srv.list) => Add(srv, q).list = srv.list
        BY DEF Add
    <2> QED
        BY <2>1, <2>2, <2>3, <2>4, <2>5
<1>7. ASSUME SrvRespondGone \/ SrvEventSend
      PROVE  Effect
    <2>1. PICK q \in ToSet(srv.list) :
             /\ srv.pc # "down" /\ me' = me
             /\ \/ srv'.list = srv.list
                \/ ~Exists(q) /\ srv'.list = RemoveFirst(srv.list, q)
        <3>1. CASE SrvRespondGone
            BY <1>0, <3>1 DEF SrvRespondGone, Del, ServerRecord, ListInv
        <3>2. CASE SrvEventSend
            <4>1. Head(srv.todo) \in ToSet(srv.list)
                BY <1>0, <3>2, DistinctTail DEF SrvEventSend, ListInv, ServerRecord
            <4> QED
                BY <1>0, <3>2, <4>1 DEF SrvEventSend, Undeliverable, Del, ServerRecord
        <3> QED
            BY <1>7, <3>1, <3>2
    <2>2. ToSet(RemoveFirst(srv.list, q)) = ToSet(srv.list) \ {q}
        BY <1>0, DistinctRemoved DEF ServerRecord, ListInv
    <2> QED
        BY <2>1, <2>2
<1>8. ASSUME UNCHANGED serverVars
      PROVE  Effect
    BY <1>8 DEF serverVars
<1> HIDE DEF Effect
<1>9. Effect
    BY <1>1, <1>2, <1>3, <1>4, <1>5, <1>6, <1>7, <1>8 DEF Next, ServerStep
<1> QED
    BY <1>9 DEF Effect

LEMMA RepliedStep ==
    ASSUME TypeInv, ListInv, QueueInv, RepliedIsListed, Next
    PROVE  RepliedIsListed'
<1> USE DEF QueueInv, TypeInv
<1>0. KernelStep /\ me \in Nat
    BY KernelSteps DEF ServerType
<1>1. SUFFICES ASSUME ~SrvAt("down")', NEW q \in DOMAIN mq', NEW i \in 1 .. Len(mq'[q]),
                      q # bound'[SrvName], mq'[q][i].type = REG_TO_SERVER, mq'[q][i].xid = me'
               PROVE  q \in ToSet(srv'.list)
    BY DEF RepliedIsListed
<1>2. q \in DOMAIN mq /\ q # bound[SrvName]
    BY <1>0, <1>1, Remembered, Waiting, ClientNats
<1>3. CASE \E j \in 1 .. Len(mq[q]) : mq'[q][i] = mq[q][j]
    <2>1. PICK j \in 1 .. Len(mq[q]) : mq'[q][i] = mq[q][j]
        BY <1>3
    <2>2. FromServer(mq[q][j], me)
        BY <1>2 DEF PackagesInv
    <2>3. me' <= me
        BY <1>1, <2>1, <2>2, ServerPidFacts DEF FromServer
    <2>4. ~SrvAt("down") /\ me' = me
        BY <1>0, <1>1, <2>3, ListKept, ServerPidsStep
    <2>5. q \in ToSet(srv.list)
        BY <1>1, <1>2, <2>1, <2>4 DEF RepliedIsListed
    <2> QED
        BY <1>0, <1>1, <1>2, <2>4, <2>5, ListKept DEF Exists
<1>4. CASE Sends(q, mq'[q][i])
    <2>1. ASSUME NEW c \in Clients, RequestSend(c), q = clt[c].srvQ
          PROVE  FALSE
        BY <1>2, <2>1 DEF KeysInv, Exists, RequestSend, Alive, At
    <2>2. ASSUME NEW len, SrvSend(len), q = srv.qid
          PROVE  FALSE
        BY <1>2, <2>2 DEF KeysInv, Exists
    <2>3. ~SrvEventSend \/ me # REG_TO_SERVER
        BY ServerPidFacts DEF ProcessInv, SrvEventSend, SrvAt
    <2>4. SrvRespond /\ q = srv.req
        <3>1. ASSUME NEW c \in Clients,
                     mq'[q][i] = Pkg(SEND_TO_SERVER, c, clt[c].len, c, hist[c].asked)
              PROVE  FALSE
            BY <1>1, <3>1 DEF Pkg, SEND_TO_SERVER, REG_TO_SERVER
        <3>2. mq'[q][i] = Pkg(me, 0, srv.len, me, evt) => me = REG_TO_SERVER
            BY <1>1 DEF Pkg
        <3> QED
            BY <1>4, <2>1, <2>2, <2>3, <3>1, <3>2 DEF Sends
    <2>5. ~SrvAt("down") /\ q \in ToSet(srv.list)
        BY <2>4 DEF SrvRespond, ListInv, SrvAt
    <2> QED
        BY <1>1, <1>2, <2>5, ListKept DEF Exists
<1> QED
    BY <1>0, <1>1, <1>3, <1>4, Waiting

LEMMA RegisteredStep ==
    ASSUME TypeInv, ListInv, QueueInv, RepliedIsListed, RegisteredIsListed, Next
    PROVE  RegisteredIsListed'
<1> USE DEF QueueInv, TypeInv
<1>0. KernelStep /\ me \in Nat
    BY KernelSteps DEF ServerType
<1>1. SUFFICES ASSUME NEW c \in Clients, ~SrvAt("down")', Alive(c)', clt'[c].pid = me',
                      clt'[c].eid \in DOMAIN mq'
               PROVE  clt'[c].eid \in ToSet(srv'.list)
    BY DEF RegisteredIsListed, Alive, At, Exists
<1>2. me' # 0 /\ clt'[c].eid = clt[c].eid /\ Alive(c)
    BY <1>1, ProcessInvStep, ClientPid, ClientMemory DEF ProcessInv
<1>3. clt[c].eid \in DOMAIN mq
    BY <1>0, <1>1, <1>2, Remembered, Known
<1>4. CASE clt'[c].pid = clt[c].pid
    <2>1. me' <= me
        BY <1>1, <1>4 DEF ProcessInv
    <2>2. ~SrvAt("down") /\ me' = me
        BY <1>0, <1>1, <2>1, ListKept, ServerPidsStep
    <2>3. clt[c].eid \in ToSet(srv.list)
        BY <1>1, <1>2, <1>3, <1>4, <2>2 DEF RegisteredIsListed, Alive, At, Exists
    <2> QED
        BY <1>0, <1>1, <1>2, <1>3, <2>2, <2>3, ListKept DEF Exists
<1>5. CASE Gets(clt[c].eid, ANY_MESSAGE) /\ clt'[c].pid = NextMsg(clt[c].eid, ANY_MESSAGE).xid
    <2> DEFINE m == NextMsg(clt[c].eid, ANY_MESSAGE)
    <2>1. FromServer(m, me) /\ clt[c].eid # bound[SrvName]
        BY <1>2, <1>3, <1>5, FirstPackage, PrivateQueue DEF Exists
    <2>2. m = mq[clt[c].eid][First(clt[c].eid, ANY_MESSAGE)]
          /\ First(clt[c].eid, ANY_MESSAGE) \in 1 .. Len(mq[clt[c].eid])
        BY <1>3, <1>5, FirstOfType DEF Gets, NextMsg
    <2>3. m.type = REG_TO_SERVER /\ me' <= me
        BY <1>1, <1>2, <1>5, <2>1 DEF FromServer
    <2>4. ~SrvAt("down") /\ me' = me
        BY <1>0, <1>1, <2>3, ListKept, ServerPidsStep
    <2>5. clt[c].eid \in ToSet(srv.list)
        BY <1>1, <1>3, <1>5, <2>1, <2>2, <2>3, <2>4 DEF RepliedIsListed
    <2> QED
        BY <1>0, <1>1, <1>2, <1>3, <2>4, <2>5, ListKept DEF Exists
<1> QED
    BY <1>1, <1>2, <1>4, <1>5, ClientPid

\* A client that has the running server's pid, and whose private queue exists,
\* is on that server's list: the only reply with that pid comes after msgQ_srv_add,
\* only the failure on a queue that is gone removes an entry, and no queue id or
\* server pid is used again.
THEOREM ClientsAreListed == Spec => []RegisteredIsListed
<1> DEFINE Inv == RepliedIsListed /\ RegisteredIsListed
<1>1. Init => Inv
    BY DEF Init, ServerInit, NewSrv, SrvAt, RepliedIsListed, RegisteredIsListed
<1>2. TypeInv /\ ListInv /\ QueueInv /\ Inv /\ [Next]_vars => Inv'
    <2>1. ASSUME Inv, UNCHANGED vars
          PROVE  Inv'
        BY <2>1 DEF vars, kernelVars, clientVars, serverVars, RepliedIsListed, RegisteredIsListed,
                    SrvAt, Exists
    <2> QED
        BY <2>1, RepliedStep, RegisteredStep
<1>3. Inv => RegisteredIsListed
    OBVIOUS
<1> HIDE DEF Inv
<1> QED
    BY <1>1, <1>2, <1>3, TypeInvariant, ListInvariant, QueueInvariant, PTL DEF Spec

-----------------------------------------------------------------------------
(* Questions and answers *)

\* The number of the last question client c has sent, or given up sending.
LastSent(c) == IF At(c, "sending") THEN hist[c].asked - 1 ELSE hist[c].asked

Question(m, c) == m.type = SEND_TO_SERVER /\ m.who = c
Answer(m, c) == m.type = c

\* All that is left on queues Q of the questions of c is on one queue, home,
\* numbered above got, and up to last.  Answers are in order, and before
\* the questions, which are in order.
Trace(c, Q, home, got, last) ==
    \A q \in DOMAIN Q : \A i, j \in 1 .. Len(Q[q]) :
        /\ Question(Q[q][i], c) \/ Answer(Q[q][i], c) =>
              q = home /\ got < Q[q][i].n /\ Q[q][i].n <= last
        /\ i < j /\ Question(Q[q][i], c) /\ Question(Q[q][j], c) => Q[q][i].n < Q[q][j].n
        /\ i < j /\ Answer(Q[q][i], c) /\ Answer(Q[q][j], c) => Q[q][i].n < Q[q][j].n
        /\ Answer(Q[q][i], c) /\ Question(Q[q][j], c) => Q[q][i].n < Q[q][j].n

\* The question that the server holds, number n, is between them.
Held(c, Q, home, got, last, qid, n) ==
    /\ qid = home /\ got < n /\ n <= last
    /\ \A q \in DOMAIN Q : \A i \in 1 .. Len(Q[q]) :
          /\ Question(Q[q][i], c) => n < Q[q][i].n
          /\ Answer(Q[q][i], c) => Q[q][i].n < n

AskInv ==
    \A c \in Clients :
        /\ hist[c].got <= LastSent(c)
        /\ At(c, "off") => hist[c].asked = 0
        /\ Trace(c, mq, clt[c].srvQ, hist[c].got, LastSent(c))
        /\ srv.pid = c =>
              Held(c, mq, clt[c].srvQ, hist[c].got, LastSent(c), srv.qid, cur.n)

\* Queues R are queues Q with package m put at the end of queue q.
Grown(Q, R, q, m) ==
    /\ q \in DOMAIN Q /\ DOMAIN R = DOMAIN Q
    /\ \A x \in DOMAIN Q : x # q => R[x] = Q[x]
    /\ Len(Q[q]) \in Nat /\ Len(R[q]) = Len(Q[q]) + 1
    /\ \A i \in 1 .. Len(Q[q]) : R[q][i] = Q[q][i]
    /\ R[q][Len(Q[q]) + 1] = m

Numbered(Q) == \A q \in DOMAIN Q : \A i \in 1 .. Len(Q[q]) : Q[q][i].n \in Nat

LEMMA PackagesNumbered == KernelType => Numbered(mq)
<1> SUFFICES ASSUME KernelType, NEW q \in DOMAIN mq, NEW i \in 1 .. Len(mq[q])
             PROVE  mq[q][i].n \in Nat
    BY DEF Numbered
<1>1. mq[q] \in Seq(Package)
    BY DEF KernelType
<1>2. mq[q][i] \in Package
    BY <1>1, ElementOfSeq
<1> QED
    BY <1>2 DEF Package

\* Queues R hold what queues Q hold, or less of it, in the same order.
Matched(Q, R, q, i, j) ==
    /\ q \in DOMAIN Q
    /\ \E k, l \in 1 .. Len(Q[q]) :
          R[q][i] = Q[q][k] /\ R[q][j] = Q[q][l] /\ (i < j => k < l)
Thinned(Q, R) ==
    \A q \in DOMAIN R : \A i, j \in 1 .. Len(R[q]) : Matched(Q, R, q, i, j)

LEMMA ThinnedPair ==
    ASSUME NEW Q, NEW R, Thinned(Q, R), NEW q \in DOMAIN R,
           NEW i \in 1 .. Len(R[q]), NEW j \in 1 .. Len(R[q])
    PROVE  /\ q \in DOMAIN Q
           /\ \E k, l \in 1 .. Len(Q[q]) :
                 R[q][i] = Q[q][k] /\ R[q][j] = Q[q][l] /\ (i < j => k < l)
<1>1. Matched(Q, R, q, i, j)
    BY DEF Thinned
<1> QED
    BY <1>1 DEF Matched

LEMMA ThinnedElement ==
    ASSUME NEW Q, NEW R, Thinned(Q, R), NEW q \in DOMAIN R, NEW i \in 1 .. Len(R[q])
    PROVE  q \in DOMAIN Q /\ \E k \in 1 .. Len(Q[q]) : R[q][i] = Q[q][k]
<1>1. Matched(Q, R, q, i, i)
    BY DEF Thinned
<1> QED
    BY <1>1 DEF Matched

\* msgrcv thins the queues.
LEMMA ReceivedThinned ==
    ASSUME KernelType, NEW q, NEW type, Gets(q, type), MsgRcv(q, type)
    PROVE  Thinned(mq, mq')
<1> DEFINE f == First(q, type)
<1>1. f \in 1 .. Len(mq[q]) /\ DOMAIN mq' = DOMAIN mq
    BY Received
<1>2. \A x \in DOMAIN mq : Len(mq[x]) \in Nat /\ Len(mq'[x]) \in Nat
    BY Received, LenProperties DEF KernelType
<1>3. ASSUME NEW x \in DOMAIN mq, NEW j \in 1 .. Len(mq'[x])
      PROVE  Before(q, f, x, j) \in 1 .. Len(mq[x]) /\ mq'[x][j] = mq[x][Before(q, f, x, j)]
    BY Received
<1>4. ASSUME NEW x \in DOMAIN mq, NEW i \in 1 .. Len(mq'[x]), NEW j \in 1 .. Len(mq'[x]), i < j
      PROVE  Before(q, f, x, i) < Before(q, f, x, j)
    BY <1>1, <1>2, <1>4 DEF Before
<1> HIDE DEF f
<1> QED
    BY <1>1, <1>3, <1>4 DEF Thinned, Matched

\* A step sends a package, or thins the queues.
LEMMA SentOrThinned ==
    ASSUME KernelType, KernelStep
    PROVE  \/ Thinned(mq, mq')
           \/ \E q \in DOMAIN mq, m \in Package : Room(q) /\ MsgSnd(q, m) /\ Sends(q, m)
<1>1. CASE UNCHANGED kernelVars
    BY <1>1 DEF kernelVars, Thinned, Matched
<1>2. ASSUME NEW q \in Nat, NEW type \in Nat, Gets(q, type), MsgRcv(q, type)
      PROVE  Thinned(mq, mq')
    BY <1>2, ReceivedThinned
<1>3. ASSUME NEW q \in Nat, RmId(q)
      PROVE  Thinned(mq, mq')
    BY <1>3, QueueRemoved DEF Thinned, Matched
<1>4. ASSUME NEW name \in Names, NEW q \in 1 .. MaxQid, GetQid(name, KnownQids, q)
      PROVE  Thinned(mq, mq')
    <2>1. CASE UNCHANGED kernelVars
        BY <2>1 DEF kernelVars, Thinned, Matched
    <2>2. CASE Created(name, KnownQids, q)
        BY <2>2 DEF Thinned, Matched, Created
    <2> QED
        BY <1>4, <2>1, <2>2, QueueFound
<1> QED
    BY <1>1, <1>2, <1>3, <1>4 DEF KernelStep

LEMMA TraceThinned ==
    ASSUME NEW c \in Nat, NEW Q, NEW R, NEW home, NEW got \in Int, NEW last \in Int, NEW last2 \in Int,
           Numbered(Q),
           Trace(c, Q, home, got, last), Thinned(Q, R), last <= last2
    PROVE  /\ Trace(c, R, home, got, last2)
           /\ \A qid, n : n \in Nat /\ Held(c, Q, home, got, last, qid, n)
                 => Held(c, R, home, got, last2, qid, n)
<1>1. Trace(c, R, home, got, last2)
    <2> SUFFICES ASSUME NEW q \in DOMAIN R, NEW i \in 1 .. Len(R[q]), NEW j \in 1 .. Len(R[q])
                 PROVE  /\ Question(R[q][i], c) \/ Answer(R[q][i], c) =>
                              q = home /\ got < R[q][i].n /\ R[q][i].n <= last2
                        /\ i < j /\ Question(R[q][i], c) /\ Question(R[q][j], c) => R[q][i].n < R[q][j].n
                        /\ i < j /\ Answer(R[q][i], c) /\ Answer(R[q][j], c) => R[q][i].n < R[q][j].n
                        /\ Answer(R[q][i], c) /\ Question(R[q][j], c) => R[q][i].n < R[q][j].n
        BY DEF Trace
    <2>1. q \in DOMAIN Q
        BY ThinnedPair
    <2>2. PICK k, l \in 1 .. Len(Q[q]) :
             R[q][i] = Q[q][k] /\ R[q][j] = Q[q][l] /\ (i < j => k < l)
        BY ThinnedPair
    <2>3. Q[q][k].n \in Nat
        BY <2>1 DEF Numbered
    <2> QED
        BY <2>1, <2>2, <2>3 DEF Trace
<1>2. ASSUME NEW qid, NEW n \in Nat, Held(c, Q, home, got, last, qid, n)
      PROVE  Held(c, R, home, got, last2, qid, n)
    <2>1. qid = home /\ got < n /\ n <= last2
        BY <1>2 DEF Held
    <2>2. ASSUME NEW q \in DOMAIN R, NEW i \in 1 .. Len(R[q])
          PROVE  /\ Question(R[q][i], c) => n < R[q][i].n
                 /\ Answer(R[q][i], c) => R[q][i].n < n
        <3>1. q \in DOMAIN Q /\ \E k \in 1 .. Len(Q[q]) : R[q][i] = Q[q][k]
            BY <2>2, ThinnedElement
        <3> QED
            BY <1>2, <3>1 DEF Held
    <2> QED
        BY <2>1, <2>2 DEF Held
<1> QED
    BY <1>1, <1>2

\* What a step does to what client c counts and remembers.
LEMMA AskCounts ==
    ASSUME TypeInv, Next, NEW c \in Clients
    PROVE  \/ clt'[c] = clt[c] /\ hist'[c] = hist[c]
           \/ /\ clt'[c].srvQ = clt[c].srvQ /\ hist'[c].asked = hist[c].asked
              /\ hist'[c].got = hist[c].got /\ hist'[c].misses = hist[c].misses
              /\ clt[c].pc \notin {"off", "sending", "recving", "dead"}
              /\ clt'[c].pc \notin {"off", "sending", "recving", "dead"}
           \/ CltInit(c) /\ hist'[c] = hist[c] /\ clt'[c].pc = LoopTop
           \/ /\ SendCall(c) /\ clt'[c].pc = "sending" /\ clt'[c].srvQ = clt[c].srvQ
              /\ hist'[c].asked = hist[c].asked + 1
              /\ hist'[c].got = hist[c].got /\ hist'[c].misses = hist[c].misses
           \/ /\ SendOk(c) \/ SendError(c)
              /\ clt'[c].pc = "recving" /\ clt'[c].srvQ = clt[c].srvQ /\ hist'[c] = hist[c]
           \/ /\ RecvOk(c) /\ clt'[c].pc = LoopTop /\ clt'[c].srvQ = clt[c].srvQ
              /\ hist'[c].asked = hist[c].asked /\ hist'[c].misses = hist[c].misses
              /\ hist'[c].got = NextMsg(clt[c].srvQ, c).n
           \/ /\ RecvMiss(c) /\ clt'[c].pc = LoopTop /\ clt'[c].srvQ = clt[c].srvQ
              /\ hist'[c].asked = hist[c].asked /\ hist'[c].got = hist[c].got
              /\ hist'[c].misses = hist[c].misses + 1
           \/ /\ ~At(c, "off") /\ clt'[c].pc = "dead" /\ clt'[c].srvQ = clt[c].srvQ
              /\ hist'[c] = hist[c]
<1> USE DEF At, Goto
<1>0. /\ clt \in [Clients -> ClientRecord] /\ clt[c] \in ClientRecord
      /\ hist \in [Clients -> History] /\ hist[c] \in History
    BY DEF TypeInv, ClientType
<1> DEFINE Talking == {"off", "sending", "recving", "dead"}
           Quiet == /\ clt'[c].srvQ = clt[c].srvQ /\ hist'[c].asked = hist[c].asked
                    /\ hist'[c].got = hist[c].got /\ hist'[c].misses = hist[c].misses
                    /\ clt[c].pc \notin Talking /\ clt'[c].pc \notin Talking
           Same == clt'[c] = clt[c] /\ hist'[c] = hist[c]
           Init0 == CltInit(c) /\ hist'[c] = hist[c] /\ clt'[c].pc = LoopTop
           Call == /\ SendCall(c) /\ clt'[c].pc = "sending" /\ clt'[c].srvQ = clt[c].srvQ
                   /\ hist'[c].asked = hist[c].asked + 1
                   /\ hist'[c].got = hist[c].got /\ hist'[c].misses = hist[c].misses
           Sent0 == /\ SendOk(c) \/ SendError(c)
                    /\ clt'[c].pc = "recving" /\ clt'[c].srvQ = clt[c].srvQ /\ hist'[c] = hist[c]
           Got == /\ RecvOk(c) /\ clt'[c].pc = LoopTop /\ clt'[c].srvQ = clt[c].srvQ
                  /\ hist'[c].asked = hist[c].asked /\ hist'[c].misses = hist[c].misses
                  /\ hist'[c].got = NextMsg(clt[c].srvQ, c).n
           Missed == /\ RecvMiss(c) /\ clt'[c].pc = LoopTop /\ clt'[c].srvQ = clt[c].srvQ
                     /\ hist'[c].asked = hist[c].asked /\ hist'[c].got = hist[c].got
                     /\ hist'[c].misses = hist[c].misses + 1
           Ended == /\ ~At(c, "off") /\ clt'[c].pc = "dead" /\ clt'[c].srvQ = clt[c].srvQ
                    /\ hist'[c] = hist[c]
           Effect == Same \/ Quiet \/ Init0 \/ Call \/ Sent0 \/ Got \/ Missed \/ Ended
<1>1. AfterBcast \notin Talking /\ LoopTop \notin Talking
    BY DEF AfterBcast, LoopTop
<1>2. ASSUME NEW d \in Clients, ClientTurn(d), d # c
      PROVE  Same
    <2>1. CASE CltInit(d) \/ RequestOpen(d)
        BY <1>0, <1>2, <2>1 DEF CltInit, RequestOpen
    <2>2. CASE \/ RequestKnown(d) \/ RequestSend(d) \/ RequestRefused(d) \/ RequestTimeout(d)
               \/ RequestAnswered(d) \/ MonitorError(d) \/ MonitorTimeout(d)
               \/ AskLater(d) \/ SendOk(d) \/ SendError(d)
        BY <1>0, <1>2, <2>2 DEF RequestKnown, RequestSend, RequestRefused, RequestTimeout,
            RequestAnswered, MonitorError, MonitorTimeout, AskLater, SendOk, SendError
    <2>3. CASE MonitorEvent(d)
        BY <1>0, <1>2, <2>3 DEF MonitorEvent
    <2>4. CASE RecvOk(d) \/ RecvMiss(d)
        BY <1>0, <1>2, <2>4 DEF RecvOk, RecvMiss
    <2>5. CASE SendCall(d)
        BY <1>0, <1>2, <2>5 DEF SendCall
    <2> HIDE DEF Same
    <2> QED
        BY <1>2, <2>1, <2>2, <2>3, <2>4, <2>5 DEF ClientTurn, ClientStep
<1>3. ASSUME ClientTurn(c)
      PROVE  Effect
    <2>1. CASE CltInit(c)
        BY <1>0, <2>1 DEF CltInit, ClientRecord
    <2>2. CASE RequestOpen(c)
        BY <1>0, <2>2 DEF RequestOpen, ClientRecord
    <2>3. CASE RequestKnown(c) \/ RequestSend(c) \/ RequestRefused(c) \/ RequestTimeout(c) \/ AskLater(c)
        BY <1>0, <1>1, <2>3 DEF RequestKnown, RequestSend, RequestRefused, RequestTimeout, AskLater,
                                ClientRecord
    <2>4. CASE RequestAnswered(c)
        BY <1>0, <1>1, <2>4 DEF RequestAnswered, ClientRecord
    <2>5. CASE MonitorEvent(c)
        <3>1. clt' = [clt EXCEPT ![c].pc = AfterBcast] /\ At(c, "monitor")
            BY <2>5 DEF MonitorEvent
        <3>2. \E n : hist' = [hist EXCEPT ![c].handled = n] \/ hist' = hist
            BY <2>5 DEF MonitorEvent
        <3> QED
            BY <1>0, <1>1, <3>1, <3>2 DEF ClientRecord, History
    <2>6. CASE MonitorError(c)
        BY <1>0, <1>1, <2>6 DEF MonitorError, ForgetServer, ClientRecord
    <2>7. CASE MonitorTimeout(c)
        BY <1>0, <1>1, <2>7 DEF MonitorTimeout, ForgetServer, ClientRecord
    <2>8. CASE SendCall(c)
        <3>1. PICK len \in AskLens : clt' = [clt EXCEPT ![c].pc = "sending", ![c].len = len]
            BY <2>8 DEF SendCall
        <3>2. hist' = [hist EXCEPT ![c].asked = hist[c].asked + 1]
            BY <2>8 DEF SendCall
        <3>3. clt'[c].pc = "sending" /\ clt'[c].srvQ = clt[c].srvQ
            BY <1>0, <3>1 DEF ClientRecord
        <3>4. /\ hist'[c].asked = hist[c].asked + 1
              /\ hist'[c].got = hist[c].got /\ hist'[c].misses = hist[c].misses
            BY <1>0, <3>2 DEF History
        <3> QED
            BY <2>8, <3>3, <3>4
    <2>9. CASE SendOk(c) \/ SendError(c)
        BY <1>0, <2>9 DEF SendOk, SendError, ClientRecord
    <2>10. CASE RecvOk(c)
        BY <1>0, <2>10 DEF RecvOk, ClientRecord, History
    <2>11. CASE RecvMiss(c)
        BY <1>0, <2>11 DEF RecvMiss, ClientRecord, History
    <2> HIDE DEF Effect
    <2> QED
        BY <1>3, <2>1, <2>2, <2>3, <2>4, <2>5, <2>6, <2>7, <2>8, <2>9, <2>10, <2>11
        DEF ClientTurn, ClientStep
<1>4. ASSUME NEW d \in Clients, CltDestroy(d) \/ CltKilled(d)
      PROVE  Same \/ Ended
    <2>1. clt' = [clt EXCEPT ![d].pc = "dead"] /\ hist' = hist /\ ~At(d, "off")
        BY <1>1, <1>4 DEF CltDestroy, CltKilled
    <2> QED
        BY <1>0, <2>1 DEF ClientRecord
<1>5. UNCHANGED clientVars => Same
    BY DEF clientVars
<1> HIDE DEF Same, Quiet, Init0, Call, Sent0, Got, Missed, Ended
<1>6. Effect
    BY <1>2, <1>3, <1>4, <1>5 DEF Next
<1> QED
    BY <1>6 DEF Same, Quiet, Init0, Call, Sent0, Got, Missed, Ended

\* A package that is sent comes after the questions and answers before it.
LEMMA TraceGrown ==
    ASSUME NEW c \in Nat, c # SEND_TO_SERVER, NEW Q, NEW R, NEW home,
           NEW got \in Int, NEW last \in Int, NEW last2 \in Int, last <= last2,
           NEW q, NEW m \in Package, Numbered(Q), Grown(Q, R, q, m),
           Trace(c, Q, home, got, last),
           Question(m, c) => q = home /\ got < m.n /\ last < m.n /\ m.n <= last2,
           Answer(m, c) => Held(c, Q, home, got, last, q, m.n)
    PROVE  /\ Trace(c, R, home, got, last2)
           /\ \A qid, n : /\ n \in Nat /\ ~Answer(m, c)
                          /\ Held(c, Q, home, got, last, qid, n)
                 => Held(c, R, home, got, last2, qid, n)
<1>0. m.n \in Nat /\ ~(Question(m, c) /\ Answer(m, c))
    BY DEF Package, Question, Answer
<1> DEFINE len == Len(Q[q])
<1>a. /\ q \in DOMAIN Q /\ len \in Nat /\ Len(Q[q]) = len
      /\ DOMAIN R = DOMAIN Q /\ \A x \in DOMAIN Q : x # q => R[x] = Q[x]
      /\ Len(R[q]) = len + 1 /\ \A i \in 1 .. len : R[q][i] = Q[q][i]
      /\ R[q][len + 1] = m
    BY DEF Grown
<1>b. \A x \in DOMAIN Q : \A i \in 1 .. Len(Q[x]) : Q[x][i].n \in Nat
    BY DEF Numbered
<1> HIDE DEF len
<1> USE <1>a, <1>b
<1>1. Trace(c, R, home, got, last2)
    <2> SUFFICES ASSUME NEW x \in DOMAIN R, NEW i \in 1 .. Len(R[x]), NEW j \in 1 .. Len(R[x])
                 PROVE  /\ Question(R[x][i], c) \/ Answer(R[x][i], c) =>
                              x = home /\ got < R[x][i].n /\ R[x][i].n <= last2
                        /\ i < j /\ Question(R[x][i], c) /\ Question(R[x][j], c) => R[x][i].n < R[x][j].n
                        /\ i < j /\ Answer(R[x][i], c) /\ Answer(R[x][j], c) => R[x][i].n < R[x][j].n
                        /\ Answer(R[x][i], c) /\ Question(R[x][j], c) => R[x][i].n < R[x][j].n
        BY DEF Trace
    <2> DEFINE OldAt(k) == k \in 1 .. Len(Q[x]) /\ R[x][k] = Q[x][k]
               NewAt(k) == x = q /\ k = len + 1 /\ R[x][k] = m
    <2>1. (OldAt(i) \/ NewAt(i)) /\ (OldAt(j) \/ NewAt(j))
        OBVIOUS
    <2>2. \A k : OldAt(k) => /\ R[x][k].n \in Nat
                             /\ Question(R[x][k], c) \/ Answer(R[x][k], c) =>
                                    x = home /\ got < R[x][k].n /\ R[x][k].n <= last
        BY DEF Trace
    <2>3. \A k : NewAt(k) => /\ Question(R[x][k], c) => x = home /\ got < m.n /\ last < m.n /\ m.n <= last2
                             /\ Answer(R[x][k], c) => x = home /\ got < m.n /\ m.n <= last
        BY DEF Held
    <2>4. CASE OldAt(i) /\ OldAt(j)
        <3>1. /\ i < j /\ Question(R[x][i], c) /\ Question(R[x][j], c) => R[x][i].n < R[x][j].n
              /\ i < j /\ Answer(R[x][i], c) /\ Answer(R[x][j], c) => R[x][i].n < R[x][j].n
              /\ Answer(R[x][i], c) /\ Question(R[x][j], c) => R[x][i].n < R[x][j].n
            BY <2>4 DEF Trace
        <3> HIDE DEF OldAt
        <3> QED
            BY <2>2, <2>4, <3>1
    <2>5. CASE OldAt(i) /\ NewAt(j)
        <3>1. Answer(R[x][i], c) /\ Answer(R[x][j], c) => R[x][i].n < R[x][j].n
            BY <2>5 DEF Held
        <3> HIDE DEF OldAt
        <3>2. /\ R[x][i].n \in Nat
              /\ Question(R[x][i], c) \/ Answer(R[x][i], c) =>
                    x = home /\ got < R[x][i].n /\ R[x][i].n <= last
            BY <2>2, <2>5
        <3>3. R[x][j] = m /\ (Question(m, c) => last < m.n)
            BY <2>3, <2>5
        <3>4. Question(R[x][i], c) \/ Answer(R[x][i], c) => R[x][i].n <= last2
            BY <3>2
        <3>5. /\ Question(R[x][i], c) /\ Question(R[x][j], c) => R[x][i].n < R[x][j].n
              /\ Answer(R[x][i], c) /\ Question(R[x][j], c) => R[x][i].n < R[x][j].n
            BY <1>0, <3>2, <3>3
        <3> QED
            BY <3>1, <3>2, <3>4, <3>5, Zenon
    <2>6. CASE NewAt(i) /\ OldAt(j)
        <3>1. Answer(R[x][i], c) /\ Question(R[x][j], c) => R[x][i].n < R[x][j].n
            BY <2>6 DEF Held
        <3>2. ~(i < j)
            BY <2>6
        <3> HIDE DEF OldAt
        <3> QED
            BY <1>0, <2>2, <2>3, <2>6, <3>1, <3>2
    <2>7. CASE NewAt(i) /\ NewAt(j)
        <3> HIDE DEF OldAt
        <3> QED
            BY <1>0, <2>3, <2>7
    <2> QED
        BY <2>1, <2>4, <2>5, <2>6, <2>7
<1>2. ASSUME NEW qid, NEW n \in Nat, ~Answer(m, c), Held(c, Q, home, got, last, qid, n)
      PROVE  Held(c, R, home, got, last2, qid, n)
    <2>1. qid = home /\ got < n /\ n <= last /\ n <= last2
        BY <1>2 DEF Held
    <2>2. ASSUME NEW x \in DOMAIN R, NEW i \in 1 .. Len(R[x])
          PROVE  /\ Question(R[x][i], c) => n < R[x][i].n
                 /\ Answer(R[x][i], c) => R[x][i].n < n
        <3>1. (i \in 1 .. Len(Q[x]) /\ R[x][i] = Q[x][i]) \/ R[x][i] = m
            <4>1. CASE x = q
                <5>1. i \in 1 .. len \/ i = len + 1
                    BY <4>1
                <5> QED
                    BY <4>1, <5>1
            <4>2. CASE x # q
                BY <4>2
            <4> QED
                BY <4>1, <4>2
        <3> QED
            BY <1>0, <1>2, <2>1, <3>1 DEF Held
    <2> QED
        BY <2>1, <2>2 DEF Held
<1> QED
    BY <1>1, <1>2

\* The question the server holds it received in this step, or held before.
LEMMA HeldQuestion ==
    ASSUME TypeInv, Next, NEW c \in Clients, srv'.pid = c
    PROVE  \/ srv.pid = c /\ srv'.qid = srv.qid /\ cur' = cur
           \/ SrvRecv /\ UNCHANGED clientVars
<1> USE DEF SrvGoto
<1>0. c # 0 /\ srv \in ServerRecord
    BY ServerPidFacts DEF TypeInv, ServerType
<1> DEFINE Effect == \/ srv.pid = c /\ srv'.qid = srv.qid /\ cur' = cur
                     \/ SrvRecv
<1>1. ~(SrvStart \/ SrvClearDone \/ SrvDestroy \/ SrvKilled \/ \E len \in ReplyLens : SrvSend(len))
    <2>1. ~SrvStart
        BY <1>0 DEF SrvStart, NewSrv
    <2>2. ~SrvClearDone
        BY <1>0 DEF SrvClearDone, ServerRecord
    <2>3. ~(SrvDestroy \/ SrvKilled)
        BY <1>0 DEF SrvDestroy, SrvKilled, NewSrv
    <2>4. ~\E len \in ReplyLens : SrvSend(len)
        BY <1>0 DEF SrvSend, Answered, ServerRecord
    <2> QED
        BY <2>1, <2>2, <2>3, <2>4
<1>2. ASSUME \/ SrvClear \/ SrvRecvBusy \/ SrvRecvMiss \/ MonReqFull \/ MonReqMiss
             \/ SrvRespond \/ SrvEventSkip \/ SrvEventEnd
             \/ \E len \in ReplyLens : SrvSendRefused(len)
             \/ \E len \in EventLens : SrvEventStart(len)
      PROVE  Effect
    BY <1>0, <1>2 DEF SrvClear, ClearTurn, serverVars, SrvRecvBusy, SrvRecvMiss, MonReqFull, MonReqMiss,
        SrvRespond, SrvEventSkip, SrvEventEnd, SrvSendRefused, SrvEventStart, ServerRecord
<1>3. ASSUME MonReqAdmit
      PROVE  Effect
    <2> DEFINE q == NextMsg(srv.qid, REG_TO_SERVER).xid
    <2>1. srv' = [Add(srv, q) EXCEPT !.pc = "respond", !.req = q] /\ cur' = cur
        BY <1>3 DEF MonReqAdmit
    <2> HIDE DEF q
    <2> QED
        BY <1>0, <2>1 DEF Add, ServerRecord
<1>4. ASSUME SrvRespondGone \/ SrvEventSend
      PROVE  Effect
    BY <1>0, <1>4 DEF SrvRespondGone, SrvEventSend, Del, ServerRecord
<1>5. UNCHANGED serverVars => Effect
    BY DEF serverVars
<1>6. SrvRecv => Effect
    OBVIOUS
<1> HIDE DEF Effect
<1>7. ASSUME ServerStep \/ SrvDestroy \/ SrvKilled
      PROVE  Effect
    BY <1>1, <1>2, <1>3, <1>4, <1>6, <1>7 DEF ServerStep
<1>8. \/ UNCHANGED serverVars
      \/ (ServerStep \/ SrvDestroy \/ SrvKilled) /\ UNCHANGED clientVars
    BY DEF Next, clientVars
<1>9. UNCHANGED serverVars => srv.pid = c /\ srv'.qid = srv.qid /\ cur' = cur
    BY DEF serverVars
<1> QED
    BY <1>7, <1>8, <1>9 DEF Effect

\* A question of client c is sent by c, an answer to it by the server.
LEMMA NewTalk ==
    ASSUME TypeInv, QueueInv, NEW q, NEW m, Sends(q, m), NEW c \in Clients,
           Question(m, c) \/ Answer(m, c)
    PROVE  \/ /\ SendOk(c) /\ q = clt[c].srvQ /\ m.n = hist[c].asked /\ ~Answer(m, c)
           \/ /\ (\E len \in ReplyLens : SrvSend(len)) /\ q = srv.qid /\ srv.pid = c
              /\ m.n = cur.n /\ ~Question(m, c)
<1> USE DEF QueueInv, Question, Answer
<1>0. /\ c # SEND_TO_SERVER /\ c # REG_TO_SERVER /\ SEND_TO_SERVER # REG_TO_SERVER
      /\ \A p \in ServerPids : p # SEND_TO_SERVER /\ p # c
    BY ServerPidFacts DEF SEND_TO_SERVER, REG_TO_SERVER
<1>1. ASSUME NEW d, m = Pkg(REG_TO_SERVER, clt[d].eid, 0, d, 0)
      PROVE  FALSE
    BY <1>0, <1>1 DEF Pkg
<1>2. ASSUME NEW d \in Clients, SendOk(d), q = clt[d].srvQ,
             m = Pkg(SEND_TO_SERVER, d, clt[d].len, d, hist[d].asked)
      PROVE  SendOk(c) /\ q = clt[c].srvQ /\ m.n = hist[c].asked /\ ~Answer(m, c)
    BY <1>0, <1>2 DEF Pkg
<1>3. ASSUME NEW len \in ReplyLens, SrvSend(len), q = srv.qid, m = Pkg(srv.pid, 0, len, cur.who, cur.n)
      PROVE  /\ (\E l \in ReplyLens : SrvSend(l)) /\ q = srv.qid /\ srv.pid = c
             /\ m.n = cur.n /\ ~Question(m, c)
    <2>1. srv.pid \in Clients /\ srv.pid # SEND_TO_SERVER
        BY <1>3, ServerPidFacts DEF SrvSend, ProcessInv
    <2> QED
        BY <1>3, <2>1 DEF Pkg
<1>4. ASSUME m = Pkg(REG_TO_SERVER, me, 0, me, 0)
      PROVE  FALSE
    BY <1>0, <1>4 DEF Pkg
<1>5. ASSUME SrvEventSend, m = Pkg(me, 0, srv.len, me, evt)
      PROVE  FALSE
    <2>1. me \in ServerPids
        BY <1>5 DEF SrvEventSend, SrvAt, ProcessInv
    <2> QED
        BY <1>0, <1>5, <2>1 DEF Pkg
<1> QED
    BY <1>1, <1>2, <1>3, <1>4, <1>5 DEF Sends

\* What msgrcv leaves of a queue is what came after the package it took, or is
\* not of that package's type.
LEMMA LeftAfter ==
    ASSUME KernelType, NEW q, NEW type, Gets(q, type), MsgRcv(q, type),
           NEW i \in 1 .. Len(mq'[q])
    PROVE  \E k \in 1 .. Len(mq[q]) : /\ mq'[q][i] = mq[q][k]
                                      /\ type = ANY_MESSAGE \/ mq[q][k].type = type
                                            => First(q, type) < k
<1> DEFINE f == First(q, type)
           k == Before(q, f, q, i)
<1>1. /\ f \in 1 .. Len(mq[q]) /\ k \in 1 .. Len(mq[q]) /\ mq'[q][i] = mq[q][k]
      /\ q \in DOMAIN mq /\ Len(mq[q]) \in Nat /\ f # 0
    BY Received DEF Gets
<1>2. \A j \in 1 .. f - 1 : type # ANY_MESSAGE /\ mq[q][j].type # type
    BY <1>1, FirstOfType
<1>3. k # f
    BY <1>1 DEF Before
<1> HIDE DEF k, f
<1>4. k < f => k \in 1 .. f - 1
    BY <1>1
<1> QED
    BY <1>1, <1>2, <1>3, <1>4 DEF f

\* The question the server receives is the first: the answers are to earlier
\* questions, and the questions left are later.
LEMMA RecvHeld ==
    ASSUME TypeInv, QueueInv, AskInv, SrvRecv, NEW c \in Clients, srv'.pid = c
    PROVE  Held(c, mq', clt[c].srvQ, hist[c].got, LastSent(c), srv'.qid, cur'.n)
<1> USE DEF QueueInv, TypeInv
<1> DEFINE m == NextMsg(srv.qid, SEND_TO_SERVER)
           f == First(srv.qid, SEND_TO_SERVER)
<1>0. /\ Gets(srv.qid, SEND_TO_SERVER) /\ MsgRcv(srv.qid, SEND_TO_SERVER)
      /\ srv' = [srv EXCEPT !.pc = "ack", !.pid = m.xid] /\ cur' = [who |-> m.who, n |-> m.n]
    BY DEF SrvRecv
<1>1. srv'.qid = srv.qid /\ m.xid = c /\ cur'.n = m.n
    BY <1>0 DEF ServerType, ServerRecord
<1>2. /\ f \in 1 .. Len(mq[srv.qid]) /\ m = mq[srv.qid][f] /\ m \in Package
      /\ srv.qid \in DOMAIN mq /\ DOMAIN mq' = DOMAIN mq
    BY <1>0, Received
<1>3. Question(m, c)
    <2>1. ForServer(m, DOMAIN mq, bound[SrvName]) /\ m.type = SEND_TO_SERVER
        BY <1>0, FirstPackage DEF Gets, KeysInv, SEND_TO_SERVER, ANY_MESSAGE
    <2> QED
        BY <1>1, <2>1, ServerPidFacts DEF ForServer, Question, SEND_TO_SERVER, REG_TO_SERVER
<1>4. srv.qid = clt[c].srvQ /\ hist[c].got < m.n /\ m.n <= LastSent(c)
    BY <1>2, <1>3 DEF AskInv, Trace
<1> HIDE DEF m, f
<1>5. ASSUME NEW x \in DOMAIN mq', NEW i \in 1 .. Len(mq'[x])
      PROVE  /\ Question(mq'[x][i], c) => m.n < mq'[x][i].n
             /\ Answer(mq'[x][i], c) => mq'[x][i].n < m.n
    <2>1. CASE x = srv.qid
        <3>1. PICK k \in 1 .. Len(mq[x]) :
                 mq'[x][i] = mq[x][k] /\ (mq[x][k].type = SEND_TO_SERVER => f < k)
            BY <1>0, <2>1, LeftAfter DEF f, SEND_TO_SERVER, ANY_MESSAGE
        <3>2. Question(mq[x][k], c) => f < k
            BY <3>1 DEF Question
        <3> QED
            BY <1>2, <1>3, <2>1, <3>1, <3>2 DEF AskInv, Trace
    <2>2. CASE x # srv.qid
        <3>1. \E k \in 1 .. Len(mq[x]) : mq'[x][i] = mq[x][k]
            BY <1>0, <1>2, Received, SMTT(20)
        <3> QED
            BY <1>2, <1>4, <2>2, <3>1 DEF AskInv, Trace
    <2> QED
        BY <2>1, <2>2
<1> QED
    BY <1>1, <1>4, <1>5 DEF Held

\* The answer a client receives is the first: all that is left comes after it.
LEMMA RecvTrace ==
    ASSUME TypeInv, AskInv, NEW c \in Clients, RecvOk(c),
           NEW last, Trace(c, mq', clt[c].srvQ, hist[c].got, last)
    PROVE  LET n == NextMsg(clt[c].srvQ, c).n IN
           /\ hist[c].got < n /\ n <= LastSent(c)
           /\ Trace(c, mq', clt[c].srvQ, n, last)
           /\ srv.pid = c => n < cur.n
<1> DEFINE q == clt[c].srvQ
           m == NextMsg(q, c)
           f == First(q, c)
<1>0. Gets(q, c) /\ MsgRcv(q, c) /\ c # ANY_MESSAGE
    BY ServerPidFacts DEF RecvOk, ANY_MESSAGE
<1>1. /\ f \in 1 .. Len(mq[q]) /\ m = mq[q][f] /\ q \in DOMAIN mq /\ DOMAIN mq' = DOMAIN mq
      /\ m.type = c
    BY <1>0, Received, FirstOfType DEF Gets, TypeInv
<1>2. hist[c].got < m.n /\ m.n <= LastSent(c) /\ (srv.pid = c => m.n < cur.n)
    BY <1>1 DEF AskInv, Trace, Held, Answer
<1> HIDE DEF m, f, q
<1>3. ASSUME NEW i \in 1 .. Len(mq'[q]), Question(mq'[q][i], c) \/ Answer(mq'[q][i], c)
      PROVE  m.n < mq'[q][i].n
    <2>1. PICK k \in 1 .. Len(mq[q]) : mq'[q][i] = mq[q][k] /\ (mq[q][k].type = c => f < k)
        BY <1>0, LeftAfter DEF f, TypeInv
    <2> QED
        BY <1>1, <1>3, <2>1 DEF AskInv, Trace, Answer
<1> QED
    BY <1>1, <1>2, <1>3 DEF Trace, m, q

\* Each step keeps the questions and answers of client c in order.
LEMMA AskInvStep ==
    ASSUME TypeInv, ListInv, QueueInv, AskInv, Next
    PROVE  AskInv'
<1> USE DEF QueueInv, TypeInv
<1>0. KernelStep /\ KernelType
    BY KernelSteps
<1> SUFFICES ASSUME NEW c \in Clients
             PROVE  /\ hist'[c].got <= LastSent(c)'
                    /\ At(c, "off")' => hist'[c].asked = 0
                    /\ Trace(c, mq', clt'[c].srvQ, hist'[c].got, LastSent(c)')
                    /\ srv'.pid = c =>
                          Held(c, mq', clt'[c].srvQ, hist'[c].got, LastSent(c)', srv'.qid, cur'.n)
    BY DEF AskInv
<1> DEFINE home == clt[c].srvQ
           got == hist[c].got
           last == LastSent(c)
           last2 == LastSent(c)'
<1>1. /\ c \in Nat /\ c # SEND_TO_SERVER /\ got \in Int /\ last \in Int /\ last2 \in Int
      /\ hist[c].asked \in Nat /\ hist'[c].asked \in Nat
    <2>1. hist[c] \in History /\ hist'[c] \in History
        BY TypeInvNext DEF ClientType
    <2> QED
        BY <2>1, ServerPidFacts, ClientNats DEF LastSent, History
<1>2. /\ got <= last /\ Trace(c, mq, home, got, last)
      /\ srv.pid = c => Held(c, mq, home, got, last, srv.qid, cur.n)
      /\ At(c, "off") => hist[c].asked = 0
    BY DEF AskInv
<1>3. Numbered(mq)
    BY PackagesNumbered
<1>4. last <= last2 /\ (SendOk(c) => last < last2 /\ hist[c].asked = last2)
    <2>1. LastSent(c)' = IF clt'[c].pc = "sending" THEN hist'[c].asked - 1 ELSE hist'[c].asked
        BY DEF LastSent, At
    <2>2. /\ SendOk(c) \/ SendError(c) => clt[c].pc = "sending"
          /\ SendCall(c) => clt[c].pc = "ask"
          /\ RecvOk(c) \/ RecvMiss(c) => clt[c].pc = "recving"
          /\ CltInit(c) => clt[c].pc = "off"
        BY DEF SendOk, SendError, SendCall, RecvOk, RecvMiss, CltInit, At
    <2>3. LoopTop # "sending"
        BY DEF LoopTop
    <2>4. last <= last2
        <3>1. \/ hist'[c].asked = hist[c].asked
              \/ hist'[c].asked = hist[c].asked + 1 /\ clt'[c].pc = "sending" /\ clt[c].pc = "ask"
            BY <2>2, AskCounts
        <3>2. hist'[c].asked = hist[c].asked /\ clt'[c].pc = "sending" => clt[c].pc = "sending"
            BY <1>1, <2>2, <2>3, AskCounts
        <3> QED
            BY <1>1, <2>1, <3>1, <3>2 DEF LastSent, At
    <2>5. SendOk(c) => clt'[c].pc = "recving" /\ hist' = hist
        BY DEF SendOk, ClientType
    <2> QED
        BY <1>1, <2>1, <2>2, <2>4, <2>5 DEF LastSent, At
<1> HIDE DEF last2
<1>5. cur.n \in Nat /\ cur'.n \in Nat
    BY TypeInvNext DEF ServerType
<1>6. ASSUME Thinned(mq, mq')
      PROVE  /\ Trace(c, mq', home, got, last2)
             /\ srv'.pid = c => Held(c, mq', home, got, last2, srv'.qid, cur'.n)
    <2> HIDE DEF home, got, last
    <2>1. Trace(c, mq', home, got, last2)
        BY <1>1, <1>2, <1>3, <1>4, <1>6, TraceThinned
    <2>2. CASE srv.pid = c /\ srv'.qid = srv.qid /\ cur' = cur
        BY <1>1, <1>2, <1>3, <1>4, <1>5, <1>6, <2>1, <2>2, TraceThinned
    <2>3. CASE SrvRecv /\ srv'.pid = c
        <3>1. Held(c, mq', home, got, last, srv'.qid, cur'.n)
            BY <2>3, RecvHeld DEF home, got, last
        <3> QED
            BY <1>1, <1>4, <1>5, <2>1, <3>1 DEF Held
    <2> QED
        BY <2>1, <2>2, <2>3, HeldQuestion
<1>7. ASSUME NEW q \in DOMAIN mq, NEW m \in Package, Room(q), MsgSnd(q, m), Sends(q, m)
      PROVE  /\ Trace(c, mq', home, got, last2)
             /\ srv'.pid = c => Held(c, mq', home, got, last2, srv'.qid, cur'.n)
    <2>1. Grown(mq, mq', q, m)
        BY <1>0, <1>7, Sent DEF Grown
    <2>2. Question(m, c) => q = home /\ last < m.n /\ m.n <= last2
        BY <1>1, <1>4, <1>7, NewTalk
    <2>3. Answer(m, c) => /\ Held(c, mq, home, got, last, q, m.n)
                          /\ \E len \in ReplyLens : SrvSend(len)
        BY <1>2, <1>7, NewTalk
    <2> HIDE DEF home, got, last
    <2>4. /\ Trace(c, mq', home, got, last2)
          /\ \A qid, n : /\ n \in Nat /\ ~Answer(m, c)
                         /\ Held(c, mq, home, got, last, qid, n)
                => Held(c, mq', home, got, last2, qid, n)
        <3>1. Question(m, c) => q = home /\ got < m.n /\ last < m.n /\ m.n <= last2
            BY <1>1, <1>2, <2>2 DEF Package
        <3>2. Answer(m, c) => Held(c, mq, home, got, last, q, m.n)
            BY <2>3
        <3> QED
            BY <1>1, <1>2, <1>3, <1>4, <1>7, <2>1, <3>1, <3>2, TraceGrown
    <2>5. ~SrvRecv
        BY <1>0, <1>7, <2>1, Received DEF SrvRecv, Grown
    <2>6. (\E len \in ReplyLens : SrvSend(len)) => srv'.pid # c
        BY ServerPidFacts DEF SrvSend, Answered, ServerType, ServerRecord
    <2> QED
        BY <1>2, <1>5, <2>3, <2>4, <2>5, <2>6, HeldQuestion
<1>8. /\ Trace(c, mq', home, got, last2)
      /\ srv'.pid = c => Held(c, mq', home, got, last2, srv'.qid, cur'.n)
    BY <1>0, <1>6, <1>7, SentOrThinned
<1>9. CASE RecvOk(c)
    <2> DEFINE n == NextMsg(clt[c].srvQ, c).n
    <2>1. /\ clt[c].pc = "recving" /\ clt' = [clt EXCEPT ![c].pc = LoopTop]
          /\ hist' = [hist EXCEPT ![c].got = n]
        BY <1>9 DEF RecvOk, At, Goto
    <2>2. clt[c] \in ClientRecord /\ hist[c] \in History
        BY DEF ClientType
    <2> HIDE DEF n
    <2>3. /\ clt'[c].srvQ = home /\ hist'[c].got = n /\ hist'[c].asked = hist[c].asked
          /\ clt'[c].pc = LoopTop
        BY <2>1, <2>2 DEF ClientType, ClientRecord, History
    <2>4. LoopTop \notin {"off", "sending", "recving"}
        BY DEF LoopTop
    <2>5. last2 = last
        BY <2>1, <2>3, <2>4 DEF LastSent, At, last2
    <2>6. /\ got < n /\ n <= last
          /\ Trace(c, mq', home, n, last2)
          /\ srv.pid = c => n < cur.n
        BY <1>8, <1>9, RecvTrace DEF n
    <2>7. srv'.pid = c => Held(c, mq', home, n, last2, srv'.qid, cur'.n)
        <3>1. ~UNCHANGED clientVars
            BY <2>1, <2>3, <2>4 DEF clientVars
        <3> QED
            BY <1>8, <2>6, <3>1, HeldQuestion DEF Held
    <2> QED
        BY <2>3, <2>4, <2>5, <2>6, <2>7 DEF At, last2
<1>10. CASE CltInit(c)
    <2>1. clt[c].pc = "off" /\ clt'[c].pc \in {"top", "ask"} /\ hist' = hist
        <3>1. PICK q \in 1 .. MaxQid : clt' = [clt EXCEPT ![c].pc = LoopTop, ![c].srvQ = q]
            BY <1>10 DEF CltInit
        <3>2. clt'[c].pc = LoopTop
            BY <3>1 DEF ClientType, ClientRecord
        <3> QED
            BY <1>10, <3>2 DEF CltInit, At, LoopTop
    <2>2. got = 0 /\ last2 = 0 /\ hist'[c].got = 0
        <3>1. got \in Nat
            BY DEF ClientType, History
        <3> QED
            BY <1>1, <1>2, <2>1, <3>1 DEF LastSent, At, last2
    <2>3. \A q \in DOMAIN mq' : \A i \in 1 .. Len(mq'[q]) :
             ~Question(mq'[q][i], c) /\ ~Answer(mq'[q][i], c)
        <3> SUFFICES ASSUME NEW q \in DOMAIN mq', NEW i \in 1 .. Len(mq'[q])
                     PROVE  ~Question(mq'[q][i], c) /\ ~Answer(mq'[q][i], c)
            OBVIOUS
        <3>1. mq'[q] \in Seq(Package)
            BY TypeInvNext DEF KernelType
        <3>2. mq'[q][i].n \in Nat
            <4>1. mq'[q][i] \in Package
                BY <3>1, ElementOfSeq
            <4> QED
                BY <4>1 DEF Package
        <3>3. Question(mq'[q][i], c) \/ Answer(mq'[q][i], c) => 0 < mq'[q][i].n /\ mq'[q][i].n <= 0
            BY <1>8, <2>2 DEF Trace
        <3> QED
            BY <3>2, <3>3
    <2>4. srv'.pid # c
        BY <1>5, <1>8, <2>2 DEF Held
    <2>5. Trace(c, mq', clt'[c].srvQ, hist'[c].got, last2)
        BY <2>3 DEF Trace
    <2> QED
        BY <2>1, <2>2, <2>4, <2>5 DEF At, last2
<1>11. CASE ~RecvOk(c) /\ ~CltInit(c)
    <2>1. /\ clt'[c].srvQ = home /\ hist'[c].got = got
          /\ clt'[c].pc = "off" => clt[c].pc = "off" /\ hist'[c].asked = hist[c].asked
        BY <1>11, AskCounts DEF LoopTop
    <2>2. got <= last2
        BY <1>1, <1>2, <1>4
    <2> QED
        BY <1>2, <1>8, <2>1, <2>2 DEF At, last2
<1> QED
    BY <1>9, <1>10, <1>11

LEMMA AskInvariant == Spec => []AskInv
<1>1. Init => AskInv
    <2> SUFFICES ASSUME Init
                 PROVE  AskInv
        OBVIOUS
    <2>1. \A c \in Clients : c # 0
        BY ServerPidFacts
    <2> QED
        BY <2>1 DEF Init, KernelInit, ClientInit, ServerInit, NewSrv, AskInv, LastSent, At, Trace
<1>2. TypeInv /\ ListInv /\ QueueInv /\ AskInv /\ [Next]_vars => AskInv'
    <2>1. ASSUME AskInv, UNCHANGED vars
          PROVE  AskInv'
        BY <2>1 DEF vars, kernelVars, clientVars, serverVars, AskInv, LastSent, At
    <2> QED
        BY <2>1, AskInvStep
<1> QED
    BY <1>1, <1>2, TypeInvariant, ListInvariant, QueueInvariant, PTL DEF Spec

\* The answers waiting for a client are to its own questions, in the order it
\* asked them, each at most once, and later than any it has had.
THEOREM AnswersAreInOrder == Spec => []AnswersInOrder
<1>1. TypeInv /\ QueueInv /\ AskInv => AnswersInOrder
    <2> SUFFICES ASSUME TypeInv, QueueInv, AskInv, NEW c \in Clients, clt[c].srvQ \in DOMAIN mq
                 PROVE  LET answers == AnswersTo(c, clt[c].srvQ)
                        IN  /\ \A i \in answers : mq[clt[c].srvQ][i].who = c
                            /\ Increasing(clt[c].srvQ, answers, hist[c].got)
        BY DEF AnswersInOrder, Exists
    <2> DEFINE q == clt[c].srvQ
    <2>1. ASSUME NEW i \in AnswersTo(c, q)
          PROVE  mq[q][i].who = c
        <3>1. i \in 1 .. Len(mq[q]) /\ mq[q][i].type = c
            BY <2>1 DEF AnswersTo
        <3>2. ForServer(mq[q][i], DOMAIN mq, bound[SrvName]) \/ FromServer(mq[q][i], me)
            BY <3>1 DEF QueueInv, PackagesInv
        <3> QED
            BY <3>1, <3>2, ServerPidFacts DEF ForServer, FromServer, SEND_TO_SERVER, REG_TO_SERVER
    <2>2. Increasing(q, AnswersTo(c, q), hist[c].got)
        <3>1. \A i \in AnswersTo(c, q) : i \in 1 .. Len(mq[q]) /\ Answer(mq[q][i], c)
            BY DEF AnswersTo, Answer
        <3>2. Trace(c, mq, q, hist[c].got, LastSent(c))
            BY DEF AskInv
        <3>3. hist[c].got \in Nat
            BY DEF TypeInv, ClientType, History
        <3> HIDE DEF q
        <3>4. \A i \in AnswersTo(c, q) : mq[q][i].n > hist[c].got
            BY <3>1, <3>2, <3>3 DEF Trace, q
        <3>5. \A i, j \in AnswersTo(c, q) : i < j => mq[q][i].n < mq[q][j].n
            BY <3>1, <3>2 DEF Trace, q
        <3> QED
            BY <3>4, <3>5 DEF Increasing
    <2> QED
        BY <2>1, <2>2
<1> QED
    BY <1>1, TypeInvariant, QueueInvariant, AskInvariant, PTL

\* A client that is in its exchange of a question may have one answer more to
\* come; every other one that it asked for and has not got, it gave up on.
LEMMA LagStep ==
    ASSUME TypeInv, ListInv, QueueInv, AskInv, LagBounded, Next
    PROVE  LagBounded'
<1> SUFFICES ASSUME NEW c \in Clients
             PROVE  hist'[c].asked - hist'[c].got
                        <= hist'[c].misses + (IF InExchange(c)' THEN 1 ELSE 0)
    BY DEF LagBounded
<1> DEFINE pc == clt[c].pc
           pc2 == clt'[c].pc
           talks == {"sending", "recving", "dead"}
<1>1. /\ hist[c].asked \in Nat /\ hist[c].got \in Nat /\ hist[c].misses \in Nat
      /\ hist'[c].asked \in Nat /\ hist'[c].got \in Nat /\ hist'[c].misses \in Nat
    <2>1. hist[c] \in History /\ hist'[c] \in History
        BY TypeInvNext DEF TypeInv, ClientType
    <2> QED
        BY <2>1 DEF History
<1>2. hist[c].asked - hist[c].got <= hist[c].misses + (IF pc \in talks THEN 1 ELSE 0)
    BY DEF LagBounded, InExchange
<1>3. InExchange(c)' <=> pc2 \in talks
    BY DEF InExchange
<1>4. /\ CltInit(c) => pc = "off"
      /\ SendCall(c) => pc = "ask"
      /\ SendOk(c) \/ SendError(c) => pc = "sending"
      /\ RecvOk(c) \/ RecvMiss(c) => pc = "recving"
    BY DEF CltInit, SendCall, SendOk, SendError, RecvOk, RecvMiss, At
<1>5. RecvOk(c) => hist[c].got < NextMsg(clt[c].srvQ, c).n
    <2> SUFFICES ASSUME RecvOk(c)
                 PROVE  hist[c].got < NextMsg(clt[c].srvQ, c).n
        OBVIOUS
    <2> DEFINE q == clt[c].srvQ
    <2>1. Gets(q, c) /\ c # ANY_MESSAGE
        BY ServerPidFacts DEF RecvOk, ANY_MESSAGE
    <2>2. /\ First(q, c) \in 1 .. Len(mq[q]) /\ q \in DOMAIN mq
          /\ NextMsg(q, c) = mq[q][First(q, c)] /\ Answer(NextMsg(q, c), c)
        BY <2>1, FirstOfType DEF Gets, Exists, TypeInv, NextMsg, Answer
    <2> QED
        BY <2>2 DEF AskInv, Trace
<1>6. LoopTop \notin talks
    BY DEF LoopTop
<1> DEFINE a == hist[c].asked  g == hist[c].got  m == hist[c].misses
           a2 == hist'[c].asked  g2 == hist'[c].got  m2 == hist'[c].misses
<1>7. \/ a2 = a /\ g2 = g /\ m2 = m /\ (pc \in talks => pc2 \in talks)
      \/ a2 = a + 1 /\ g2 = g /\ m2 = m /\ pc \notin talks /\ pc2 \in talks
      \/ a2 = a /\ g < g2 /\ m2 = m
      \/ a2 = a /\ g2 = g /\ m2 = m + 1
    <2> HIDE DEF LagBounded
    <2> QED
        BY <1>4, <1>5, AskCounts
<1> HIDE DEF pc, pc2, a, g, m, a2, g2, m2
<1>8. a2 - g2 <= m2 + (IF pc2 \in talks THEN 1 ELSE 0)
    <2>1. /\ a \in Nat /\ g \in Nat /\ m \in Nat /\ a2 \in Nat /\ g2 \in Nat /\ m2 \in Nat
          /\ a - g <= m + (IF pc \in talks THEN 1 ELSE 0)
        BY <1>1, <1>2 DEF a, g, m, a2, g2, m2
    <2> QED
        BY <1>7, <2>1
<1> QED
    BY <1>3, <1>8 DEF a2, g2, m2

\* A client is behind with its answers by at most as many questions as it has
\* given up on, whatever the servers and the other clients do.
THEOREM ClientsLagIsBounded == Spec => []LagBounded
<1>1. Init => LagBounded
    BY DEF Init, ClientInit, LagBounded, InExchange
<1>2. TypeInv /\ ListInv /\ QueueInv /\ AskInv /\ LagBounded /\ [Next]_vars => LagBounded'
    <2>1. ASSUME LagBounded, UNCHANGED vars
          PROVE  LagBounded'
        BY <2>1 DEF vars, clientVars, LagBounded, InExchange
    <2> QED
        BY <2>1, LagStep
<1> QED
    BY <1>1, <1>2, TypeInvariant, ListInvariant, QueueInvariant, AskInvariant, PTL DEF Spec

\* What client c leaves behind is numbered with its questions: at most one
\* package each, of those it may still have an answer to.
LEMMA LeftBehindNumbers ==
    ASSUME TypeInv, AskInv, NEW c \in Clients
    PROVE  /\ Cardinality(LeftBehind(c)) \in Nat
           /\ Cardinality(LeftBehind(c)) + (IF srv.pid = c THEN 1 ELSE 0)
                 <= LastSent(c) - hist[c].got
<1> DEFINE L == LeftBehind(c)
           got == hist[c].got
           last == LastSent(c)
           open == got + 1 .. last
           T == IF srv.pid = c THEN open \ {cur.n} ELSE open
           f == [e \in L |-> MsgAt(e).n]
<1>1. got \in Nat /\ last \in Int /\ got <= last
    BY DEF TypeInv, ClientType, History, AskInv, LastSent
<1>2. IsFiniteSet(open) /\ Cardinality(open) = last - got
    <2>1. /\ IsFiniteSet(got + 1 .. last)
          /\ Cardinality(got + 1 .. last) = IF got + 1 > last THEN 0 ELSE last - (got + 1) + 1
        <3>1. got + 1 \in Int /\ last \in Int
            BY <1>1
        <3> HIDE DEF got, last
        <3> QED
            BY <3>1, FS_Interval
    <2> QED
        BY <1>1, <2>1
<1>3. ASSUME NEW e \in L
      PROVE  /\ e \in (DOMAIN mq) \X (1 .. Cap) /\ e[1] \in DOMAIN mq /\ e[2] \in 1 .. Len(mq[e[1]])
             /\ Question(MsgAt(e), c) \/ Answer(MsgAt(e), c)
             /\ MsgAt(e).n \in Nat /\ MsgAt(e) = mq[e[1]][e[2]]
    <2>1. /\ e \in (DOMAIN mq) \X (1 .. Cap) /\ e[2] <= Len(mq[e[1]])
          /\ MsgAt(e).who = c /\ MsgAt(e).type \in {SEND_TO_SERVER, c}
        BY DEF LeftBehind, Queued
    <2>2. mq[e[1]] \in Seq(Package) /\ e[2] \in 1 .. Len(mq[e[1]])
        BY <2>1, KernelAssumption, LenProperties DEF TypeInv, KernelType
    <2>3. MsgAt(e) \in Package
        BY <2>2, ElementOfSeq DEF MsgAt
    <2> QED
        BY <2>1, <2>2, <2>3 DEF MsgAt, Package, Question, Answer
<1>4. f \in [L -> T]
    <2> SUFFICES ASSUME NEW e \in L
                 PROVE  MsgAt(e).n \in T
        OBVIOUS
    <2>1. got < MsgAt(e).n /\ MsgAt(e).n <= last /\ (srv.pid = c => MsgAt(e).n # cur.n)
        BY <1>3 DEF AskInv, Trace, Held
    <2> QED
        BY <1>1, <1>3, <2>1
<1>5. ASSUME NEW e \in L, NEW d \in L, MsgAt(e).n = MsgAt(d).n
      PROVE  e = d
    <2>1. Trace(c, mq, clt[c].srvQ, got, last)
        BY DEF AskInv
    <2>2. e[1] = d[1]
        BY <1>3, <2>1, SMTT(20) DEF Trace
    <2>3. e[2] = d[2]
        <3>1. ~(e[2] < d[2]) /\ ~(d[2] < e[2])
            BY <1>3, <1>5, <2>1, <2>2 DEF Trace
        <3>2. e[2] \in Int /\ d[2] \in Int
            BY <1>3
        <3> QED
            BY <3>1, <3>2
    <2>4. e = <<e[1], e[2]>> /\ d = <<d[1], d[2]>>
        BY <1>3
    <2> QED
        BY <2>2, <2>3, <2>4
<1>6. f \in Injection(L, T)
    BY <1>4, <1>5 DEF Injection, IsInjective
<1>7. IsFiniteSet(T) /\ Cardinality(T) = (last - got) - (IF srv.pid = c THEN 1 ELSE 0)
    <2>1. CASE srv.pid = c
        <3>1. cur.n \in open
            <4>1. got < cur.n /\ cur.n <= last
                BY <2>1 DEF AskInv, Held
            <4>2. cur.n \in Nat
                BY DEF TypeInv, ServerType
            <4> QED
                BY <1>1, <4>1, <4>2
        <3>2. T = open \ {cur.n}
            BY <2>1
        <3> HIDE DEF T, open
        <3>3. IsFiniteSet(T) /\ Cardinality(T) = Cardinality(open) - 1
            BY <1>2, <3>1, <3>2, FS_RemoveElement
        <3> QED
            BY <1>1, <1>2, <2>1, <3>3
    <2>2. CASE srv.pid # c
        BY <1>1, <1>2, <2>2
    <2> QED
        BY <2>1, <2>2
<1> HIDE DEF T, f, L
<1>8. IsFiniteSet(L) /\ Cardinality(L) <= Cardinality(T)
    BY <1>6, <1>7, FS_Injection
<1>9. Cardinality(L) \in Nat
    BY <1>8, FS_CardinalityType
<1> QED
    BY <1>1, <1>7, <1>8, <1>9 DEF L

\* What a client leaves on the server's queue is at most a package for each
\* answer it gave up on, and the one under way.
THEOREM BacklogIsBounded == Spec => []BacklogBounded
<1>1. TypeInv /\ AskInv /\ LagBounded => BacklogBounded
    <2> SUFFICES ASSUME TypeInv, AskInv, LagBounded, NEW c \in Clients
                 PROVE  Cardinality(LeftBehind(c)) + (IF srv.pid = c THEN 1 ELSE 0)
                          <= hist[c].misses + (IF clt[c].pc \in {"recving", "dead"} THEN 1 ELSE 0)
        BY DEF BacklogBounded
    <2> DEFINE used == Cardinality(LeftBehind(c)) + (IF srv.pid = c THEN 1 ELSE 0)
    <2>1. used <= LastSent(c) - hist[c].got
        BY LeftBehindNumbers
    <2>2. hist[c].asked \in Nat /\ hist[c].got \in Nat /\ hist[c].misses \in Nat
        BY DEF TypeInv, ClientType, History
    <2>3. LastSent(c) - hist[c].got
             <= hist[c].misses + (IF clt[c].pc \in {"recving", "dead"} THEN 1 ELSE 0)
        BY <2>2 DEF LagBounded, InExchange, LastSent, At
    <2>4. used \in Int
        BY LeftBehindNumbers
    <2> HIDE DEF used
    <2>5. used <= hist[c].misses + (IF clt[c].pc \in {"recving", "dead"} THEN 1 ELSE 0)
        BY <2>1, <2>2, <2>3, <2>4 DEF LastSent
    <2> QED
        BY <2>5 DEF used
<1> QED
    BY <1>1, TypeInvariant, AskInvariant, ClientsLagIsBounded, PTL

-----------------------------------------------------------------------------
(* Events *)

\* On the queues other than b, events are in order, and up to the last; while
\* a broadcast has not come to a queue, the last is not on it.
Orderly(Q, b, last, todo) ==
    \A q \in DOMAIN Q : q # b => \A i, j \in 1 .. Len(Q[q]) :
        /\ Q[q][i].n <= last /\ (q \in todo => Q[q][i].n < last)
        /\ i < j /\ Q[q][i].n > 0 /\ Q[q][j].n > 0 => Q[q][i].n < Q[q][j].n

\* The events on queue q, and the one under way to it, are newer than h.
Newer(Q, q, h, last, todo) ==
    /\ \A i \in 1 .. Len(Q[q]) : Q[q][i].n > 0 => Q[q][i].n > h
    /\ q \in todo => h < last

\* The events on the queue that a client's key leads to are newer than those
\* that the client, or another one with its key, has handled.
EventInv ==
    /\ Orderly(mq, bound[SrvName], evt, ToSet(srv.todo))
    /\ \A c \in Clients :
          /\ hist[c].handled <= evt
          /\ \A q \in DOMAIN mq : q # bound[SrvName] /\ bound[KeyOf[c]] = q =>
                Newer(mq, q, hist[c].handled, evt, ToSet(srv.todo))

\* Events are counted up, and a broadcast goes on with fewer queues.
LEMMA EventCounts ==
    ASSUME TypeInv, ListInv, Next
    PROVE  \/ evt' = evt + 1 /\ UNCHANGED kernelVars /\ UNCHANGED clientVars
           \/ /\ evt' = evt /\ ToSet(srv'.todo) \subseteq ToSet(srv.todo)
              /\ SrvEventSend => Head(srv.todo) \notin ToSet(srv'.todo)
<1> USE DEF SrvGoto
<1>0. srv \in ServerRecord /\ ToSet(<<>>) = {}
    BY DEF TypeInv, ServerType, ToSet
<1> DEFINE Fewer == evt' = evt /\ ToSet(srv'.todo) \subseteq ToSet(srv.todo)
<1>1. CASE \E len \in EventLens : SrvEventStart(len)
    <2>1. evt' = evt + 1 /\ UNCHANGED kernelVars /\ srv'.pc = "bcast" /\ srv.pc = "event"
        BY <1>0, <1>1 DEF SrvEventStart, SrvAt, ServerRecord
    <2>2. UNCHANGED clientVars
        BY <2>1 DEF Next, serverVars
    <2> QED
        BY <2>1, <2>2
<1>2. CASE SrvEventSend
    <2>1. srv'.todo = Tail(srv.todo) /\ evt' = evt /\ srv.todo # <<>>
        BY <1>0, <1>2 DEF SrvEventSend, Del, ServerRecord
    <2>2. ToSet(srv'.todo) = ToSet(srv.todo) \ {Head(srv.todo)}
        BY <1>0, <2>1, DistinctTail DEF ServerRecord, ListInv
    <2> QED
        BY <2>1, <2>2
<1>3. ASSUME SrvStart \/ SrvDestroy \/ SrvKilled
      PROVE  Fewer
    <2>1. evt' = evt /\ srv'.todo = <<>>
        <3>1. CASE SrvStart
            BY <3>1 DEF SrvStart, NewSrv
        <3>2. CASE SrvDestroy \/ SrvKilled
            BY <3>2 DEF SrvDestroy, SrvKilled, NewSrv
        <3> QED
            BY <1>3, <3>1, <3>2
    <2> QED
        BY <1>0, <2>1
<1>4. ASSUME \/ SrvClear \/ SrvClearDone \/ SrvRecv \/ SrvRecvBusy \/ SrvRecvMiss \/ MonReqFull
             \/ MonReqMiss \/ SrvRespond \/ SrvEventSkip \/ SrvEventEnd
             \/ \E len \in ReplyLens : SrvSend(len) \/ SrvSendRefused(len)
      PROVE  Fewer
    <2>1. CASE SrvClear \/ SrvClearDone \/ SrvRecv \/ SrvRecvBusy \/ SrvRecvMiss
        BY <1>0, <2>1 DEF SrvClear, ClearTurn, serverVars, SrvClearDone, SrvRecv, SrvRecvBusy,
                          SrvRecvMiss, ServerRecord
    <2>2. CASE MonReqFull \/ MonReqMiss \/ SrvRespond \/ SrvEventSkip \/ SrvEventEnd
        BY <1>0, <2>2 DEF MonReqFull, MonReqMiss, SrvRespond, SrvEventSkip, SrvEventEnd, ServerRecord
    <2>3. ASSUME NEW len, SrvSend(len) \/ SrvSendRefused(len)
          PROVE  Fewer
        BY <1>0, <2>3 DEF SrvSend, SrvSendRefused, Answered, ServerRecord
    <2> HIDE DEF Fewer
    <2> QED
        BY <1>4, <2>1, <2>2, <2>3
<1>5. ASSUME MonReqAdmit
      PROVE  Fewer
    <2> DEFINE q == NextMsg(srv.qid, REG_TO_SERVER).xid
    <2>1. srv' = [Add(srv, q) EXCEPT !.pc = "respond", !.req = q] /\ evt' = evt
        BY <1>5 DEF MonReqAdmit
    <2> HIDE DEF q
    <2> QED
        BY <1>0, <2>1 DEF Add, ServerRecord
<1>6. ASSUME SrvRespondGone
      PROVE  Fewer
    BY <1>0, <1>6 DEF SrvRespondGone, Del, ServerRecord
<1>7. ASSUME UNCHANGED serverVars
      PROVE  Fewer
    BY <1>7 DEF serverVars
<1> HIDE DEF Fewer
<1>8. \/ Fewer \/ SrvEventSend \/ \E len \in EventLens : SrvEventStart(len)
    BY <1>3, <1>4, <1>5, <1>6, <1>7 DEF Next, ServerStep
<1> QED
    BY <1>1, <1>2, <1>8 DEF Fewer

\* A client's handler is given an event only by monitor_event.
LEMMA HandledCounts ==
    ASSUME TypeInv, Next, NEW c \in Clients
    PROVE  \/ hist'[c].handled = hist[c].handled
           \/ /\ MonitorEvent(c) /\ Alive(c) /\ UNCHANGED serverVars
              /\ hist'[c].handled = NextMsg(clt[c].eid, ANY_MESSAGE).n
<1> USE DEF At, Goto
<1>0. hist \in [Clients -> History] /\ hist[c] \in History
    BY DEF TypeInv, ClientType
<1> DEFINE Same == hist'[c].handled = hist[c].handled
           Handled(d) == /\ d = c /\ MonitorEvent(c)
                         /\ hist'[c].handled = NextMsg(clt[c].eid, ANY_MESSAGE).n
<1>1. ASSUME NEW d \in Clients, ClientTurn(d)
      PROVE  Same \/ Handled(d)
    <2>1. CASE MonitorEvent(d)
        <3>1. hist' = hist \/ hist' = [hist EXCEPT ![d].handled = NextMsg(clt[d].eid, ANY_MESSAGE).n]
            BY <2>1 DEF MonitorEvent
        <3> QED
            BY <1>0, <2>1, <3>1 DEF History
    <2>2. CASE SendCall(d)
        <3>1. hist' = [hist EXCEPT ![d].asked = hist[d].asked + 1]
            BY <2>2 DEF SendCall
        <3> QED
            BY <1>0, <3>1 DEF History
    <2>3. CASE RecvOk(d) \/ RecvMiss(d)
        BY <1>0, <2>3 DEF RecvOk, RecvMiss, History
    <2>4. CASE \/ CltInit(d) \/ RequestKnown(d) \/ RequestOpen(d) \/ RequestSend(d) \/ RequestRefused(d)
               \/ RequestAnswered(d) \/ RequestTimeout(d) \/ MonitorTimeout(d) \/ MonitorError(d)
               \/ AskLater(d) \/ SendOk(d) \/ SendError(d)
        BY <2>4 DEF CltInit, RequestKnown, RequestOpen, RequestSend, RequestRefused, RequestAnswered,
            RequestTimeout, MonitorTimeout, MonitorError, AskLater, SendOk, SendError
    <2> HIDE DEF Same, Handled
    <2> QED
        BY <1>1, <2>1, <2>2, <2>3, <2>4 DEF ClientTurn, ClientStep
<1>2. ASSUME NEW d \in Clients, CltDestroy(d) \/ CltKilled(d)
      PROVE  Same
    BY <1>2 DEF CltDestroy, CltKilled
<1>3. UNCHANGED clientVars => Same
    BY DEF clientVars
<1> HIDE DEF Same, Handled
<1>4. Same \/ \E d \in Clients : Handled(d) /\ UNCHANGED serverVars
    BY <1>1, <1>2, <1>3 DEF Next
<1>5. MonitorEvent(c) => Alive(c)
    BY DEF MonitorEvent, Alive
<1> QED
    BY <1>4, <1>5 DEF Same, Handled

\* What is sent to a private queue is a reply or the event of a broadcast.
LEMMA PrivateSend ==
    ASSUME TypeInv, QueueInv, NEW q \in DOMAIN mq, q # bound[SrvName], NEW m, Sends(q, m)
    PROVE  \/ m.n = 0
           \/ SrvEventSend /\ q = Head(srv.todo) /\ m.n = evt
<1> USE DEF QueueInv, TypeInv
<1>1. ASSUME NEW c \in Clients, RequestSend(c) \/ SendOk(c), q = clt[c].srvQ
      PROVE  FALSE
    BY <1>1 DEF KeysInv, Exists, RequestSend, SendOk, Alive, At
<1>2. ASSUME NEW len, SrvSend(len), q = srv.qid
      PROVE  FALSE
    BY <1>2 DEF KeysInv, Exists
<1>3. m = Pkg(REG_TO_SERVER, me, 0, me, 0) => m.n = 0
    BY DEF Pkg
<1>4. m = Pkg(me, 0, srv.len, me, evt) => m.n = evt
    BY DEF Pkg
<1> QED
    BY <1>1, <1>2, <1>3, <1>4 DEF Sends

\* A step that starts no broadcast keeps the events in order and new.
LEMMA EventKept ==
    ASSUME TypeInv, ListInv, QueueInv, EventInv, Next, evt' = evt,
           ToSet(srv'.todo) \subseteq ToSet(srv.todo),
           SrvEventSend => Head(srv.todo) \notin ToSet(srv'.todo)
    PROVE  /\ Orderly(mq', bound'[SrvName], evt, ToSet(srv'.todo))
           /\ \A c \in Clients : \A q \in DOMAIN mq' :
                 q # bound'[SrvName] /\ bound'[KeyOf[c]] = q =>
                    Newer(mq', q, hist[c].handled, evt, ToSet(srv'.todo))
<1> USE DEF QueueInv, TypeInv
<1> DEFINE todo == ToSet(srv.todo)
           todo2 == ToSet(srv'.todo)
           b == bound[SrvName]
           b2 == bound'[SrvName]
<1>0. KernelStep /\ KernelType /\ evt \in Nat
    BY KernelSteps DEF ServerType
<1>1. /\ \A q \in DOMAIN mq : q \in DOMAIN mq' => \A k \in Names : bound'[k] = q <=> bound[k] = q
      /\ \A q \in todo2 : q \in DOMAIN mq' => q \in DOMAIN mq
    BY <1>0, Remembered, Known
<1>2. /\ Orderly(mq, b, evt, todo)
      /\ \A c \in Clients : \A q \in DOMAIN mq : q # b /\ bound[KeyOf[c]] = q =>
            Newer(mq, q, hist[c].handled, evt, todo)
      /\ \A c \in Clients : hist[c].handled \in Nat
    BY DEF EventInv, ClientType, History
<1> HIDE DEF b, b2, todo, todo2
<1>3. CASE Thinned(mq, mq')
    <2>1. Orderly(mq', b2, evt, todo2)
        <3> SUFFICES ASSUME NEW q \in DOMAIN mq', q # b2,
                            NEW i \in 1 .. Len(mq'[q]), NEW j \in 1 .. Len(mq'[q])
                     PROVE  /\ mq'[q][i].n <= evt /\ (q \in todo2 => mq'[q][i].n < evt)
                            /\ i < j /\ mq'[q][i].n > 0 /\ mq'[q][j].n > 0 => mq'[q][i].n < mq'[q][j].n
            BY DEF Orderly
        <3>1. q \in DOMAIN mq
            BY <1>3, ThinnedElement
        <3>2. q # b
            BY <1>1, <3>1, ClientNats DEF b, b2
        <3>3. PICK k, l \in 1 .. Len(mq[q]) :
                 mq'[q][i] = mq[q][k] /\ mq'[q][j] = mq[q][l] /\ (i < j => k < l)
            <4>1. Matched(mq, mq', q, i, j)
                BY <1>3 DEF Thinned
            <4> QED
                BY <4>1 DEF Matched
        <3>4. q \in todo2 => q \in todo
            BY DEF todo, todo2
        <3> QED
            BY <1>2, <3>1, <3>2, <3>3, <3>4 DEF Orderly
    <2>2. ASSUME NEW c \in Clients, NEW q \in DOMAIN mq', q # b2, bound'[KeyOf[c]] = q
          PROVE  Newer(mq', q, hist[c].handled, evt, todo2)
        <3>1. CASE q \in DOMAIN mq
            <4>1. Newer(mq, q, hist[c].handled, evt, todo)
                BY <1>1, <1>2, <2>2, <3>1, ClientNats DEF b, b2
            <4>2. \A i \in 1 .. Len(mq'[q]) : \E k \in 1 .. Len(mq[q]) : mq'[q][i] = mq[q][k]
                BY <1>3, ThinnedElement
            <4>3. q \in todo2 => q \in todo
                BY DEF todo, todo2
            <4> QED
                BY <4>1, <4>2, <4>3 DEF Newer
        <3>2. CASE q \notin DOMAIN mq
            BY <1>1, <1>3, <3>2, ThinnedElement DEF Newer
        <3> QED
            BY <3>1, <3>2
    <2> QED
        BY <2>1, <2>2 DEF b2, todo2
<1>4. ASSUME NEW x \in DOMAIN mq, NEW m \in Package, Room(x), MsgSnd(x, m), Sends(x, m)
      PROVE  /\ Orderly(mq', b2, evt, todo2)
             /\ \A c \in Clients : \A q \in DOMAIN mq' : q # b2 /\ bound'[KeyOf[c]] = q =>
                   Newer(mq', q, hist[c].handled, evt, todo2)
    <2>1. /\ DOMAIN mq' = DOMAIN mq /\ bound' = bound
          /\ \A q \in DOMAIN mq : q # x => mq'[q] = mq[q]
          /\ Len(mq[x]) \in Nat /\ Len(mq'[x]) = Len(mq[x]) + 1
          /\ \A i \in 1 .. Len(mq[x]) : mq'[x][i] = mq[x][i]
          /\ mq'[x][Len(mq[x]) + 1] = m
        BY <1>0, <1>4, Sent
    <2>2. b2 = b
        BY <2>1 DEF b, b2
    <2>3. x # b => \/ m.n = 0
                   \/ m.n = evt /\ x \notin todo2 /\ x \in todo
        <3>1. SrvEventSend => Head(srv.todo) \in todo
            BY DistinctTail DEF SrvEventSend, ListInv, ServerType, ServerRecord, todo
        <3> QED
            BY <1>4, <3>1, PrivateSend DEF b, todo2
    <2>4. \A q \in DOMAIN mq : \A i \in 1 .. Len(mq'[q]) :
             \/ i \in 1 .. Len(mq[q]) /\ mq'[q][i] = mq[q][i]
             \/ q = x /\ i = Len(mq[x]) + 1 /\ mq'[q][i] = m
        BY <2>1
    <2>5. todo2 \subseteq todo
        BY DEF todo, todo2
    <2>6. Orderly(mq', b2, evt, todo2)
        <3> SUFFICES ASSUME NEW q \in DOMAIN mq, q # b,
                            NEW i \in 1 .. Len(mq'[q]), NEW j \in 1 .. Len(mq'[q])
                     PROVE  /\ mq'[q][i].n <= evt /\ (q \in todo2 => mq'[q][i].n < evt)
                            /\ i < j /\ mq'[q][i].n > 0 /\ mq'[q][j].n > 0 => mq'[q][i].n < mq'[q][j].n
            BY <2>1, <2>2 DEF Orderly
        <3> DEFINE OldAt(k) == k \in 1 .. Len(mq[q]) /\ mq'[q][k] = mq[q][k]
                   NewAt(k) == q = x /\ k = Len(mq[x]) + 1 /\ mq'[q][k] = m
        <3>1. (OldAt(i) \/ NewAt(i)) /\ (OldAt(j) \/ NewAt(j))
            BY <2>4
        <3>2. CASE OldAt(i) /\ OldAt(j)
            BY <1>2, <2>5, <3>2 DEF Orderly
        <3>3. CASE OldAt(i) /\ NewAt(j)
            BY <1>2, <2>3, <2>5, <3>3 DEF Orderly
        <3>4. CASE NewAt(i)
            <4>1. ~(i < j)
                BY <2>1, <3>1, <3>4
            <4>2. q \in todo => evt > 0
                <5>1. q \in todo => SrvAt("bcast")
                    BY DEF ListInv, todo, ToSet
                <5> QED
                    BY <5>1 DEF ProcessInv
            <4> QED
                BY <1>0, <2>3, <2>5, <3>4, <4>1, <4>2
        <3> QED
            BY <3>1, <3>2, <3>3, <3>4
    <2>7. ASSUME NEW c \in Clients, NEW q \in DOMAIN mq, q # b, bound[KeyOf[c]] = q
          PROVE  Newer(mq', q, hist[c].handled, evt, todo2)
        <3>1. Newer(mq, q, hist[c].handled, evt, todo)
            BY <1>2, <2>7
        <3>2. ASSUME NEW i \in 1 .. Len(mq'[q]), mq'[q][i].n > 0
              PROVE  mq'[q][i].n > hist[c].handled
            BY <1>0, <1>2, <2>3, <2>4, <2>7, <3>1, <3>2, SMTT(20) DEF Newer
        <3> QED
            BY <2>5, <3>1, <3>2 DEF Newer
    <2> QED
        BY <2>1, <2>2, <2>6, <2>7
<1> QED
    BY <1>0, <1>3, <1>4, SentOrThinned DEF b2, todo2

LEMMA EventInvStep ==
    ASSUME TypeInv, ListInv, QueueInv, EventInv, Next
    PROVE  EventInv'
<1> USE DEF QueueInv, TypeInv
<1>0. evt \in Nat /\ KernelType /\ \A c \in Clients : hist[c].handled \in Nat
    BY DEF ServerType, ClientType, History
<1>1. CASE evt' = evt + 1 /\ UNCHANGED kernelVars /\ UNCHANGED clientVars
    <2>1. mq' = mq /\ bound' = bound /\ hist' = hist
        BY <1>1 DEF kernelVars, clientVars
    <2>2. Numbered(mq)
        BY <1>0, PackagesNumbered
    <2>3. Orderly(mq, bound[SrvName], evt', ToSet(srv'.todo))
        BY <1>0, <1>1, <2>2 DEF EventInv, Orderly, Numbered
    <2>4. \A c \in Clients : hist[c].handled < evt'
        BY <1>0, <1>1 DEF EventInv
    <2>5. ASSUME NEW c \in Clients, NEW q \in DOMAIN mq, q # bound[SrvName], bound[KeyOf[c]] = q
          PROVE  Newer(mq, q, hist[c].handled, evt', ToSet(srv'.todo))
        BY <2>4, <2>5 DEF EventInv, Newer
    <2> QED
        BY <1>0, <1>1, <2>1, <2>3, <2>4, <2>5 DEF EventInv
<1>2. CASE /\ evt' = evt /\ ToSet(srv'.todo) \subseteq ToSet(srv.todo)
           /\ SrvEventSend => Head(srv.todo) \notin ToSet(srv'.todo)
    <2>1. /\ Orderly(mq', bound'[SrvName], evt', ToSet(srv'.todo))
          /\ \A c \in Clients : \A q \in DOMAIN mq' :
                q # bound'[SrvName] /\ bound'[KeyOf[c]] = q =>
                   Newer(mq', q, hist[c].handled, evt', ToSet(srv'.todo))
        BY <1>2, EventKept
    <2>2. ASSUME NEW c \in Clients
          PROVE  /\ hist'[c].handled <= evt
                 /\ \A q \in DOMAIN mq' : q # bound'[SrvName] /\ bound'[KeyOf[c]] = q =>
                       Newer(mq', q, hist'[c].handled, evt', ToSet(srv'.todo))
        <3>1. CASE hist'[c].handled = hist[c].handled
            BY <2>1, <3>1 DEF EventInv
        <3>2. CASE /\ MonitorEvent(c) /\ Alive(c) /\ UNCHANGED serverVars
                   /\ hist'[c].handled = NextMsg(clt[c].eid, ANY_MESSAGE).n
            <4> DEFINE x == clt[c].eid
                       f == First(x, ANY_MESSAGE)
                       m == NextMsg(x, ANY_MESSAGE)
            <4>1. Gets(x, ANY_MESSAGE) /\ MsgRcv(x, ANY_MESSAGE)
                BY <3>2 DEF MonitorEvent
            <4>2. /\ x \in DOMAIN mq /\ f \in 1 .. Len(mq[x]) /\ m = mq[x][f] /\ m.n \in Nat
                  /\ bound' = bound /\ DOMAIN mq' = DOMAIN mq
                BY <4>1, Received DEF Package
            <4>3. bound[KeyOf[c]] = x /\ x # bound[SrvName]
                BY <3>2, <4>2, PrivateQueue DEF Exists
            <4> HIDE DEF m, f
            <4>4. m.n <= evt /\ (x \in ToSet(srv.todo) => m.n < evt)
                BY <4>2, <4>3 DEF EventInv, Orderly
            <4>5. \A i \in 1 .. Len(mq'[x]) : mq'[x][i].n > 0 => mq'[x][i].n > m.n
                <5> SUFFICES ASSUME NEW i \in 1 .. Len(mq'[x]), mq'[x][i].n > 0
                             PROVE  mq'[x][i].n > m.n
                    OBVIOUS
                <5>1. PICK k \in 1 .. Len(mq[x]) : mq'[x][i] = mq[x][k] /\ f < k
                    BY <4>1, LeftAfter DEF f
                <5>2. m.n > 0 => m.n < mq[x][k].n
                    BY <4>2, <4>3, <5>1 DEF EventInv, Orderly
                <5> QED
                    BY <4>2, <5>1, <5>2
            <4>6. hist'[c].handled = m.n /\ srv' = srv
                BY <3>2 DEF m, serverVars
            <4>7. Newer(mq', x, m.n, evt, ToSet(srv.todo))
                BY <4>4, <4>5 DEF Newer
            <4> QED
                BY <1>2, <4>2, <4>3, <4>4, <4>6, <4>7
        <3> QED
            BY <3>1, <3>2, HandledCounts
    <2> QED
        BY <1>2, <2>1, <2>2 DEF EventInv
<1> QED
    BY <1>1, <1>2, EventCounts

LEMMA EventInvariant == Spec => []EventInv
<1>1. Init => EventInv
    BY DEF Init, KernelInit, ClientInit, ServerInit, EventInv, Orderly
<1>2. TypeInv /\ ListInv /\ QueueInv /\ EventInv /\ [Next]_vars => EventInv'
    <2>1. ASSUME EventInv, UNCHANGED vars
          PROVE  EventInv'
        BY <2>1 DEF vars, kernelVars, clientVars, serverVars, EventInv
    <2> QED
        BY <2>1, EventInvStep
<1> QED
    BY <1>1, <1>2, TypeInvariant, ListInvariant, QueueInvariant, PTL DEF Spec

\* The events on the private queue of a client are in the order they were
\* broadcast, none twice, and newer than all that its handler has had, also
\* when the server, or the client that had the key before, was replaced.
THEOREM EventsAreInOrder == Spec => []EventsInOrder
<1>1. TypeInv /\ QueueInv /\ EventInv => EventsInOrder
    <2> SUFFICES ASSUME TypeInv, QueueInv, EventInv, NEW c \in Clients, Exists(clt[c].eid), Alive(c)
                 PROVE  Increasing(clt[c].eid, EventsOn(clt[c].eid), hist[c].handled)
        BY DEF EventsInOrder, Alive, At
    <2> DEFINE q == clt[c].eid
    <2>1. q \in DOMAIN mq /\ bound[KeyOf[c]] = q /\ q # bound[SrvName]
        BY PrivateQueue DEF QueueInv
    <2>2. \A i \in EventsOn(q) : i \in 1 .. Len(mq[q]) /\ mq[q][i].n > 0
        BY DEF EventsOn
    <2> HIDE DEF q
    <2>3. \A i \in EventsOn(q) : mq[q][i].n > hist[c].handled
        BY <2>1, <2>2 DEF EventInv, Newer
    <2>4. \A i, j \in EventsOn(q) : i < j => mq[q][i].n < mq[q][j].n
        BY <2>1, <2>2 DEF EventInv, Orderly
    <2> QED
        BY <2>3, <2>4 DEF Increasing, q
<1> QED
    BY <1>1, TypeInvariant, QueueInvariant, EventInvariant, PTL
=============================================================================
