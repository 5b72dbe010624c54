---------------------------- MODULE ServerProofs ----------------------------
(***************************************************************************)
(* What is proved of the request server for every number of clients,       *)
(* workers and connections.                                                *)
(***************************************************************************)
EXTENDS ServerProperties, QueueLemmas, FiniteSetTheorems

(***************************************************************************)
(* The inductive invariant.                                                *)
(***************************************************************************)
\* The manager has a request in hand only on its way to push; what it still
\* has to look at in its scan is as select found it.
ManagerOK ==
  /\ mgr.req # NULL <=> mgr.pc = "push"
  /\ \A c \in Client : c \in mgr.ready => c \in set
  /\ "pipe" \in mgr.ready => pipe_fd # <<>>

\* The statements at which a worker has a request.
Serving == {"serve", "repipe", "decRead", "decWrite"}

WorkersOK == \A w \in Worker : wk[w].req # NULL <=> wk[w].pc \in Serving

\* Types, and what a statement says of the fields.
Typed == TypeOK /\ ManagerOK /\ WorkersOK

ListInv == (\E s : Represents(s)) /\ count_rq = Cardinality(queued)

\* Where the server has its clients.
Hand == {mgr.req} \ {NULL}

Served == {wk[w].req : w \in Worker} \ {NULL}

Piped == Elements(pipe_fd)

Apart ==
  /\ set \cap Hand = {} /\ set \cap queued = {} /\ set \cap Served = {} /\ set \cap Piped = {}
  /\ Hand \cap queued = {} /\ Hand \cap Served = {} /\ Hand \cap Piped = {}
  /\ queued \cap Served = {} /\ queued \cap Piped = {}
  /\ Served \cap Piped = {}

CustodyInv ==
  /\ connected = UNION {set, Hand, queued, Served, Piped}
  /\ Apart
  /\ \A v, w \in Worker : wk[v].req = wk[w].req /\ wk[v].req # NULL => v = w
  /\ Distinct(pipe_fd)

\* Who holds the lock to decide about sleeping has seen an empty queue.
LockInv == ~LockFree => queued = {}

IInv == Typed /\ ListInv /\ CustodyInv /\ LockInv /\ SleepersNotNeeded

(***************************************************************************)
(* Records.                                                                *)
(***************************************************************************)
\* What Become does to the workers' records.
LEMMA WorkerUpdate ==
  ASSUME TypeOK, NEW w \in Worker, NEW rec, Become(w, rec)
  PROVE  \A v \in Worker : wk'[v] = IF v = w THEN rec ELSE wk[v]
BY DEF TypeOK, Become

(***************************************************************************)
(* The steps that move a client from one place to another; all others      *)
(* leave the clients where they are.                                       *)
(***************************************************************************)
Still ==
  /\ UNCHANGED <<queue, set, pipe_fd>>
  /\ mgr'.req = mgr.req
  /\ \A w \in Worker : wk'[w].req = wk[w].req
  /\ connected' = connected

\* Of the manager's steps, four move a client.
LEMMA ManagerCases ==
  ASSUME TypeOK, Manager
  PROVE  Still \/ MAccept \/ MReactivate \/ (\E c \in Client : MRead(c)) \/ MPush
<1> USE DEF Still, connected
<1>1. CASE MTest
  BY <1>1 DEF MTest, MGoto, clients, TypeOK
<1>2. CASE MSelect \/ MScanned \/ MJoin
  BY <1>2 DEF MSelect, MScanned, MJoin, MGoto, clients, TypeOK
<1>3. CASE MHup \/ MInt \/ MCount
  BY <1>3 DEF MHup, MInt, MCount, Seen, clients, TypeOK
<1>4. CASE MReadListener \/ \E c \in Client : MReadEnd(c)
  BY <1>4 DEF MReadListener, MReadEnd, Exit, server, clients
<1>5. CASE MBroadcast
  <2>1. \A w \in Worker : wk'[w].req = wk[w].req
    BY <1>5 DEF MBroadcast, TypeOK
  <2> QED
    BY <1>5, <2>1 DEF MBroadcast, clients, TypeOK
<1> QED
  BY <1>1, <1>2, <1>3, <1>4, <1>5 DEF Manager

\* Of a worker's steps, three move a client.
LEMMA WorkerCases ==
  ASSUME TypeOK, NEW w \in Worker, WorkerStep(w)
  PROVE  Still \/ WPop(w) \/ WReactivate(w) \/ WDecWrite(w)
<1>1. ASSUME NEW rec, Become(w, rec), rec.req = wk[w].req
      PROVE  \A v \in Worker : wk'[v].req = wk[v].req
  BY <1>1, WorkerUpdate
<1>2. \A pc : [wk[w] EXCEPT !.pc = pc].req = wk[w].req
  BY DEF TypeOK
<1>3. ASSUME NEW from, NEW to, WGoto(w, from, to)
      PROVE  Still
  BY <1>1, <1>2, <1>3 DEF WGoto, WorkerStep, Still, connected
<1>4. CASE WTestInt(w) \/ WTestClients(w) \/ WTestHup(w) \/ WSleep(w)
  BY <1>3, <1>4 DEF WTestInt, WTestClients, WTestHup, WSleep
<1>5. CASE WAnswerDead(w)
  BY <1>5 DEF WAnswerDead, Exit, server, clients, Still, connected
<1>6. ASSUME NEW message, NEW state, NEW pc, Reply(w, message, state, pc)
      PROVE  Still
  BY <1>1, <1>2, <1>6 DEF Reply, WorkerStep, Still, connected
<1>7. CASE WAnswer(w) \/ WCloseConnection(w)
  BY <1>6, <1>7 DEF WAnswer, WCloseConnection
<1>8. CASE WDecRead(w)
  <2>1. [wk[w] EXCEPT !.pc = "decWrite", !.reg = nclient].req = wk[w].req
    BY DEF TypeOK
  <2> QED
    BY <1>1, <1>8, <2>1 DEF WDecRead, WorkerStep, Still, connected
<1> QED
  BY <1>4, <1>5, <1>7, <1>8 DEF WorkerStep

\* A step of a client or of the signal thread leaves the server alone.
LEMMA ClientCases ==
  ASSUME TypeOK, \/ \E c \in Client : Depart(c)
                 \/ \E c \in Client : Up /\ (OpenConnection(c) \/ Ask(c) \/ Vanish(c))
                 \/ Up /\ ThreadSignal
  PROVE  Still /\ UNCHANGED <<server, exited>>
<1>1. UNCHANGED <<server, exited>>
  BY DEF Depart, Up
<1>2. connected' = connected
  BY DEF connected, TypeOK, Depart, CloseConnection, OpenConnection, Ask, Vanish, Send, ThreadSignal, clients
<1> QED
  BY <1>1, <1>2 DEF Still, server

\* Every step leaves the clients in their places or is one of seven.
LEMMA Cases ==
  ASSUME TypeOK, [Next]_vars
  PROVE  \/ Still
         \/ Manager /\ (MAccept \/ MReactivate \/ (\E c \in Client : MRead(c)) \/ MPush)
         \/ \E w \in Worker : WorkerStep(w) /\ (WPop(w) \/ WReactivate(w) \/ WDecWrite(w))
<1>1. CASE UNCHANGED vars
  BY <1>1 DEF vars, queue, Still, connected
<1> QED
  BY <1>1, ManagerCases, WorkerCases, ClientCases DEF Next

(***************************************************************************)
(* Custody.                                                                *)
(***************************************************************************)
\* The workers' requests after one of them has changed its own.
LEMMA ServedUpdate ==
  ASSUME TypeOK, CustodyInv, NEW w \in Worker, NEW rec, Become(w, rec)
  PROVE  Served' = (Served \ {wk[w].req}) \cup ({rec.req} \ {NULL})
<1>1. \A v \in Worker : wk'[v] = IF v = w THEN rec ELSE wk[v]
  BY WorkerUpdate
<1>2. ASSUME NEW c \in Served'
      PROVE  c \in (Served \ {wk[w].req}) \cup ({rec.req} \ {NULL})
  <2>1. PICK v \in Worker : c = wk'[v].req
    BY DEF Served
  <2>2. c # NULL
    BY DEF Served
  <2>3. CASE v # w
    <3>1. c = wk[v].req
      BY <1>1, <2>1, <2>3
    <3>2. wk[v].req # wk[w].req
      BY <2>2, <2>3, <3>1 DEF CustodyInv
    <3> QED
      BY <2>2, <3>1, <3>2 DEF Served
  <2> QED
    BY <1>1, <2>1, <2>2, <2>3
<1>3. ASSUME NEW c \in Served \ {wk[w].req}
      PROVE  c \in Served'
  <2>1. PICK v \in Worker : c = wk[v].req
    BY DEF Served
  <2>2. v # w /\ c # NULL
    BY <2>1 DEF Served
  <2>3. c = wk'[v].req
    BY <1>1, <2>1, <2>2
  <2> QED
    BY <2>2, <2>3 DEF Served
<1>4. ASSUME rec.req # NULL
      PROVE  rec.req \in Served'
  <2>1. rec.req = wk'[w].req
    BY <1>1
  <2> QED
    BY <1>4, <2>1 DEF Served
<1> QED
  BY <1>2, <1>3, <1>4

\* Where nothing moves, custody stays.
LEMMA StillCustody ==
  ASSUME CustodyInv, ListInv, Still
  PROVE  CustodyInv' /\ queued' = queued
<1>1. queued' = queued /\ Hand' = Hand /\ Piped' = Piped /\ set' = set
  BY DEF Still, queue, queued, Hand, Piped, Elements
<1>2. Served' = Served
  BY DEF Still, Served
<1> QED
  BY <1>1, <1>2 DEF CustodyInv, Apart, Still, Distinct

\* accept: the new connection is nowhere yet.
LEMMA AcceptCustody ==
  ASSUME Typed, CustodyInv, Manager, MAccept
  PROVE  CustodyInv'
<1>1. PICK c \in backlog : set' = set \cup {c} /\ conn' = [conn EXCEPT ![c] = "open"]
  BY DEF MAccept
<1>2. c \in Client /\ c \notin connected
  BY <1>1 DEF backlog, connected
<1>3. connected' = connected \cup {c}
  BY <1>1, <1>2 DEF connected, Typed, TypeOK
<1>4. Hand' = Hand /\ UNCHANGED <<queued, Piped, Served>>
  BY DEF MAccept, Seen, queue, queued, Hand, Piped, Served, Elements, Typed, TypeOK
<1>5. UNCHANGED <<wk, pipe_fd>>
  BY DEF MAccept
<1> QED
  BY <1>1, <1>2, <1>3, <1>4, <1>5 DEF CustodyInv, Apart, Distinct

\* The pipe gives a client back to select.
LEMMA ReactivateCustody ==
  ASSUME Typed, CustodyInv, Manager, MReactivate
  PROVE  CustodyInv'
<1>1. pipe_fd \in Seq(Client) /\ pipe_fd # <<>>
  BY DEF Typed, TypeOK, ManagerOK, MReactivate, Turn
<1>2. PICK s \in Seq(Client) : s = pipe_fd
  BY <1>1
<1>3. PICK t : t = pipe_fd'
  OBVIOUS
<1>4. Distinct(s) /\ Elements(s) = Piped
  BY <1>2 DEF CustodyInv, Distinct, Piped, Elements
<1>5. Distinct(t) /\ Head(s) \in Elements(s) /\ Elements(t) = Elements(s) \ {Head(s)}
  BY <1>1, <1>2, <1>3, <1>4, TailDistinct DEF MReactivate
<1>6. Piped' = Piped \ {Head(pipe_fd)} /\ Head(pipe_fd) \in Piped /\ Distinct(pipe_fd)'
  <2>1. Piped' = Elements(t)
    BY <1>3 DEF Piped, Elements
  <2>2. Distinct(pipe_fd)'
    BY <1>3, <1>5 DEF Distinct
  <2> QED
    BY <1>2, <1>4, <1>5, <2>1, <2>2
<1>7. Hand' = Hand /\ UNCHANGED <<queued, Served, connected, wk>> /\ set' = set \cup {Head(pipe_fd)}
  BY DEF MReactivate, Seen, queue, queued, Hand, Served, connected, clients, Typed, TypeOK
<1> QED
  BY <1>6, <1>7 DEF CustodyInv, Apart

\* The manager reads the request of a client and stops listening to it.
LEMMA ReadCustody ==
  ASSUME Typed, CustodyInv, Manager, NEW c \in Client, MRead(c), QueueAssumption
  PROVE  CustodyInv'
<1>1. c \in set /\ Hand = {}
  BY DEF MRead, Turn, MAt, Typed, ManagerOK, Hand
<1>2. set' = set \ {c} /\ Hand' = {c}
  BY DEF MRead, Take, Seen, Hand, Typed, TypeOK, QueueAssumption
<1>3. UNCHANGED <<queued, Served, connected, wk, pipe_fd, Piped>>
  BY DEF MRead, Take, queue, queued, Served, connected, Piped, Elements
<1> QED
  BY <1>1, <1>2, <1>3 DEF CustodyInv, Apart, Distinct

\* The manager pushes the request it has read, which is not queued.
LEMMA PushFacts ==
  ASSUME Typed, CustodyInv, ListInv, MPush
  PROVE  /\ mgr.req \in Client \ queued
         /\ queued' = queued \cup {mgr.req}
         /\ \E s : Represents(s)'
<1>1. mgr.req \in Client \ queued
  BY DEF MPush, MAt, Typed, TypeOK, ManagerOK, CustodyInv, Apart, Hand
<1>2. PICK s : Represents(s)
  BY DEF ListInv
<1>3. PICK t : t = Append(s, mgr.req)
  OBVIOUS
<1>4. PICK r \in Client \ queued : r = mgr.req
  BY <1>1
<1>5. Push(r)
  BY <1>4 DEF MPush
<1>6. queued' = queued \cup {r} /\ Represents(t)'
  BY <1>2, <1>3, <1>4, <1>5, PushAppends, QueueAssumption
<1> QED
  BY <1>1, <1>4, <1>6

\* A worker that is woken keeps its request: it has none.
LEMMA WakeKeeps ==
  ASSUME TypeOK, Wake
  PROVE  \A w \in Worker : wk'[w].req = wk[w].req
<1>1. CASE waiting = {}
  BY <1>1 DEF Wake
<1>2. CASE waiting # {}
  <2>1. PICK w \in waiting : Become(w, [wk[w] EXCEPT !.pc = "lock"])
    BY <1>2 DEF Wake
  <2>2. [wk[w] EXCEPT !.pc = "lock"].req = wk[w].req /\ w \in Worker
    BY <2>1 DEF TypeOK, waiting
  <2> QED
    BY <2>1, <2>2, WorkerUpdate
<1> QED
  BY <1>1, <1>2

\* push moves a client from the manager's hand to the queue.
LEMMA PushCustody ==
  ASSUME Typed, CustodyInv, ListInv, Manager, MPush
  PROVE  CustodyInv'
<1>1. mgr.req \in Client \ queued /\ queued' = queued \cup {mgr.req}
  BY PushFacts
<1>2. Hand = {mgr.req} /\ Hand' = {}
  BY <1>1, QueueAssumption DEF MPush, Hand, Typed, TypeOK, QueueAssumption
<1>3. \A w \in Worker : wk'[w].req = wk[w].req
  BY WakeKeeps DEF MPush, Typed
<1>4. Served' = Served
  BY <1>3 DEF Served
<1>5. UNCHANGED <<set, pipe_fd, Piped, connected>>
  BY DEF MPush, clients, connected, Piped, Elements
<1> QED
  BY <1>1, <1>2, <1>3, <1>4, <1>5 DEF CustodyInv, Apart, Distinct

\* A worker takes the oldest request, which it then has alone.
LEMMA PopFacts ==
  ASSUME ListInv, NEW w \in Worker, WPop(w)
  PROVE  /\ qlast \in queued
         /\ queued' = queued \ {qlast}
         /\ \E s : Represents(s)'
<1>1. PICK s : Represents(s)
  BY DEF ListInv
<1>2. PICK t : t = Tail(s)
  OBVIOUS
<1>3. qhead # NULL /\ Pop
  BY DEF WPop
<1>4. qlast \in queued /\ queued' = queued \ {qlast} /\ Represents(t)'
  BY <1>1, <1>2, <1>3, PopTakesFirst, QueueAssumption
<1> QED
  BY <1>4

\* pop moves a client from the queue to a worker.
LEMMA PopCustody ==
  ASSUME Typed, CustodyInv, ListInv, NEW w \in Worker, WorkerStep(w), WPop(w)
  PROVE  CustodyInv'
<1> DEFINE rec == [wk[w] EXCEPT !.pc = "serve", !.req = qlast]
<1>1. qlast \in queued /\ queued' = queued \ {qlast} /\ qlast # NULL
  BY PopFacts, QueueAssumption DEF Typed, TypeOK, QueueTypeOK, QueueAssumption
<1>2. Become(w, rec) /\ rec.req = qlast /\ wk[w].req = NULL
  BY DEF WPop, WAt, Typed, TypeOK, WorkersOK, Serving
<1> HIDE DEF rec
<1>3. Served' = Served \cup {qlast}
  BY <1>1, <1>2, ServedUpdate DEF Typed, Served
<1>4. \A v \in Worker : wk'[v].req = IF v = w THEN qlast ELSE wk[v].req
  BY <1>2, WorkerUpdate DEF Typed
<1>5. ASSUME NEW u \in Worker, NEW v \in Worker, wk'[u].req = wk'[v].req, wk'[u].req # NULL
      PROVE  u = v
  <2>1. \A x \in Worker : wk[x].req # qlast
    BY <1>1 DEF CustodyInv, Apart, Served
  <2> QED
    BY <1>4, <1>5, <2>1 DEF CustodyInv
<1>6. UNCHANGED <<set, pipe_fd, mgr, Hand, Piped, connected>>
  BY DEF WPop, WorkerStep, connected, Piped, Elements, Hand
<1> QED
  BY <1>1, <1>3, <1>5, <1>6 DEF CustodyInv, Apart, Distinct

\* The worker writes the client to the pipe.
LEMMA WriteCustody ==
  ASSUME Typed, CustodyInv, NEW w \in Worker, WorkerStep(w), WReactivate(w)
  PROVE  CustodyInv'
<1> DEFINE rec == [wk[w] EXCEPT !.pc = "lock", !.req = NULL]
<1>1. Become(w, rec) /\ rec.req = NULL
  BY DEF WReactivate, Typed, TypeOK
<1> HIDE DEF rec
<1>2. wk[w].req \in Client /\ wk[w].req # NULL /\ wk[w].req \in Served /\ wk[w].req \notin Piped
  BY DEF WReactivate, WAt, Typed, TypeOK, WorkersOK, Serving, Served, CustodyInv, Apart
<1>3. PICK c \in Client : c = wk[w].req
  BY <1>2
<1>4. Served' = Served \ {c}
  BY <1>1, <1>3, ServedUpdate DEF Typed
<1>5. \A v \in Worker : wk'[v].req = IF v = w THEN NULL ELSE wk[v].req
  BY <1>1, WorkerUpdate DEF Typed
<1>6. PICK s \in Seq(Client) : s = pipe_fd
  BY DEF Typed, TypeOK
<1>7. PICK t : t = pipe_fd'
  OBVIOUS
<1>8. Distinct(s) /\ Elements(s) = Piped
  BY <1>6 DEF CustodyInv, Distinct, Piped, Elements
<1>9. t = Append(s, c)
  BY <1>3, <1>6, <1>7 DEF WReactivate
<1>10. Distinct(t) /\ Elements(t) = Elements(s) \cup {c}
  BY <1>2, <1>3, <1>8, <1>9, AppendDistinct
<1>11. Piped' = Piped \cup {c}
  <2>1. Piped' = Elements(t)
    BY <1>7 DEF Piped, Elements
  <2> QED
    BY <1>8, <1>10, <2>1
<1>12. Distinct(pipe_fd)'
  BY <1>7, <1>10 DEF Distinct
<1>13. UNCHANGED <<set, queued, mgr, Hand, connected>>
  BY DEF WReactivate, WorkerStep, queue, queued, connected, Hand
<1>14. ASSUME NEW u \in Worker, NEW v \in Worker, wk'[u].req = wk'[v].req, wk'[u].req # NULL
       PROVE  u = v
  BY <1>5, <1>14 DEF CustodyInv
<1> QED
  BY <1>2, <1>3, <1>4, <1>11, <1>12, <1>13, <1>14 DEF CustodyInv, Apart

\* The worker closes the connection it has served.
LEMMA CloseCustody ==
  ASSUME Typed, CustodyInv, NEW w \in Worker, WorkerStep(w), WDecWrite(w)
  PROVE  CustodyInv'
<1> DEFINE rec == [pc |-> "lock", req |-> NULL, reg |-> 0]
<1>1. Become(w, rec) /\ rec.req = NULL
  BY DEF WDecWrite, CloseFd
<1> HIDE DEF rec
<1>2. PICK c \in Client : c = wk[w].req /\ c \in Served
  BY DEF WDecWrite, CloseFd, WAt, Typed, TypeOK, WorkersOK, Serving, Served
<1>3. Served' = Served \ {c}
  BY <1>1, <1>2, ServedUpdate DEF Typed
<1>4. \A v \in Worker : wk'[v].req = IF v = w THEN NULL ELSE wk[v].req
  BY <1>1, WorkerUpdate DEF Typed
<1>5. connected' = connected \ {c}
  BY <1>2 DEF WDecWrite, CloseFd, connected, Typed, TypeOK
<1>6. UNCHANGED <<set, queued, mgr, Hand, pipe_fd, Piped>>
  BY DEF WDecWrite, CloseFd, WorkerStep, queue, queued, Hand, Piped, Elements
<1>7. ASSUME NEW u \in Worker, NEW v \in Worker, wk'[u].req = wk'[v].req, wk'[u].req # NULL
      PROVE  u = v
  BY <1>4, <1>7 DEF CustodyInv
<1> QED
  BY <1>2, <1>3, <1>5, <1>6, <1>7 DEF CustodyInv, Apart, Distinct

\* Every step keeps custody.
LEMMA CustodyNext ==
  ASSUME Typed, CustodyInv, ListInv, [Next]_vars
  PROVE  CustodyInv'
<1>1. CASE Still
  BY <1>1, StillCustody
<1>2. CASE Manager /\ (MAccept \/ MReactivate \/ (\E c \in Client : MRead(c)) \/ MPush)
  BY <1>2, AcceptCustody, ReactivateCustody, ReadCustody, PushCustody, QueueAssumption
<1>3. CASE \E w \in Worker : WorkerStep(w) /\ (WPop(w) \/ WReactivate(w) \/ WDecWrite(w))
  BY <1>3, PopCustody, WriteCustody, CloseCustody
<1> QED
  BY <1>1, <1>2, <1>3, Cases DEF Typed

(***************************************************************************)
(* The queue.                                                              *)
(***************************************************************************)
\* The queue holds some of the clients.
LEMMA QueueFinite ==
  ASSUME ListInv
  PROVE  IsFiniteSet(queued) /\ queued \subseteq Client /\ Cardinality(queued) <= Cardinality(Client)
<1>1. PICK s : Represents(s)
  BY DEF ListInv
<1>2. queued \subseteq Client
  BY <1>1, ElementOfSeq DEF Represents, Linked, Elements
<1> QED
  BY <1>2, FS_Subset, ServerAssumption DEF ServerAssumption

\* The list is typed because it stands for a sequence of clients.
LEMMA QueueTyped ==
  ASSUME ListInv
  PROVE  QueueTypeOK
<1>1. PICK s : Represents(s)
  BY DEF ListInv
<1>2. queued \subseteq Client /\ Cardinality(queued) \in 0 .. Cardinality(Client)
  BY QueueFinite, FS_CardinalityType, ServerAssumption DEF ServerAssumption
<1>3. s # <<>> => s[1] \in Client /\ s[Len(s)] \in Client
  <2>1. ASSUME s # <<>> PROVE Len(s) \in Nat \ {0}
    BY <1>1, <2>1, EmptySeq DEF Represents
  <2>2. ASSUME s # <<>> PROVE 1 \in 1 .. Len(s) /\ Len(s) \in 1 .. Len(s)
    BY <2>1, <2>2
  <2> QED
    BY <1>1, <2>2, ElementOfSeq DEF Represents
<1> QED
  BY <1>1, <1>2, <1>3 DEF ListInv, Represents, Linked, Ends, QueueTypeOK

\* So it is after a step.
LEMMA QueueTypedNext == ListInv' => QueueTypeOK'
<1>1. ListInv => QueueTypeOK
  BY QueueTyped
<1> QED
  BY <1>1, PTL

\* Every step keeps the list.
LEMMA ListNext ==
  ASSUME Typed, CustodyInv, ListInv, [Next]_vars
  PROVE  ListInv' /\ QueueTypeOK'
<1>1. ListInv'
  <2>1. CASE UNCHANGED queue
    BY <2>1, SameList DEF ListInv, queue
  <2>2. CASE Manager /\ MPush
    <3>1. mgr.req \notin queued /\ queued' = queued \cup {mgr.req} /\ (\E s : Represents(s)')
      BY <2>2, PushFacts
    <3>2. count_rq' = count_rq + 1
      BY <2>2 DEF MPush, Push
    <3>3. Cardinality(queued') = Cardinality(queued) + 1
      BY <3>1, QueueFinite, FS_AddElement
    <3> QED
      BY <3>1, <3>2, <3>3 DEF ListInv
  <2>3. ASSUME NEW w \in Worker, WPop(w)
        PROVE  ListInv'
    <3>1. qlast \in queued /\ queued' = queued \ {qlast} /\ (\E s : Represents(s)')
      BY <2>3, PopFacts
    <3>2. count_rq' = count_rq - 1
      BY <2>3 DEF WPop, Pop
    <3>3. Cardinality(queued') = Cardinality(queued) - 1
      BY <3>1, QueueFinite, FS_RemoveElement
    <3> QED
      BY <3>1, <3>2, <3>3 DEF ListInv
  <2> QED
    BY <2>1, <2>2, <2>3, Cases DEF Still, Typed, MAccept, MReactivate, MRead, Take, WReactivate, WDecWrite, CloseFd
<1> QED
  BY <1>1, QueueTypedNext

(***************************************************************************)
(* Types.                                                                  *)
(***************************************************************************)
ManagerState ==
  [pc    : {"test", "select", "scan", "count", "push", "broadcast", "join", "closed"},
   ready : SUBSET (Listened \cup Client),
   req   : Client \cup {NULL},
   reg   : Int]

WorkerState ==
  [pc  : {"lock", "testClients", "testHup", "sleep", "waiting", "serve", "repipe",
          "decRead", "decWrite", "done"},
   req : Client \cup {NULL},
   reg : Int]

\* A step of the manager: only the broadcast and a push change workers.
LEMMA ManagerTyped ==
  ASSUME Typed, CustodyInv, ListInv, QueueTypeOK', Manager
  PROVE  Typed'
<1> USE ServerAssumption DEF ServerAssumption, Listened
<1>1. CASE MTest \/ MScanned \/ MJoin
  BY <1>1 DEF MTest, MScanned, MJoin, MGoto, MAt, Manager, clients, Typed, TypeOK, ManagerOK, WorkersOK
<1>2. CASE MSelect
  <2>1. Readable \subseteq Listened \cup Client
    BY DEF Readable, Typed, TypeOK
  <2>2. (\A c \in Client : c \in Readable => c \in set) /\ ("pipe" \in Readable => pipe_fd # <<>>)
    <3>1. ASSUME NEW c \in Client, c \in Readable PROVE c \in set
      BY <3>1 DEF Readable
    <3>2. "pipe" \notin set
      BY DEF Typed, TypeOK
    <3>3. ASSUME "pipe" \in Readable PROVE pipe_fd # <<>>
      BY <3>2, <3>3 DEF Readable
    <3> QED
      BY <3>1, <3>3
  <2> QED
    BY <1>2, <2>1, <2>2 DEF MSelect, MAt, Manager, clients, Typed, TypeOK, ManagerOK, WorkersOK
<1>3. CASE MHup \/ MInt
  <2>1. PICK x : mgr' = Seen(x) /\ UNCHANGED <<wk, set, pipe_fd>>
    BY <1>3 DEF MHup, MInt
  <2>2. mgr' \in ManagerState /\ mgr'.pc = mgr.pc /\ mgr'.req = mgr.req /\ mgr'.ready \subseteq mgr.ready
    <3>1. mgr \in ManagerState /\ mgr' = [mgr EXCEPT !.ready = mgr.ready \ {x}]
      BY <2>1 DEF Seen, ManagerState, Typed, TypeOK
    <3> QED
      BY <3>1 DEF ManagerState
  <2> QED
    BY <1>3, <2>1, <2>2 DEF ManagerState, MHup, MInt, Manager, clients, Typed, TypeOK, ManagerOK, WorkersOK
<1>4. CASE MAccept
  BY <1>4 DEF MAccept, backlog, Turn, Seen, MAt, Manager, Typed, TypeOK, ManagerOK, WorkersOK
<1>5. CASE MCount
  <2>1. mgr' \in ManagerState /\ mgr'.pc = "scan" /\ mgr'.req = mgr.req /\ mgr'.ready = mgr.ready
    <3>1. mgr \in ManagerState /\ mgr' = [mgr EXCEPT !.pc = "scan", !.reg = 0]
      BY <1>5 DEF MCount, ManagerState, Typed, TypeOK
    <3>2. mgr' \in ManagerState
      <4>1. mgr' = [pc |-> "scan", ready |-> mgr.ready, req |-> mgr.req, reg |-> 0]
        BY <3>1 DEF ManagerState
      <4>2. mgr.ready \in SUBSET (Listened \cup Client) /\ mgr.req \in Client \cup {NULL}
        BY <3>1 DEF ManagerState
      <4> QED
        BY <4>1, <4>2 DEF ManagerState
    <3>3. mgr'.pc = "scan" /\ mgr'.req = mgr.req /\ mgr'.ready = mgr.ready
      BY <3>1 DEF ManagerState
    <3> QED
      BY <3>2, <3>3
  <2>2. mgr.reg + 1 \in Int
    BY DEF Typed, TypeOK
  <2>3. ManagerOK'
    BY <1>5, <2>1 DEF MCount, MAt, Typed, ManagerOK
  <2> QED
    BY <1>5, <2>1, <2>2, <2>3 DEF ManagerState, MCount, Manager, clients, Typed, TypeOK, WorkersOK
<1>6. CASE MReadListener \/ \E c \in Client : MReadEnd(c)
  BY <1>6 DEF MReadListener, MReadEnd, Exit, Manager, server, clients, Typed, TypeOK, ManagerOK, WorkersOK
<1>7. CASE MReactivate
  <2>1. pipe_fd # <<>> /\ pipe_fd \in Seq(Client)
    BY <1>7 DEF MReactivate, Turn, Typed, TypeOK, ManagerOK
  <2>2. Head(pipe_fd) \in Client /\ Tail(pipe_fd) \in Seq(Client)
    BY <2>1, HeadTailProperties
  <2> QED
    BY <1>7, <2>2 DEF MReactivate, Turn, Seen, MAt, Manager, clients, Typed, TypeOK, ManagerOK, WorkersOK
<1>8. CASE \E c \in Client : MRead(c)
  <2>1. PICK c \in Client : MRead(c)
    BY <1>8
  <2>2. mgr' = [mgr EXCEPT !.ready = @ \ {c}, !.pc = "push", !.req = c]
    BY <2>1 DEF MRead, Take, Seen, Typed, TypeOK
  <2>3. mgr' \in ManagerState /\ mgr'.pc = "push" /\ mgr'.req = c /\ mgr'.ready = mgr.ready \ {c}
    BY <2>2 DEF ManagerState, Typed, TypeOK
  <2>4. ManagerOK'
    BY <2>1, <2>3, QueueAssumption DEF MRead, Take, Typed, ManagerOK, QueueAssumption
  <2> QED
    <3>1. UNCHANGED <<wk, pipe_fd, nclient, sigHUP, sigINT_sigQUIT, signal, conn, cl, connections, exited>>
      BY <2>1 DEF MRead, Take, Manager
    <3>2. set' \subseteq Client /\ inbox' \in [Client -> Message] /\ request' \in [Client -> Message]
      BY <2>1 DEF MRead, Take, Message, Typed, TypeOK
    <3> QED
      BY <2>3, <2>4, <3>1, <3>2 DEF ManagerState, Typed, TypeOK, WorkersOK
<1>9. CASE MPush
  <2>1. wk' \in [Worker -> WorkerState] /\ WorkersOK'
    <3>1. CASE waiting = {}
      BY <1>9, <3>1 DEF WorkerState, MPush, Wake, Typed, TypeOK, WorkersOK
    <3>2. CASE waiting # {}
      <4>1. PICK w \in waiting : Become(w, [wk[w] EXCEPT !.pc = "lock"])
        BY <1>9, <3>2 DEF MPush, Wake
      <4>2. PICK rec : rec = [wk[w] EXCEPT !.pc = "lock"]
        OBVIOUS
      <4>3. wk[w] \in WorkerState /\ wk[w].pc = "waiting" /\ wk[w].req = NULL
        BY DEF WorkerState, waiting, WAt, Typed, TypeOK, WorkersOK, Serving
      <4>4. rec \in WorkerState /\ rec.pc = "lock" /\ rec.req = NULL
        BY <4>2, <4>3 DEF WorkerState
      <4>5. Become(w, rec)
        BY <4>1, <4>2
      <4> QED
        BY <4>4, <4>5 DEF WorkerState, Become, Typed, TypeOK, WorkersOK, Serving
    <3> QED
      BY <3>1, <3>2
  <2> QED
    BY <1>9, <2>1 DEF WorkerState, MPush, MAt, Manager, clients, Typed, TypeOK, ManagerOK
<1>10. CASE MBroadcast
  <2>1. \A w \in Worker : wk'[w] = IF w \in waiting THEN [wk[w] EXCEPT !.pc = "lock"] ELSE wk[w]
    BY <1>10 DEF MBroadcast
  <2>2. ASSUME NEW w \in Worker
        PROVE  /\ wk'[w] \in WorkerState
               /\ wk'[w].req = wk[w].req
               /\ wk'[w].pc = IF w \in waiting THEN "lock" ELSE wk[w].pc
    <3>1. wk[w] \in WorkerState
      BY DEF WorkerState, Typed, TypeOK
    <3> QED
      BY <2>1, <3>1 DEF WorkerState
  <2>3. WorkersOK' /\ wk' \in [Worker -> WorkerState]
    <3>1. wk' \in [Worker -> WorkerState]
      BY <1>10, <2>2 DEF MBroadcast
    <3>2. WorkersOK'
      BY <2>2 DEF waiting, WAt, Typed, WorkersOK, Serving
    <3> QED
      BY <3>1, <3>2
  <2>4. mgr' \in ManagerState /\ ManagerOK'
    BY <1>10 DEF MBroadcast, MAt, ManagerState, Typed, TypeOK, ManagerOK
  <2> QED
    BY <1>10, <2>3, <2>4 DEF WorkerState, ManagerState, MBroadcast, Manager, clients, Typed, TypeOK
<1> QED
  BY <1>1, <1>2, <1>3, <1>4, <1>5, <1>6, <1>7, <1>8, <1>9, <1>10 DEF Manager

\* One worker's record changes and the rest of its part of the state is typed.
LEMMA OneWorkerTyped ==
  ASSUME Typed, NEW w \in Worker, NEW rec \in WorkerState, Become(w, rec),
         rec.req # NULL <=> rec.pc \in Serving
  PROVE  wk' \in [Worker -> WorkerState] /\ WorkersOK'
<1>1. wk \in [Worker -> WorkerState]
  BY DEF WorkerState, Typed, TypeOK
<1>2. wk' \in [Worker -> WorkerState]
  BY <1>1 DEF Become
<1>3. \A v \in Worker : wk'[v] = IF v = w THEN rec ELSE wk[v]
  BY WorkerUpdate DEF Typed
<1> QED
  BY <1>2, <1>3 DEF Typed, WorkersOK

\* A step of a worker that changes its statement only.
LEMMA StatementTyped ==
  ASSUME Typed, NEW w \in Worker, NEW pc, Become(w, [wk[w] EXCEPT !.pc = pc]),
         pc \in {"lock", "testClients", "testHup", "sleep", "waiting", "serve", "repipe",
                 "decRead", "decWrite", "done"},
         pc \in Serving <=> wk[w].pc \in Serving
  PROVE  wk' \in [Worker -> WorkerState] /\ WorkersOK'
<1>1. wk[w] \in WorkerState /\ (wk[w].req # NULL <=> wk[w].pc \in Serving)
  BY DEF WorkerState, Typed, TypeOK, WorkersOK
<1> DEFINE rec == [wk[w] EXCEPT !.pc = pc]
<1>2. rec \in WorkerState /\ rec.req = wk[w].req /\ rec.pc = pc
  BY <1>1 DEF WorkerState
<1>3. Become(w, rec)
  OBVIOUS
<1> HIDE DEF rec
<1> QED
  BY <1>1, <1>2, <1>3, OneWorkerTyped

\* A step of a worker keeps the types.
LEMMA WorkerTyped ==
  ASSUME Typed, CustodyInv, ListInv, QueueTypeOK', NEW w \in Worker, WorkerStep(w)
  PROVE  Typed'
<1>1. UNCHANGED <<mgr, set, sigHUP, sigINT_sigQUIT, signal, inbox, connections>>
  BY DEF WorkerStep
<1>2. wk[w] \in WorkerState
  BY DEF WorkerState, Typed, TypeOK
<1> DEFINE Goal == /\ wk' \in [Worker -> WorkerState] /\ WorkersOK'
                   /\ pipe_fd' \in Seq(Client) /\ (pipe_fd # <<>> => pipe_fd' # <<>>)
                   /\ nclient' \in Int
                   /\ conn' \in [Client -> {"none", "backlog", "open"}]
                   /\ cl' \in [Client -> {"away", "idle", "asking", "leaving", "gone"}]
                   /\ request' \in [Client -> Message]
                   /\ exited' \in BOOLEAN
<1>3. SUFFICES Goal
  BY <1>1 DEF WorkerState, Typed, TypeOK, ManagerOK
<1>4. ASSUME NEW from, NEW to, WGoto(w, from, to),
             from \in {"lock", "testClients", "testHup", "sleep"},
             to \in {"testClients", "testHup", "sleep", "waiting", "done"}
      PROVE  Goal
  <2>1. to \notin Serving /\ wk[w].pc \notin Serving
    BY <1>4 DEF WGoto, WAt, Serving
  <2>2. wk' \in [Worker -> WorkerState] /\ WorkersOK'
    BY <1>4, <2>1, StatementTyped DEF WGoto
  <2> QED
    BY <1>4, <2>2 DEF WGoto, Typed, TypeOK
<1>5. CASE WTestInt(w) \/ WTestClients(w) \/ WTestHup(w) \/ WSleep(w)
  BY <1>4, <1>5 DEF WTestInt, WTestClients, WTestHup, WSleep
<1>6. CASE WPop(w)
  <2>1. PICK c \in Client : c = qlast
    BY <1>6, PopFacts, QueueFinite
  <2>2. PICK rec : rec = [wk[w] EXCEPT !.pc = "serve", !.req = c]
    OBVIOUS
  <2>3. rec \in WorkerState /\ rec.req = c /\ rec.pc = "serve"
    BY <1>2, <2>2 DEF WorkerState
  <2>4. c # NULL /\ Become(w, rec)
    BY <1>6, <2>1, <2>2, QueueAssumption DEF WPop, QueueAssumption
  <2>5. wk' \in [Worker -> WorkerState] /\ WorkersOK'
    BY <2>3, <2>4, OneWorkerTyped DEF Serving
  <2> QED
    BY <1>6, <2>5 DEF WPop, Typed, TypeOK
<1>7. CASE WAnswerDead(w)
  BY <1>7 DEF WAnswerDead, Exit, server, clients, WorkerState, Typed, TypeOK, WorkersOK
<1>8. ASSUME NEW message, NEW state, NEW pc, Reply(w, message, state, pc),
             state \in {"idle", "away"}, pc \in {"repipe", "decRead"}
      PROVE  Goal
  <2>1. pc \in Serving /\ wk[w].pc \in Serving
    BY <1>8 DEF Reply, WAt, Serving
  <2>2. wk' \in [Worker -> WorkerState] /\ WorkersOK'
    BY <1>8, <2>1, StatementTyped DEF Reply
  <2> QED
    BY <1>8, <2>2 DEF Reply, Message, Typed, TypeOK
<1>9. CASE WAnswer(w) \/ WCloseConnection(w)
  BY <1>8, <1>9 DEF WAnswer, WCloseConnection
<1>10. CASE WReactivate(w)
  <2>1. PICK rec : rec = [wk[w] EXCEPT !.pc = "lock", !.req = NULL]
    OBVIOUS
  <2>2. rec \in WorkerState /\ rec.req = NULL /\ rec.pc = "lock" /\ Become(w, rec)
    BY <1>2, <1>10, <2>1 DEF WorkerState, WReactivate
  <2>3. wk' \in [Worker -> WorkerState] /\ WorkersOK'
    BY <2>2, OneWorkerTyped DEF Serving
  <2>4. wk[w].req \in Client
    BY <1>10 DEF WReactivate, WAt, Typed, TypeOK, WorkersOK, Serving
  <2>5. pipe_fd' \in Seq(Client) /\ pipe_fd' # <<>>
    BY <1>10, <2>4, AppendProperties DEF WReactivate, Typed, TypeOK
  <2> QED
    BY <1>10, <2>3, <2>5 DEF WReactivate, Typed, TypeOK
<1>11. CASE WDecRead(w)
  <2>1. PICK rec : rec = [wk[w] EXCEPT !.pc = "decWrite", !.reg = nclient]
    OBVIOUS
  <2>2. nclient \in Int
    BY DEF Typed, TypeOK
  <2>3. rec \in WorkerState /\ rec.req = wk[w].req /\ rec.pc = "decWrite" /\ Become(w, rec)
    BY <1>2, <1>11, <2>1, <2>2 DEF WorkerState, WDecRead
  <2>4. wk[w].req # NULL
    BY <1>11 DEF WDecRead, WAt, Typed, WorkersOK, Serving
  <2>5. wk' \in [Worker -> WorkerState] /\ WorkersOK'
    BY <2>3, <2>4, OneWorkerTyped DEF Serving
  <2> QED
    BY <1>11, <2>5 DEF WDecRead, Typed, TypeOK
<1>12. CASE WDecWrite(w)
  <2>1. PICK rec : rec = [pc |-> "lock", req |-> NULL, reg |-> 0]
    OBVIOUS
  <2>2. rec \in WorkerState /\ rec.req = NULL /\ rec.pc = "lock" /\ Become(w, rec)
    BY <1>12, <2>1 DEF WorkerState, WDecWrite, CloseFd
  <2>3. wk' \in [Worker -> WorkerState] /\ WorkersOK'
    BY <2>2, OneWorkerTyped DEF Serving
  <2>4. nclient' \in Int
    BY <1>2, <1>12 DEF WDecWrite, WorkerState
  <2> QED
    BY <1>12, <2>3, <2>4 DEF WDecWrite, CloseFd, Typed, TypeOK
<1> QED
  BY <1>5, <1>6, <1>7, <1>9, <1>10, <1>11, <1>12 DEF WorkerStep

\* A step of a client or of the signal thread keeps the types.
LEMMA ClientTyped ==
  ASSUME Typed, QueueTypeOK',
         \/ \E c \in Client : Depart(c)
         \/ \E c \in Client : Up /\ (OpenConnection(c) \/ Ask(c) \/ Vanish(c))
         \/ Up /\ ThreadSignal
  PROVE  Typed'
<1>1. UNCHANGED <<mgr, wk, set, pipe_fd, nclient, sigHUP, sigINT_sigQUIT, exited>>
  BY DEF Depart, Up, server
<1>2. /\ signal' \in {"none", "HUP", "INT"}
      /\ conn' \in [Client -> {"none", "backlog", "open"}]
      /\ cl' \in [Client -> {"away", "idle", "asking", "leaving", "gone"}]
      /\ inbox' \in [Client -> Message]
      /\ request' \in [Client -> Message]
      /\ connections' \in 0 .. MaxConnections
  <2> USE DEF Typed, TypeOK
  <2>1. CASE \E c \in Client : Depart(c) \/ Ask(c)
    <3>1. PICK c \in Client, m \in Message, state \in {"asking", "leaving"} : Send(c, m, state)
      BY <2>1 DEF Depart, CloseConnection, Ask, Message
    <3> QED
      BY <3>1 DEF Send
  <2>2. CASE \E c \in Client : Vanish(c)
    BY <2>2 DEF Vanish
  <2>3. CASE \E c \in Client : OpenConnection(c)
    BY <2>3, ServerAssumption DEF OpenConnection, ServerAssumption
  <2>4. CASE ThreadSignal
    BY <2>4, ServerAssumption DEF ThreadSignal, clients, ServerAssumption
  <2> QED
    BY <2>1, <2>2, <2>3, <2>4
<1> QED
  BY <1>1, <1>2 DEF Typed, TypeOK, ManagerOK, WorkersOK

\* Every step keeps the types.
LEMMA TypedNext ==
  ASSUME Typed, CustodyInv, ListInv, [Next]_vars
  PROVE  Typed'
<1>1. QueueTypeOK'
  BY ListNext
<1>2. CASE UNCHANGED vars
  BY <1>1, <1>2 DEF vars, Typed, TypeOK, ManagerOK, WorkersOK
<1> QED
  BY <1>1, <1>2, ManagerTyped, WorkerTyped, ClientTyped DEF Next

(***************************************************************************)
(* Sleeping workers.                                                       *)
(***************************************************************************)
lockers == {w \in Worker : WAt(w, "lock")}

\* A manager that does not push leaves the queue alone, and the workers too
\* unless it wakes them all.
LEMMA ManagerWorkers ==
  ASSUME Typed, Manager
  PROVE  \/ MPush
         \/ queued' = queued /\ wk' = wk
         \/ queued' = queued /\ (\A w \in Worker : wk'[w].pc = IF w \in waiting THEN "lock" ELSE wk[w].pc)
<1>1. CASE MTest \/ MSelect \/ MScanned \/ MJoin
  BY <1>1 DEF MTest, MSelect, MScanned, MJoin, MGoto, queue, queued
<1>2. CASE MHup \/ MInt \/ MAccept \/ MCount \/ MReactivate
  BY <1>2 DEF MHup, MInt, MAccept, MCount, MReactivate, queue, queued
<1>3. CASE MReadListener \/ \E c \in Client : MRead(c) \/ MReadEnd(c)
  BY <1>3 DEF MReadListener, MRead, Take, MReadEnd, Exit, server, queue, queued
<1>4. CASE MBroadcast
  <2>1. \A w \in Worker : [wk[w] EXCEPT !.pc = "lock"].pc = "lock"
    BY DEF Typed, TypeOK
  <2> QED
    BY <1>4, <2>1 DEF MBroadcast, queue, queued
<1> QED
  BY <1>1, <1>2, <1>3, <1>4 DEF Manager

\* A woken worker goes to take the lock.
LEMMA WakeOne ==
  ASSUME Typed, Wake, waiting # {}
  PROVE  \E w \in waiting : \A v \in Worker : wk'[v].pc = IF v = w THEN "lock" ELSE wk[v].pc
<1>1. PICK w \in waiting : Become(w, [wk[w] EXCEPT !.pc = "lock"])
  BY DEF Wake
<1>2. w \in Worker /\ [wk[w] EXCEPT !.pc = "lock"].pc = "lock"
  BY <1>1 DEF waiting, Typed, TypeOK
<1>3. PICK rec : rec = [wk[w] EXCEPT !.pc = "lock"]
  OBVIOUS
<1>4. \A v \in Worker : wk'[v] = IF v = w THEN rec ELSE wk[v]
  BY <1>1, <1>2, <1>3, WorkerUpdate DEF Typed
<1> QED
  BY <1>1, <1>2, <1>3, <1>4

\* What a worker's step does to the statements and the queue.
WorkerMoves(w) ==
  /\ \A v \in Worker \ {w} : wk'[v].pc = wk[v].pc
  /\ \/ /\ wk[w].pc = "lock" /\ wk'[w].pc = "serve" /\ LockFree
        /\ qlast \in queued /\ queued' = queued \ {qlast}
     \/ queued = {} /\ queued' = {}
     \/ /\ queued' = queued
        /\ wk[w].pc \in Serving /\ wk'[w].pc \in Serving \cup {"lock"}
     \/ queued' = queued /\ wk'[w].pc = wk[w].pc

\* Every step of a worker is one of WorkerMoves.
LEMMA WorkerMovesLemma ==
  ASSUME Typed, ListInv, LockInv, NEW w \in Worker, WorkerStep(w)
  PROVE  WorkerMoves(w)
<1>1. ASSUME NEW pc
      PROVE  [wk[w] EXCEPT !.pc = pc].pc = pc
  BY DEF Typed, TypeOK
<1>2. ASSUME NEW rec, Become(w, rec)
      PROVE  wk'[w].pc = rec.pc /\ \A v \in Worker \ {w} : wk'[v].pc = wk[v].pc
  BY <1>2, WorkerUpdate DEF Typed
<1>3. CASE WTestInt(w)
  <2>1. PICK s : Represents(s)
    BY DEF ListInv
  <2>2. queued = {}
    BY <1>3, <2>1, EmptyIffEmpty, QueueAssumption DEF WTestInt
  <2> QED
    BY <1>2, <1>3, <2>2 DEF WTestInt, WGoto, queue, queued, WorkerMoves
<1>4. CASE WTestClients(w) \/ WTestHup(w) \/ WSleep(w)
  <2>1. queued = {}
    BY <1>4 DEF WTestClients, WTestHup, WSleep, WGoto, WAt, LockInv, LockFree
  <2> QED
    BY <1>2, <1>4, <2>1 DEF WTestClients, WTestHup, WSleep, WGoto, queue, queued, WorkerMoves
<1>5. CASE WPop(w)
  <2>1. [wk[w] EXCEPT !.pc = "serve", !.req = qlast].pc = "serve"
    BY DEF Typed, TypeOK
  <2> QED
    BY <1>2, <1>5, <2>1, PopFacts DEF WPop, WAt, WorkerMoves
<1>6. CASE WAnswerDead(w)
  BY <1>6 DEF WAnswerDead, Exit, server, queue, queued, WorkerMoves
<1>7. CASE WAnswer(w) \/ WCloseConnection(w)
  BY <1>1, <1>2, <1>7 DEF WAnswer, WCloseConnection, Reply, WAt, Serving, queue, queued, WorkerMoves
<1>8. CASE WReactivate(w)
  <2>1. [wk[w] EXCEPT !.pc = "lock", !.req = NULL].pc = "lock"
    BY DEF Typed, TypeOK
  <2> QED
    BY <1>2, <1>8, <2>1 DEF WReactivate, WAt, Serving, queue, queued, WorkerMoves
<1>9. CASE WDecRead(w)
  <2>1. [wk[w] EXCEPT !.pc = "decWrite", !.reg = nclient].pc = "decWrite"
    BY DEF Typed, TypeOK
  <2> QED
    BY <1>2, <1>9, <2>1 DEF WDecRead, WAt, Serving, queue, queued, WorkerMoves
<1>10. CASE WDecWrite(w)
  BY <1>2, <1>10 DEF WDecWrite, CloseFd, WAt, Serving, queue, queued, WorkerMoves
<1> QED
  BY <1>3, <1>4, <1>5, <1>6, <1>7, <1>8, <1>9, <1>10 DEF WorkerStep

\* Who holds the lock to decide about sleeping goes on seeing an empty queue.
LEMMA LockNext ==
  ASSUME Typed, CustodyInv, ListInv, LockInv, [Next]_vars
  PROVE  LockInv'
<1> USE DEF LockFree, LockInv
<1>1. CASE Manager /\ ~MPush
  BY <1>1, ManagerWorkers
<1>2. CASE MPush
  <2>1. CASE waiting = {}
    BY <1>2, <2>1 DEF MPush, Wake
  <2>2. CASE waiting # {}
    BY <1>2, <2>2, WakeOne DEF MPush
  <2> QED
    BY <2>1, <2>2
<1>3. ASSUME NEW w \in Worker, WorkerStep(w)
      PROVE  LockInv'
  BY <1>3, WorkerMovesLemma DEF WorkerMoves, Serving
<1>4. CASE UNCHANGED vars \/ UNCHANGED server
  BY <1>4 DEF vars, server, queue, queued
<1> QED
  BY <1>1, <1>2, <1>3, <1>4 DEF Next, Depart, Up

\* The workers are finitely many.
LEMMA LockersFinite ==
  /\ IsFiniteSet(lockers) /\ Cardinality(lockers) \in Nat
  /\ IsFiniteSet(lockers') /\ Cardinality(lockers') \in Nat
BY FS_Subset, FS_CardinalityType, ServerAssumption DEF lockers, ServerAssumption

\* Every step keeps SleepersNotNeeded.
LEMMA SleepNext ==
  ASSUME Typed, CustodyInv, ListInv, LockInv, SleepersNotNeeded, [Next]_vars
  PROVE  SleepersNotNeeded'
<1>1. IsFiniteSet(queued) /\ Cardinality(queued) \in Nat
  BY QueueFinite, FS_CardinalityType
<1>2. waiting # {} => Cardinality(queued) <= Cardinality(lockers)
  BY DEF SleepersNotNeeded, lockers
<1>3. SUFFICES ASSUME waiting' # {}
               PROVE  Cardinality(queued') <= Cardinality(lockers')
  BY DEF SleepersNotNeeded, lockers
<1>4. ASSUME queued' = queued, waiting # {}, lockers \subseteq lockers'
      PROVE  Cardinality(queued') <= Cardinality(lockers')
  <2>1. Cardinality(lockers) <= Cardinality(lockers')
    BY <1>4, LockersFinite, FS_Subset
  <2> QED
    BY <1>1, <1>2, <1>4, <2>1, LockersFinite
<1>5. CASE Manager /\ ~MPush
  <2>1. waiting # {} /\ lockers \subseteq lockers' /\ queued' = queued
    BY <1>3, <1>5, ManagerWorkers DEF waiting, lockers, WAt
  <2> QED
    BY <1>4, <2>1
<1>6. CASE MPush
  <2>1. waiting # {}
    BY <1>3, <1>6 DEF MPush, Wake, waiting, WAt
  <2>2. PICK w \in waiting : \A v \in Worker : wk'[v].pc = IF v = w THEN "lock" ELSE wk[v].pc
    BY <1>6, <2>1, WakeOne DEF MPush
  <2>3. lockers' = lockers \cup {w} /\ w \notin lockers
    BY <2>2 DEF lockers, waiting, WAt
  <2>4. Cardinality(lockers') = Cardinality(lockers) + 1
    BY <2>3, LockersFinite, FS_AddElement
  <2>5. Cardinality(queued') = Cardinality(queued) + 1
    BY <1>1, <1>6, PushFacts, FS_AddElement
  <2> QED
    BY <1>1, <1>2, <2>1, <2>4, <2>5, LockersFinite
<1>7. ASSUME NEW w \in Worker, WorkerStep(w)
      PROVE  Cardinality(queued') <= Cardinality(lockers')
  <2>1. WorkerMoves(w)
    BY <1>7, WorkerMovesLemma
  <2>2. CASE /\ wk[w].pc = "lock" /\ wk'[w].pc = "serve"
             /\ qlast \in queued /\ queued' = queued \ {qlast}
    <3>1. waiting # {} /\ lockers' = lockers \ {w} /\ w \in lockers
      BY <1>3, <2>1, <2>2 DEF WorkerMoves, waiting, lockers, WAt
    <3>2. Cardinality(lockers') = Cardinality(lockers) - 1
      BY <3>1, LockersFinite, FS_RemoveElement
    <3>3. Cardinality(queued') = Cardinality(queued) - 1
      BY <1>1, <2>2, FS_RemoveElement
    <3> QED
      BY <1>1, <1>2, <3>1, <3>2, <3>3, LockersFinite
  <2>3. CASE queued' = {}
    BY <2>3, FS_EmptySet, LockersFinite
  <2>4. CASE /\ queued' = queued
             /\ \/ wk[w].pc \in Serving /\ wk'[w].pc \in Serving \cup {"lock"}
                \/ wk'[w].pc = wk[w].pc
    <3>1. waiting # {} /\ lockers \subseteq lockers'
      BY <1>3, <2>1, <2>4 DEF WorkerMoves, Serving, waiting, lockers, WAt
    <3> QED
      BY <1>4, <2>4, <3>1
  <2> QED
    BY <2>1, <2>2, <2>3, <2>4 DEF WorkerMoves
<1>8. CASE UNCHANGED vars \/ UNCHANGED server
  BY <1>3, <1>4, <1>8 DEF vars, server, queue, queued, waiting, lockers, WAt
<1> QED
  BY <1>5, <1>6, <1>7, <1>8 DEF Next, Depart, Up

(***************************************************************************)
(* The theorems.                                                           *)
(***************************************************************************)
\* The server starts in the invariant.
LEMMA InvInit == Init => IInv
<1> SUFFICES ASSUME Init PROVE IInv
  OBVIOUS
<1>1. queued = {} /\ QueueInit /\ UNION {set, Hand, queued, Served, Piped} = {} /\ connected = {}
  BY EmptySeq DEF Init, QueueInit, queued, Hand, Served, Piped, Elements, connected
<1>2. ListInv
  BY <1>1, InitIsEmpty, FS_EmptySet DEF ListInv, QueueInit
<1>3. QueueTypeOK
  BY <1>2, QueueTyped
<1>4. <<>> \in Seq(Client) /\ Len(<<>>) = 0
  BY EmptySeq
<1>5. Typed
  <2>1. mgr \in ManagerState /\ wk \in [Worker -> WorkerState]
    BY DEF Init, ManagerState, WorkerState
  <2>2. set \subseteq Client /\ pipe_fd \in Seq(Client) /\ nclient \in Int
    BY <1>4 DEF Init
  <2>3. connections \in 0 .. MaxConnections
    BY ServerAssumption DEF Init, ServerAssumption
  <2>4. TypeOK
    BY <1>3, <2>1, <2>2, <2>3 DEF Init, TypeOK, ManagerState, WorkerState, Message
  <2>5. ManagerOK /\ WorkersOK
    BY DEF Init, ManagerOK, WorkersOK, Serving
  <2> QED
    BY <2>4, <2>5 DEF Typed
<1>6. CustodyInv
  BY <1>1, <1>4 DEF Init, CustodyInv, Apart, Distinct
<1>7. LockInv /\ SleepersNotNeeded
  BY <1>1 DEF Init, LockInv, SleepersNotNeeded, waiting, WAt
<1> QED
  BY <1>2, <1>5, <1>6, <1>7 DEF IInv

\* Every step keeps the invariant.
LEMMA InvNext == IInv /\ [Next]_vars => IInv'
BY TypedNext, ListNext, CustodyNext, LockNext, SleepNext DEF IInv

\* The inductive invariant holds.
LEMMA Invariant == Spec => []IInv
<1> QED
  BY InvInit, InvNext, PTL DEF Spec

(***************************************************************************)
(* The server and the clients keep their types.                            *)
(***************************************************************************)
THEOREM ServerTypes == Spec => []TypeOK
<1>1. IInv => TypeOK
  BY DEF IInv, Typed
<1> QED
  BY <1>1, Invariant, PTL

(***************************************************************************)
(* A connection is in exactly one place of the server until it is closed,  *)
(* and nowhere before it is accepted and after: for any number of clients  *)
(* and workers, whatever signals and deaths of clients come.               *)
(***************************************************************************)
THEOREM CustodyCorrect == Spec => []Custody
<1>1. ASSUME IInv
      PROVE  Custody
  <2> USE <1>1 DEF IInv
  <2> SUFFICES ASSUME NEW c \in Client
               PROVE  Places(c) = IF conn[c] = "open" THEN 1 ELSE 0
    BY DEF Custody
  <2> DEFINE servers == {w \in Worker : wk[w].req = c}
             slots == {i \in DOMAIN pipe_fd : pipe_fd[i] = c}
  <2>1. c # NULL
    BY QueueAssumption DEF QueueAssumption
  <2>2. Cardinality(servers) = IF c \in Served THEN 1 ELSE 0
    <3>1. CASE c \in Served
      <4>1. PICK w \in Worker : wk[w].req = c
        BY <3>1 DEF Served
      <4>2. servers = {w}
        BY <2>1, <4>1 DEF CustodyInv
      <4> QED
        BY <3>1, <4>2, FS_Singleton
    <3>2. CASE c \notin Served
      <4>1. servers = {}
        BY <2>1, <3>2 DEF Served
      <4> QED
        BY <3>2, <4>1, FS_EmptySet
    <3> QED
      BY <3>1, <3>2
  <2>3. Cardinality(slots) = IF c \in Piped THEN 1 ELSE 0
    <3>1. DOMAIN pipe_fd = 1 .. Len(pipe_fd)
      BY LenProperties DEF Typed, TypeOK
    <3>2. CASE c \in Piped
      <4>1. PICK i \in 1 .. Len(pipe_fd) : pipe_fd[i] = c
        BY <3>2 DEF Piped, Elements
      <4>2. slots = {i}
        BY <3>1, <4>1 DEF CustodyInv, Distinct
      <4> QED
        BY <3>2, <4>2, FS_Singleton
    <3>3. CASE c \notin Piped
      <4>1. slots = {}
        BY <3>1, <3>3 DEF Piped, Elements
      <4> QED
        BY <3>3, <4>1, FS_EmptySet
    <3> QED
      BY <3>2, <3>3
  <2> HIDE DEF servers, slots
  <2>4. Places(c) = (IF c \in set THEN 1 ELSE 0) + (IF c \in Hand THEN 1 ELSE 0)
                    + (IF c \in queued THEN 1 ELSE 0) + (IF c \in Served THEN 1 ELSE 0)
                    + (IF c \in Piped THEN 1 ELSE 0)
    BY <2>1, <2>2, <2>3 DEF Places, Hand, servers, slots
  <2>5. conn[c] = "open" <=> c \in UNION {set, Hand, queued, Served, Piped}
    BY DEF CustodyInv, connected
  <2>6. CASE c \in set
    BY <2>4, <2>5, <2>6 DEF CustodyInv, Apart
  <2>7. CASE c \in Hand
    BY <2>4, <2>5, <2>7 DEF CustodyInv, Apart
  <2>8. CASE c \in queued
    BY <2>4, <2>5, <2>8 DEF CustodyInv, Apart
  <2>9. CASE c \in Served
    BY <2>4, <2>5, <2>9 DEF CustodyInv, Apart
  <2>10. CASE c \in Piped
    BY <2>4, <2>5, <2>10 DEF CustodyInv, Apart
  <2>11. CASE c \notin UNION {set, Hand, queued, Served, Piped}
    BY <2>4, <2>5, <2>11
  <2> QED
    BY <2>6, <2>7, <2>8, <2>9, <2>10, <2>11
<1> QED
  BY <1>1, Invariant, PTL

(***************************************************************************)
(* No wakeup is lost while requests wait: a worker sleeps only if every    *)
(* queued request has a worker of its own on the way to take it, for any   *)
(* number of clients and workers.                                          *)
(***************************************************************************)
THEOREM NoLostWakeup == Spec => []SleepersNotNeeded
<1>1. IInv => SleepersNotNeeded
  BY DEF IInv
<1> QED
  BY <1>1, Invariant, PTL

(***************************************************************************)
(* The count of the connections.                                           *)
(***************************************************************************)
\* The updates of nclient that have been written.
Increments == connections - Cardinality(backlog) - (IF MAt("count") THEN 1 ELSE 0)
Decrements == connections - Cardinality(backlog) - Cardinality(connected)

\* A value of nclient, or one that was read and has not been written back,
\* comes of a chain of updates, each of which read what the one before it
\* wrote; what is not in the chain was lost.  The first is an increment, as
\* nobody is counted out before he is counted in.
Drifted(v) == v <= Increments /\ IF Increments = 0 THEN v = 0 ELSE 1 - Decrements <= v

\* The last update written is in the chain: after the last client has left
\* it is a decrement.
DriftInv ==
  /\ Decrements >= 0
  /\ MAt("count") => set # {}
  /\ Drifted(nclient)
  /\ MAt("count") => Drifted(mgr.reg)
  /\ \A w \in Worker : WAt(w, "decWrite") => Drifted(wk[w].reg)
  /\ connected = {} /\ Increments > 0 => nclient < Increments

\* The numbers are integers.
LEMMA DriftNumbers ==
  ASSUME Typed
  PROVE  /\ connections \in Nat /\ nclient \in Int /\ mgr.reg \in Int
         /\ \A w \in Worker : wk[w].reg \in Int
         /\ IsFiniteSet(backlog) /\ IsFiniteSet(connected)
         /\ Cardinality(backlog) \in Nat /\ Cardinality(connected) \in Nat
         /\ Increments \in Int /\ Decrements \in Int
<1>1. IsFiniteSet(backlog) /\ IsFiniteSet(connected)
  <2>1. backlog \subseteq Client /\ connected \subseteq Client /\ IsFiniteSet(Client)
    BY ServerAssumption DEF ServerAssumption, backlog, connected
  <2> QED
    BY <2>1, FS_Subset
<1>2. Cardinality(backlog) \in Nat /\ Cardinality(connected) \in Nat
  BY <1>1, FS_CardinalityType
<1>3. connections \in Nat /\ nclient \in Int /\ mgr.reg \in Int /\ \A w \in Worker : wk[w].reg \in Int
  BY ServerAssumption DEF Typed, TypeOK, ServerAssumption
<1> QED
  BY <1>1, <1>2, <1>3 DEF Increments, Decrements

\* The server has somebody in hand only after an increment.
LEMMA ServedWereCounted ==
  ASSUME Typed, CustodyInv, DriftInv, NEW w \in Worker, wk[w].pc \in {"decRead", "decWrite"}
  PROVE  Increments > 0 /\ wk[w].req \in connected /\ set \subseteq connected \ {wk[w].req}
<1>1. wk[w].req \in Served
  BY DEF Typed, TypeOK, WorkersOK, Serving, Served
<1>2. wk[w].req \in connected /\ set \subseteq connected \ {wk[w].req}
  BY <1>1 DEF CustodyInv, Apart
<1>3. Cardinality(connected) >= (IF MAt("count") THEN 2 ELSE 1)
  <2> DEFINE rest == connected \ {wk[w].req}
  <2>1. /\ IsFiniteSet(rest) /\ Cardinality(rest) \in Nat
        /\ Cardinality(connected) = Cardinality(rest) + 1
    <3>1. /\ IsFiniteSet(connected \ {wk[w].req})
          /\ Cardinality(connected \ {wk[w].req}) = Cardinality(connected) - 1
      BY <1>2, DriftNumbers, FS_RemoveElement
    <3>2. Cardinality(rest) \in Nat
      BY <3>1, FS_CardinalityType
    <3> QED
      BY <3>1, <3>2, DriftNumbers
  <2>2. MAt("count") => rest # {}
    BY <1>2 DEF DriftInv
  <2>3. rest # {} => Cardinality(rest) # 0
    BY <2>1, FS_EmptySet
  <2> HIDE DEF rest
  <2> QED
    BY <2>1, <2>2, <2>3
<1> QED
  BY <1>2, <1>3, DriftNumbers DEF DriftInv, Increments, Decrements

\* No connection is made, counted or closed.
Quiet ==
  /\ UNCHANGED <<conn, connections, nclient>>
  /\ MAt("count")' <=> MAt("count")
  /\ MAt("count") => mgr'.reg = mgr.reg /\ set' = set
  /\ \A w \in Worker : WAt(w, "decWrite")' => WAt(w, "decWrite") /\ wk'[w].reg = wk[w].reg

\* Then nothing drifts.
LEMMA QuietDrift ==
  ASSUME Typed, DriftInv, Quiet
  PROVE  DriftInv'
<1>1. Increments' = Increments /\ Decrements' = Decrements /\ connected' = connected
  BY DEF Quiet, Increments, Decrements, connected, backlog
<1>2. \A v : Drifted(v)' <=> Drifted(v)
  BY <1>1 DEF Drifted
<1>3. Drifted(nclient)'
  BY <1>1 DEF DriftInv, Drifted, Quiet
<1>4. MAt("count")' => Drifted(mgr.reg)'
  BY <1>1 DEF DriftInv, Drifted, Quiet
<1>5. ASSUME NEW w \in Worker, WAt(w, "decWrite")' PROVE Drifted(wk[w].reg)'
  BY <1>1, <1>5 DEF DriftInv, Drifted, Quiet
<1> QED
  BY <1>1, <1>3, <1>4, <1>5 DEF DriftInv, Quiet

\* All steps of the manager but two are quiet.
LEMMA ManagerQuiet ==
  ASSUME Typed, Manager
  PROVE  Quiet \/ MAccept \/ MCount
<1> USE DEF Quiet, Typed, TypeOK, WAt, MAt
<1>1. CASE MTest \/ MScanned \/ MJoin
  BY <1>1 DEF MTest, MScanned, MJoin, MGoto, clients
<1>2. CASE MSelect
  BY <1>2 DEF MSelect, clients
<1>3. CASE MHup \/ MInt
  BY <1>3 DEF MHup, MInt, Seen, Turn, clients
<1>4. CASE MReadListener \/ \E c \in Client : MReadEnd(c)
  BY <1>4 DEF MReadListener, MReadEnd, Exit, server, clients
<1>5. CASE MReactivate
  BY <1>5 DEF MReactivate, Seen, Turn, clients
<1>6. CASE \E c \in Client : MRead(c)
  BY <1>6 DEF MRead, Take, Seen, Turn
<1>7. CASE MPush
  <2>1. \A w \in Worker : wk'[w].pc = "decWrite" => wk[w].pc = "decWrite" /\ wk'[w].reg = wk[w].reg
    BY <1>7 DEF MPush, Wake, Become, waiting
  <2> QED
    BY <1>7, <2>1 DEF MPush, clients
<1>8. CASE MBroadcast
  <2>1. \A w \in Worker : wk'[w].pc = "decWrite" => wk[w].pc = "decWrite" /\ wk'[w].reg = wk[w].reg
    BY <1>8 DEF MBroadcast, waiting
  <2> QED
    BY <1>8, <2>1 DEF MBroadcast, clients
<1> QED
  BY <1>1, <1>2, <1>3, <1>4, <1>5, <1>6, <1>7, <1>8 DEF Manager

\* All steps of a worker but two are quiet.
LEMMA WorkerQuiet ==
  ASSUME Typed, NEW w \in Worker, WorkerStep(w)
  PROVE  Quiet \/ WDecRead(w) \/ WDecWrite(w)
<1>1. ASSUME NEW rec, Become(w, rec), rec.pc # "decWrite", UNCHANGED <<conn, nclient>>
      PROVE  Quiet
  <2>1. \A v \in Worker : wk'[v] = IF v = w THEN rec ELSE wk[v]
    BY <1>1, WorkerUpdate DEF Typed
  <2> QED
    BY <1>1, <2>1 DEF WorkerStep, Quiet, WAt, MAt
<1>2. \A pc : [wk[w] EXCEPT !.pc = pc].pc = pc
  BY DEF Typed, TypeOK
<1>3. ASSUME NEW from, NEW to, WGoto(w, from, to), to # "decWrite" PROVE Quiet
  BY <1>1, <1>2, <1>3 DEF WGoto
<1>4. CASE WTestInt(w) \/ WTestClients(w) \/ WTestHup(w) \/ WSleep(w)
  BY <1>3, <1>4 DEF WTestInt, WTestClients, WTestHup, WSleep
<1>5. ASSUME NEW message, NEW state, NEW pc, Reply(w, message, state, pc), pc # "decWrite"
      PROVE  Quiet
  BY <1>1, <1>2, <1>5 DEF Reply
<1>6. CASE WAnswer(w) \/ WCloseConnection(w)
  BY <1>5, <1>6 DEF WAnswer, WCloseConnection
<1>7. CASE WAnswerDead(w)
  BY <1>7 DEF WAnswerDead, Exit, server, clients, Quiet, MAt, WAt
<1>8. CASE WPop(w)
  <2>1. [wk[w] EXCEPT !.pc = "serve", !.req = qlast].pc = "serve"
    BY DEF Typed, TypeOK
  <2> QED
    BY <1>1, <1>8, <2>1 DEF WPop
<1>9. CASE WReactivate(w)
  <2>1. [wk[w] EXCEPT !.pc = "lock", !.req = NULL].pc = "lock"
    BY DEF Typed, TypeOK
  <2> QED
    BY <1>1, <1>9, <2>1 DEF WReactivate
<1> QED
  BY <1>4, <1>6, <1>7, <1>8, <1>9 DEF WorkerStep

\* A client that connects, and one that is accepted.
LEMMA ConnectDrift ==
  ASSUME Typed, DriftInv,
         (\E c \in Client : Up /\ OpenConnection(c)) \/ (Manager /\ MAccept)
  PROVE  DriftInv'
<1>1. CASE \E c \in Client : Up /\ OpenConnection(c)
  <2>1. PICK c \in Client : Up /\ OpenConnection(c)
    BY <1>1
  <2>2. /\ UNCHANGED <<mgr, wk, set, nclient>> /\ connections' = connections + 1
        /\ conn[c] = "none" /\ conn' = [conn EXCEPT ![c] = "backlog"]
    BY <2>1 DEF Up, OpenConnection, server
  <2>3. backlog' = backlog \cup {c} /\ c \notin backlog /\ connected' = connected
    BY <2>2 DEF backlog, connected, Typed, TypeOK
  <2>4. Cardinality(backlog') = Cardinality(backlog) + 1
    BY <2>3, DriftNumbers, FS_AddElement
  <2>5. Increments' = Increments /\ Decrements' = Decrements
    BY <2>2, <2>3, <2>4, DriftNumbers DEF Increments, Decrements, MAt
  <2> QED
    BY <2>2, <2>3, <2>5 DEF DriftInv, Drifted, MAt, WAt
<1>2. CASE Manager /\ MAccept
  <2>1. PICK c \in backlog : conn' = [conn EXCEPT ![c] = "open"] /\ set' = set \cup {c}
    BY <1>2 DEF MAccept
  <2>2. /\ UNCHANGED <<wk, nclient, connections>> /\ MAt("scan")
        /\ mgr'.pc = "count" /\ mgr'.reg = nclient
    BY <1>2 DEF MAccept, Turn, Seen, Typed, TypeOK
  <2>3. c \in Client /\ conn[c] = "backlog"
    BY <2>1 DEF backlog
  <2>4. /\ backlog' = backlog \ {c} /\ c \in backlog
        /\ connected' = connected \cup {c} /\ c \notin connected
    BY <2>1, <2>3 DEF backlog, connected, Typed, TypeOK
  <2>5. /\ Cardinality(backlog') = Cardinality(backlog) - 1
        /\ Cardinality(connected') = Cardinality(connected) + 1
    BY <2>4, DriftNumbers, FS_AddElement, FS_RemoveElement
  <2>6. Increments' = Increments /\ Decrements' = Decrements
    BY <2>2, <2>5, DriftNumbers DEF Increments, Decrements, MAt
  <2>7. connected' # {} /\ set' # {}
    BY <2>1, <2>4
  <2> QED
    BY <2>2, <2>6, <2>7 DEF DriftInv, Drifted, MAt, WAt
<1> QED
  BY <1>1, <1>2

\* An increment is written.
LEMMA CountDrift ==
  ASSUME Typed, CustodyInv, DriftInv, Manager, MCount
  PROVE  DriftInv'
<1>1. /\ UNCHANGED <<wk, conn, connections, set>> /\ nclient' = mgr.reg + 1
      /\ MAt("count") /\ ~ MAt("count")'
  BY DEF MCount, MAt, clients, Typed, TypeOK
<1>2. Increments' = Increments + 1 /\ Decrements' = Decrements /\ connected' = connected
  BY <1>1, DriftNumbers DEF Increments, Decrements, backlog, connected
<1>3. connected # {}
  BY <1>1 DEF DriftInv, CustodyInv
<1>4. Increments >= 0
  <2>1. Cardinality(connected) # 0
    BY <1>3, DriftNumbers, FS_EmptySet
  <2> QED
    BY <1>1, <2>1, DriftNumbers DEF Increments, Decrements, DriftInv
<1>5. Drifted(mgr.reg) /\ Drifted(nclient)'
  BY <1>1, <1>2, <1>4, DriftNumbers DEF DriftInv, Drifted
<1>6. ASSUME NEW w \in Worker, WAt(w, "decWrite")' PROVE Drifted(wk[w].reg)'
  <2>1. WAt(w, "decWrite") /\ wk'[w].reg = wk[w].reg
    BY <1>1, <1>6 DEF WAt
  <2>2. Increments > 0
    BY <2>1, ServedWereCounted DEF WAt
  <2>3. Drifted(wk[w].reg)
    BY <2>1 DEF DriftInv
  <2> QED
    BY <1>2, <2>1, <2>2, <2>3, DriftNumbers DEF Drifted
<1> QED
  BY <1>1, <1>2, <1>3, <1>5, <1>6 DEF DriftInv

\* A decrement is read, or written.
LEMMA DecrementDrift ==
  ASSUME Typed, CustodyInv, DriftInv, NEW w \in Worker, WorkerStep(w),
         WDecRead(w) \/ WDecWrite(w)
  PROVE  DriftInv'
<1>1. UNCHANGED <<mgr, set, connections>>
  BY DEF WorkerStep
<1>2. CASE WDecRead(w)
  <2>1. UNCHANGED <<conn, nclient>>
    BY <1>2 DEF WDecRead
  <2>2. \A v \in Worker : wk'[v].reg = IF v = w THEN nclient ELSE wk[v].reg
    <3>1. [wk[w] EXCEPT !.pc = "decWrite", !.reg = nclient].reg = nclient
      BY DEF Typed, TypeOK
    <3> QED
      BY <1>2, <3>1, WorkerUpdate DEF WDecRead, Typed
  <2>3. \A v \in Worker \ {w} : wk'[v] = wk[v]
    BY <1>2, WorkerUpdate DEF WDecRead, Typed
  <2>4. Increments' = Increments /\ Decrements' = Decrements /\ connected' = connected
    BY <1>1, <2>1 DEF Increments, Decrements, connected, backlog, MAt
  <2> QED
    BY <1>1, <2>1, <2>2, <2>3, <2>4 DEF DriftInv, Drifted, MAt, WAt
<1>3. CASE WDecWrite(w)
  <2>1. PICK c \in Client : c = wk[w].req
    BY <1>3 DEF WDecWrite, CloseFd, WAt, Typed, TypeOK, WorkersOK, Serving
  <2>2. /\ WAt(w, "decWrite") /\ nclient' = wk[w].reg - 1
        /\ conn' = [conn EXCEPT ![c] = "none"]
        /\ \A v \in Worker : wk'[v] = IF v = w THEN [pc |-> "lock", req |-> NULL, reg |-> 0]
                                      ELSE wk[v]
    BY <1>3, <2>1, WorkerUpdate DEF WDecWrite, CloseFd, Typed
  <2>3. Increments > 0 /\ c \in connected /\ set \subseteq connected \ {c}
    BY <2>1, <2>2, ServedWereCounted DEF WAt
  <2>4. connected' = connected \ {c} /\ backlog' = backlog
    BY <2>2, <2>3 DEF connected, backlog, Typed, TypeOK
  <2>5. Cardinality(connected') = Cardinality(connected) - 1
    BY <2>3, <2>4, DriftNumbers, FS_RemoveElement
  <2>6. Increments' = Increments /\ Decrements' = Decrements + 1
    BY <1>1, <2>4, <2>5, DriftNumbers DEF Increments, Decrements, MAt
  <2>7. Drifted(wk[w].reg) /\ wk[w].reg \in Int /\ Increments \in Int /\ Decrements \in Int
    BY <2>2, DriftNumbers DEF DriftInv
  <2>8. Drifted(nclient)' /\ nclient' < Increments' /\ Decrements' >= 0
    BY <2>2, <2>3, <2>6, <2>7 DEF Drifted, DriftInv
  <2>9. MAt("count")' => Drifted(mgr.reg)' /\ set' # {}
    BY <1>1, <2>3, <2>6, <2>7, DriftNumbers DEF DriftInv, Drifted, MAt
  <2>10. ASSUME NEW v \in Worker, WAt(v, "decWrite")' PROVE Drifted(wk[v].reg)'
    <3>1. WAt(v, "decWrite") /\ wk'[v].reg = wk[v].reg
      BY <2>2, <2>10 DEF WAt
    <3>2. Drifted(wk[v].reg) /\ wk[v].reg \in Int
      BY <3>1, DriftNumbers DEF DriftInv
    <3> QED
      BY <2>3, <2>6, <2>7, <3>1, <3>2 DEF Drifted
  <2> QED
    BY <2>8, <2>9, <2>10 DEF DriftInv
<1> QED
  BY <1>2, <1>3

\* Every step keeps the bounds.
LEMMA DriftNext ==
  ASSUME Typed, CustodyInv, DriftInv, [Next]_vars
  PROVE  DriftInv'
<1>1. CASE UNCHANGED vars
  BY <1>1, QuietDrift DEF vars, Quiet, MAt, WAt
<1>2. CASE Manager
  BY <1>2, ManagerQuiet, QuietDrift, ConnectDrift, CountDrift
<1>3. CASE \E w \in Worker : WorkerStep(w)
  BY <1>3, WorkerQuiet, QuietDrift, DecrementDrift
<1>4. CASE \/ \E c \in Client : Depart(c)
           \/ \E c \in Client : Up /\ (Ask(c) \/ Vanish(c))
           \/ Up /\ ThreadSignal
  <2>1. UNCHANGED <<mgr, wk, set, nclient, conn, connections>>
    BY <1>4 DEF Depart, Up, server, CloseConnection, Ask, Send, Vanish, ThreadSignal, clients
  <2> QED
    BY <2>1, QuietDrift DEF Quiet, MAt, WAt
<1>5. CASE \E c \in Client : Up /\ OpenConnection(c)
  BY <1>5, ConnectDrift
<1> QED
  BY <1>1, <1>2, <1>3, <1>4, <1>5 DEF Next

\* They hold at first.
LEMMA DriftInit == Init => DriftInv
<1> SUFFICES ASSUME Init PROVE DriftInv
  OBVIOUS
<1>1. backlog = {} /\ connected = {}
  BY DEF Init, backlog, connected
<1>2. Increments = 0 /\ Decrements = 0
  BY <1>1, FS_EmptySet DEF Init, Increments, Decrements, MAt
<1> QED
  BY <1>2 DEF Init, DriftInv, Drifted, MAt, WAt

(***************************************************************************)
(* Whatever updates of nclient get lost (server.c:155, util_server.c:159), *)
(* a server that has had k connections is off by less than k, for any      *)
(* number of clients, workers and connections.                             *)
(***************************************************************************)
THEOREM DriftIsBounded == Spec => []NclientDrift
<1>1. IInv /\ DriftInv => NclientDrift
  <2> SUFFICES ASSUME IInv, DriftInv, ~ Counting, connections > 0 PROVE NclientDrift
    BY DEF NclientDrift
  <2>1. PICK o \in Nat, b \in Nat, k \in Nat, n \in Int :
          /\ o = Cardinality(connected) /\ b = Cardinality(backlog)
          /\ k = connections /\ n = nclient
    BY DriftNumbers DEF IInv
  <2>2. Increments = k - b /\ Decrements = k - b - o
    BY <2>1 DEF Increments, Decrements, Counting
  <2>3. /\ k - b - o >= 0 /\ n <= k - b
        /\ IF k - b = 0 THEN n = 0 ELSE 1 - (k - b - o) <= n
    BY <2>1, <2>2 DEF DriftInv, Drifted
  <2>4. o = 0 /\ k - b > 0 => n < k - b
    <3>1. o = 0 => connected = {}
      BY <2>1, DriftNumbers, FS_EmptySet DEF IInv
    <3> QED
      BY <2>1, <2>2, <3>1 DEF DriftInv
  <2>5. n - o < k /\ o - n < k
    BY <2>1, <2>3, <2>4
  <2> QED
    BY <2>1, <2>5 DEF NclientDrift
<1>2. IInv /\ DriftInv /\ [Next]_vars => DriftInv'
  BY DriftNext DEF IInv
<1> QED
  BY <1>1, <1>2, DriftInit, Invariant, PTL DEF Spec
(***************************************************************************)
(* The refinement of Fifo.                                                 *)
(***************************************************************************)
\* A push of the manager is an Enqueue.
LEMMA PushEnqueues ==
  ASSUME Typed, CustodyInv, ListInv, MPush
  PROVE  Abstract!Enqueue(mgr.req) /\ mgr.req \in Client
<1>1. PICK r \in Client \ queued : r = mgr.req
  BY PushFacts
<1>2. PICK s : Represents(s)
  BY DEF ListInv
<1>3. PICK t : t = Append(s, r)
  OBVIOUS
<1>4. Push(r)
  BY <1>1 DEF MPush
<1>5. (\A i \in DOMAIN s : s[i] # r) /\ Represents(t)'
  BY <1>2, <1>3, <1>4, PushAppends, QueueAssumption
<1>6. AbstractQueue = s
  BY <1>2, WalkFindsSequence, QueueAssumption
<1>7. AbstractQueue' = t
  BY <1>5, WalkNext, QueueAssumption
<1> QED
  BY <1>1, <1>3, <1>5, <1>6, <1>7 DEF Abstract!Enqueue

\* A pop of a worker is a Dequeue.
LEMMA PopDequeues ==
  ASSUME ListInv, NEW w \in Worker, WPop(w)
  PROVE  Abstract!Dequeue
<1>1. PICK s : Represents(s)
  BY DEF ListInv
<1>2. PICK t : t = Tail(s)
  OBVIOUS
<1>3. qhead # NULL /\ Pop
  BY DEF WPop
<1>4. s # <<>> /\ Represents(t)'
  BY <1>1, <1>2, <1>3, PopTakesFirst, QueueAssumption
<1>5. AbstractQueue = s
  BY <1>1, WalkFindsSequence, QueueAssumption
<1>6. AbstractQueue' = t
  BY <1>4, WalkNext, QueueAssumption
<1> QED
  BY <1>2, <1>4, <1>5, <1>6 DEF Abstract!Dequeue

\* What leaves the list alone leaves what the walk finds alone.
LEMMA SameWalk ==
  ASSUME ListInv, UNCHANGED queue
  PROVE  AbstractQueue' = AbstractQueue
<1>1. PICK s : Represents(s)
  BY DEF ListInv
<1>2. Represents(s)'
  BY <1>1, SameList
<1> QED
  BY <1>1, <1>2, WalkFindsSequence, WalkNext, QueueAssumption

\* Nothing else touches the queue.
LEMMA QueueNext ==
  ASSUME Typed, CustodyInv, ListInv, [Next]_vars
  PROVE  [(\E r \in Client : Abstract!Enqueue(r)) \/ Abstract!Dequeue]_AbstractQueue
<1>1. CASE Still
  BY <1>1, SameWalk DEF Still
<1>2. CASE MPush
  BY <1>2, PushEnqueues
<1>3. CASE MAccept \/ MReactivate \/ \E c \in Client : MRead(c)
  <2>1. UNCHANGED queue
    BY <1>3 DEF MAccept, MReactivate, MRead, Take
  <2> QED
    BY <2>1, SameWalk
<1>4. CASE \E w \in Worker : WPop(w)
  BY <1>4, PopDequeues
<1>5. CASE \E w \in Worker : WReactivate(w) \/ WDecWrite(w)
  <2>1. UNCHANGED queue
    BY <1>5 DEF WReactivate, WDecWrite, CloseFd
  <2> QED
    BY <2>1, SameWalk
<1> QED
  BY <1>1, <1>2, <1>3, <1>4, <1>5, Cases DEF Typed

(***************************************************************************)
(* push and pop (util_server.c:29-70) are a first-in first-out queue under *)
(* all that the manager, the workers, the signals and the clients do:      *)
(* every step of the server is one step of Fifo on the sequence found by   *)
(* walking the list from last, or leaves it alone.                         *)
(***************************************************************************)
THEOREM QueueCorrect == Spec => QueueIsFifo
<1>1. Init => AbstractQueue = <<>>
  <2> SUFFICES ASSUME Init PROVE AbstractQueue = <<>>
    OBVIOUS
  <2>1. Represents(<<>>)
    BY InitIsEmpty DEF Init
  <2> QED
    BY <2>1, WalkFindsSequence, QueueAssumption
<1>2. IInv /\ [Next]_vars =>
        [(\E r \in Client : Abstract!Enqueue(r)) \/ Abstract!Dequeue]_AbstractQueue
  BY QueueNext DEF IInv
<1> QED
  BY <1>1, <1>2, Invariant, PTL DEF Spec, QueueIsFifo, Abstract!FifoSpec
==============================================================================
