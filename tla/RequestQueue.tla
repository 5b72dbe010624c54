----------------------------- MODULE RequestQueue -----------------------------
(***************************************************************************)
(* The queue of requests between the manager and the worker threads        *)
(* (createQueue, push and pop in includes/util_server.c): a doubly linked  *)
(* list.  push links at head; pop takes from last and follows father.      *)
(*                                                                         *)
(* A request is named by the file descriptor of the client that made it: a *)
(* client has at most one.  Both operations run under queue->lock, which   *)
(* the module that uses them models.                                       *)
(***************************************************************************)
EXTENDS Integers, FiniteSets

CONSTANTS
  Client,  \* file descriptors the server gives to its clients
  NULL

ASSUME QueueAssumption == NULL \notin Client

VARIABLES
  rq,       \* the queued requests: DOMAIN rq -> [son, father]
  qhead,    \* queue->head, the newest request
  qlast,    \* queue->last, the oldest
  count_rq  \* queue->count_rq

queue == <<rq, qhead, qlast, count_rq>>

queued == DOMAIN rq

QueueTypeOK ==
  /\ queued \subseteq Client
  /\ rq \in [queued -> [son : Client \cup {NULL}, father : Client \cup {NULL}]]
  /\ qhead \in Client \cup {NULL}
  /\ qlast \in Client \cup {NULL}
  /\ count_rq \in 0 .. Cardinality(Client)

\* createQueue
QueueInit ==
  /\ rq = [r \in {} |-> NULL]
  /\ qhead = NULL
  /\ qlast = NULL
  /\ count_rq = 0

Empty == qhead = NULL /\ qlast = NULL

\* Faulty variant: the old head does not learn of its father.
PushOneWay(r) ==
  /\ rq' = [x \in queued \cup {r} |->
              IF x = r THEN [son |-> qhead, father |-> NULL] ELSE rq[x]]
  /\ qhead' = r
  /\ qlast' = IF Empty THEN r ELSE qlast
  /\ count_rq' = count_rq + 1

Push(r) ==
  /\ rq' = [x \in queued \cup {r} |->
              IF x = r THEN [son |-> qhead, father |-> NULL]
              ELSE IF x = qhead THEN [rq[x] EXCEPT !.father = r]
              ELSE rq[x]]
  /\ qhead' = r
  /\ qlast' = IF Empty THEN r ELSE qlast
  /\ count_rq' = count_rq + 1

\* Faulty variant: the counter is not taken down.
PopNotCounting ==
  LET next == rq[qlast].father IN
  /\ rq' = [x \in queued \ {qlast} |->
              IF x = next THEN [rq[x] EXCEPT !.son = NULL] ELSE rq[x]]
  /\ qhead' = IF next = NULL THEN NULL ELSE qhead
  /\ qlast' = next
  /\ UNCHANGED count_rq

\* The popped request is qlast; it now belongs to the thread that popped.
Pop ==
  LET next == rq[qlast].father IN
  /\ rq' = [x \in queued \ {qlast} |->
              IF x = next THEN [rq[x] EXCEPT !.son = NULL] ELSE rq[x]]
  /\ qhead' = IF next = NULL THEN NULL ELSE qhead
  /\ qlast' = next
  /\ count_rq' = count_rq - 1

(***************************************************************************)
(* The sequence the list stands for, oldest first.                         *)
(***************************************************************************)
FromLast[k \in Nat] ==
  IF k = 0 THEN qlast
  ELSE LET r == FromLast[k - 1] IN IF r \in queued THEN rq[r].father ELSE NULL

AbstractQueue == [i \in 1 .. count_rq |-> FromLast[i - 1]]

Abstract == INSTANCE Fifo WITH Request <- Client, fifo <- AbstractQueue
==============================================================================
