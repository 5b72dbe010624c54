--------------------------- MODULE ServerProperties ---------------------------
(***************************************************************************)
(* What the request server owes its clients, and what comments of the      *)
(* repository say that it does not do.                                     *)
(***************************************************************************)
EXTENDS RequestServer

connected == {c \in Client : conn[c] = "open"}

\* A count of nclient is under way: the increment of the manager, the
\* decrement of a worker.
Counting == MAt("count") \/ \E w \in Worker : wk[w].pc \in {"decRead", "decWrite"}

(***************************************************************************)
(* Safety.                                                                 *)
(***************************************************************************)

\* The places where the server can have the descriptor of client c.
Places(c) ==
  (IF c \in set THEN 1 ELSE 0)
  + (IF mgr.req = c THEN 1 ELSE 0)
  + (IF c \in queued THEN 1 ELSE 0)
  + Cardinality({w \in Worker : wk[w].req = c})
  + Cardinality({i \in DOMAIN pipe_fd : pipe_fd[i] = c})

\* A connection is in exactly one place until it is closed: listened to, in
\* the manager's hand, queued, served, or in the pipe.  So two workers never
\* serve the same client (StorageWorkers relies on it) and no client is
\* forgotten, although FD_CLR, push, pop and the write to pipe_fd are four
\* pieces of code in two kinds of threads.
Custody == \A c \in Client : Places(c) = IF conn[c] = "open" THEN 1 ELSE 0

\* A worker sleeps only while every queued request has another worker awake
\* and free to take it: no wakeup is lost between the test of queue->head
\* and pthread_cond_wait, and requests are not served one after the other
\* while workers sleep.
SleepersNotNeeded ==
  waiting # {} => Cardinality(queued) <= Cardinality({w \in Worker : WAt(w, "lock")})

\* nclient is updated by all threads without a lock (server.c:155,
\* util_server.c:159).  Updates that overlap get lost, but each connection
\* spoils the count by at most one, and one alone never does: a server that
\* has had k connections is off by less than k.
NclientDrift ==
  ~Counting /\ connections > 0 =>
    \A off \in {nclient - Cardinality(connected), Cardinality(connected) - nclient} :
      off < connections

\* The linked list is a first-in first-out queue: push and pop do what the
\* abstract queue of module Fifo does, and no other step touches it.
QueueIsFifo == Abstract!FifoSpec

(***************************************************************************)
(* Progress.                                                               *)
(***************************************************************************)

\* The request of c is an appendToFile that a worker is in the middle of.
AppendUnderWay(c) == \E w \in Worker : wk[w].req = c /\ InUpdateFile(w)

\* No worker is left for anything else.
AllInUpdateFile == \A w \in Worker : InUpdateFile(w) \/ WAt(w, "done")

\* As long as no signal arrives and no client dies, every request is
\* answered, whatever the other clients ask, unless UpdateFile never comes
\* to an end: for the client's own append, or for as many as there are
\* workers (file_storage.c:218-231).
RequestsAnswered ==
  \A c \in Client :
    \/ cl[c] \in {"asking", "leaving"} ~>
         (cl[c] \in {"idle", "away"} \/ signal # "none" \/ exited)
    \/ <>[]AppendUnderWay(c)
    \/ <>[]AllInUpdateFile

\* The manager waits for a worker that the broadcast did not reach: it held
\* the lock, on its way to pthread_cond_wait.
LostWakeup == MAt("join") /\ waiting # {}

\* nclient is off, with no update of it under way.
Miscount == ~Counting /\ nclient # Cardinality(connected)

\* The workers have left although a client is connected: one read nclient = 0
\* before the client was counted, and sigHUP after the signal.  Only a pool of
\* one gets here without a miscount: queue->lock, held between the two reads,
\* keeps a second worker from reading the same.
Deserted == connected # {} /\ \A w \in Worker : WAt(w, "done")

\* A worker that never comes back from UpdateFile is never joined
\* (server.c:221).
NeverJoined == \E w \in Worker : <>[]InUpdateFile(w)

\* SIGINT or SIGQUIT ends the server, connected clients or not, unless the
\* broadcast misses a worker or an append never ends.
IntEnds ==
  \/ signal = "INT" ~> (MAt("closed") \/ exited \/ LostWakeup)
  \/ NeverJoined

\* SIGHUP ends the server once its clients have left, unless the broadcast
\* misses a worker, an update of nclient was lost, the workers left before a
\* last client was counted, or an append never ends.
HupEnds ==
  \/ signal = "HUP" ~> (MAt("closed") \/ exited \/ LostWakeup \/ Miscount \/ Deserted)
  \/ NeverJoined

(***************************************************************************)
(* What the repository says.                                               *)
(***************************************************************************)

\* server.c:136: the server shuts down "when SIGHUP is catched and there is
\* no client connection".
HupWaitsForClients ==
  MAt("broadcast") /\ sigHUP /\ ~sigINT_sigQUIT => connected = {}

\* server.c:174: the last branch of the scan is "client request available":
\* nothing but the descriptor of a client reaches it.
OnlyClientsAreRead == [][~MReadListener]_vars
==============================================================================
