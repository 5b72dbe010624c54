------------------------------ MODULE Deployment ------------------------------
(***************************************************************************)
(* A server and its clients from start to end, as test1.sh and test2.sh    *)
(* run them: the server reads its configuration, binds its socket and      *)
(* listens; users come at any time, before it is ready too; a signal or a  *)
(* client that dies ends it; it may be started again.                      *)
(*                                                                         *)
(* What happens inside the server while it listens is FileTable here,      *)
(* which StorageWorkers implements; the threads that carry requests and    *)
(* answers are RequestServer's.  Here a pool of N_THREAD of them serves     *)
(* them: an appendToFile may keep its worker for ever.                      *)
(***************************************************************************)
EXTENDS ClientSession, Configuration

CONSTANTS
  Socket,    \* the -f of the users
  Crowded,   \* bound: pairs of a configuration file and a command line that
             \* users have under it
  MaxBoots   \* bound: how often the server is started

VARIABLES
  server,   \* "starting", "bound", "listening", "stopping" or "gone"
  sockets,  \* the socket files that exist
  boots,    \* how often the server has been started
  bound,    \* how often one of them has bound its socket
  taken     \* the connections whose request a stopping server may still serve

deployment == <<server, sockets, boots, bound, taken>>

vars == <<files, asks, sessions, configuration, deployment>>

Init ==
  /\ Table!TableInit
  /\ SessionInit
  /\ ConfigInit
  /\ server = "starting"
  /\ sockets = {}
  /\ boots = 1
  /\ bound = 0
  /\ taken = {}

(***************************************************************************)
(* The server's life.                                                      *)
(***************************************************************************)
Configure ==
  /\ server = "starting"
  /\ ConfigNext
  /\ UNCHANGED <<files, asks, sessions, deployment>>

\* Everybody who was connected, or about to be, has lost the server.
Lost ==
  [u \in User |-> IF user[u].fd \in connected \/ Is(u, "backlog")
                  THEN [user[u] EXCEPT !.lost = TRUE, !.fd = NoClient] ELSE user[u]]

\* The process is gone, and with it its descriptors and its storage; the
\* socket file stays.
Gone ==
  /\ server' = "gone"
  /\ files' = [f \in {} |-> NULL]
  /\ asks' = [c \in Client |-> Table!NoAsk]
  /\ connected' = {}
  /\ failures' = [d \in Client |-> 0]
  /\ user' = Lost
  /\ taken' = {}
  /\ UNCHANGED <<configuration, sockets, boots, bound>>

BootFails ==
  /\ server = "starting"
  /\ boot \in {"exit", "crash"}
  /\ Gone

\* A negative number of threads is the size of an array on the stack: the
\* process may die of it, or live without threads.
ThreadsFail ==
  /\ server = "starting" /\ Configured
  /\ cfg.N_THREAD < 1
  /\ Gone

\* Faulty variant: an old socket file is removed first.
BindUnlinks ==
  /\ server = "starting" /\ Configured
  /\ sockets' = sockets \cup {cfg.SOCKNAME}
  /\ server' = "bound" /\ bound' = bound + 1
  /\ UNCHANGED <<files, asks, sessions, configuration, boots, taken>>

Bind ==
  /\ server = "starting" /\ Configured
  /\ cfg.SOCKNAME \notin sockets
  /\ sockets' = sockets \cup {cfg.SOCKNAME}
  /\ server' = "bound" /\ bound' = bound + 1
  /\ UNCHANGED <<files, asks, sessions, configuration, boots, taken>>

BindFails ==
  /\ server = "starting" /\ Configured
  /\ cfg.SOCKNAME \in sockets
  /\ Gone

Listen ==
  /\ server = "bound"
  /\ server' = "listening"
  /\ UNCHANGED <<files, asks, sessions, configuration, sockets, boots, bound, taken>>

\* The connections from which a request has come that is not answered yet.
Requesting ==
  {c \in Client : asks[c].state = "pending"}
  \cup {user[u].fd : u \in {v \in User : /\ user[v].pc \in {"bye", "byeEarly"}
                                         /\ user[v].sent /\ ~user[v].lost}}

\* After SIGINT, SIGQUIT or SIGHUP the manager leaves its loop and joins the
\* workers.  Some of the requests that have come it has read before: only
\* those may still be served.
Signal ==
  /\ server = "listening"
  /\ server' = "stopping"
  /\ taken' \in SUBSET Requesting
  /\ UNCHANGED <<files, asks, sessions, configuration, sockets, boots, bound>>

\* Every worker has been joined.  They may have returned before the last
\* requests were pushed.
End == server = "stopping" /\ Gone

\* A connection that comes while SIGHUP is dealt with: main reads the
\* listening socket as if it were a client's, and exits.
ReadListener ==
  /\ server = "listening"
  /\ \E u \in User : Is(u, "backlog") /\ ~user[u].lost
  /\ Gone

\* A client that died is at end of file, which the manager reads as a
\* request (server.c:190).
ReadEnd ==
  /\ server = "listening"
  /\ \E u \in User : Is(u, "exited") /\ user[u].fd \in connected
  /\ Gone

Restart ==
  /\ server = "gone" /\ boots < MaxBoots
  /\ server' = "starting"
  /\ boots' = boots + 1
  /\ at' = 1 /\ cfg' = Blank /\ boot' = "command"
  /\ UNCHANGED <<command, lines, files, asks, sessions, sockets, bound, taken>>

\* A worker has, or can get, the request on descriptor c.
Served(c) ==
  /\ server = "listening" \/ c \in taken
  /\ cfg.N_THREAD >= 1

\* A worker serves a request.
Serve(c) ==
  /\ Served(c)
  /\ Table!Serve(c)
  /\ taken' = IF asks'[c].state = "pending" THEN taken ELSE taken \ {c}
  /\ UNCHANGED <<sessions, configuration, server, sockets, boots, bound>>

\* A worker answers a closeConnection.
Leave(u) ==
  /\ Served(user[u].fd)
  /\ Hangup(u)
  /\ taken' = taken \ {user[u].fd}
  /\ UNCHANGED <<configuration, server, sockets, boots, bound>>

\* Faulty variant: a descriptor is closed while its user is there.
CloseFdAny(d) ==
  /\ d \in connected
  /\ connected' = connected \ {d}
  /\ UNCHANGED <<files, asks, user, failures, configuration, deployment>>

\* The descriptor of a user who has left is closed; what the user has left
\* open stays as it is.
CloseFd(d) ==
  /\ d \in connected
  /\ \A u \in User : user[u].fd # d
  /\ connected' = connected \ {d}
  /\ UNCHANGED <<files, asks, user, failures, configuration, deployment>>

(***************************************************************************)
(* Users come.                                                             *)
(***************************************************************************)
\* openConnection: every failure of connect ends the client, the loop that
\* should wait for the server does not get to wait.  A server that is
\* stopping has its socket open still.
Arrive(u) ==
  /\ Is(u, "away")
  /\ \E tasks \in {k \in Commands : <<lines, k>> \in Crowded} :
       Become(u, IF /\ Socket \in sockets /\ cfg.SOCKNAME = Socket
                    /\ server \in {"listening", "stopping"}
                 THEN [Away EXCEPT !.pc = "backlog", !.tasks = tasks]
                 ELSE Over(Away, "exited"))
  /\ UNCHANGED <<files, asks, connected, failures, configuration, deployment>>

Accept(u) ==
  /\ Is(u, "backlog") /\ server = "listening" /\ ~user[u].lost
  /\ Client \ connected # {}
  /\ LET fd == Min(Client \ connected) IN
     /\ connected' = connected \cup {fd}
     /\ Become(u, [user[u] EXCEPT !.pc = "dispatch", !.fd = fd])
  /\ UNCHANGED <<files, asks, failures, configuration, deployment>>

\* The server went before it accepted: the first request is lost.
Unaccepted(u) ==
  /\ Is(u, "backlog") /\ user[u].lost
  /\ Become(u, Over(Away, "exited"))
  /\ UNCHANGED <<files, asks, connected, failures, configuration, deployment>>

Step(u) == Unaccepted(u) \/ (ClientStep(u) /\ UNCHANGED <<configuration, deployment>>)

Next ==
  \/ Configure \/ BootFails \/ ThreadsFail \/ Bind \/ BindFails \/ Listen
  \/ Signal \/ End \/ ReadListener \/ ReadEnd \/ Restart
  \/ \E c \in Client : Serve(c)
  \/ \E d \in Client : CloseFd(d)
  \/ \E u \in User : Arrive(u) \/ Accept(u) \/ Leave(u) \/ Step(u)

Concludes(c) ==
  /\ asks[c].op # "append"
  /\ Serve(c)
  /\ asks'[c].state \in {"ok", "ko"}

\* An appendToFile may keep its worker for ever: the eviction cycle of
\* UpdateFile does not always end (EvictionCycleEnds).
Appending == {c \in Client : asks[c].op = "append" /\ asks[c].state = "pending"}

WorkerFree == server = "listening" /\ Cardinality(Appending) < cfg.N_THREAD

\* The manager accepts users and the users go on.  A worker comes to the
\* answer of every request but an appendToFile, as StorageWorkers shows, so
\* that as long as one is free of appends all other requests are answered.
\* Nobody has to come, no signal has to be sent, and a server that stops need
\* not end: a worker may not be joined (IntEnds in ServerProperties).
Fairness ==
  /\ \A u \in User : /\ WF_vars(Step(u)) /\ WF_vars(Accept(u))
                     /\ WF_vars(WorkerFree /\ Leave(u))
  /\ \A c \in Client : WF_vars(WorkerFree /\ Concludes(c)) /\ WF_vars(CloseFd(c))

Spec == Init /\ [][Next]_vars /\ Fairness
==============================================================================
