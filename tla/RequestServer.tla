---------------------------- MODULE RequestServer ----------------------------
(***************************************************************************)
(* The life of a connection in the server: the manager (the select loop of *)
(* main in server.c), the queue, the idle loop of the worker threads       *)
(* (threadF in includes/util_server.c), the signal thread and the clients  *)
(* (includes/API.c).  What a request does to the storage is the business   *)
(* of StorageWorkers; here a request is an operation, of which only the    *)
(* appendToFile may never end, or a closeConnection.                       *)
(*                                                                         *)
(* A step is one system call or one access to a variable that is read or   *)
(* written without the queue's lock: nclient, sigHUP and sigINT_sigQUIT    *)
(* are, by the manager and by every worker.                                *)
(***************************************************************************)
EXTENDS RequestQueue, Sequences

CONSTANTS
  Worker,          \* the worker threads
  Pools,           \* the sets of them the server may have created
  Abrupt,          \* the clients that may end without closeConnection
  Signals,         \* the signals that may arrive, among "HUP" and "INT"
  MaxConnections   \* bound on the connections made in a behaviour

\* What the manager listens to besides the clients, from the start: the
\* pipes of SIGHUP and of SIGINT, the listening socket, the clients' pipe.
Listened == {"hup", "int", "server", "pipe"}

ASSUME ServerAssumption ==
  /\ IsFiniteSet(Client) /\ Client \cap Listened = {}
  /\ IsFiniteSet(Worker)
  /\ Pools \subseteq (SUBSET Worker) \ {{}}
  /\ Abrupt \subseteq Client
  /\ Signals \subseteq {"HUP", "INT"}
  /\ MaxConnections \in Nat

VARIABLES
  mgr,             \* the manager: statement, select's result, request in hand
  wk,              \* wk[w]: statement and request in hand of worker w
  set,             \* the clients the manager listens to
  pipe_fd,         \* answered clients on their way back to set
  nclient, sigHUP, sigINT_sigQUIT,
  signal,          \* the one signal the signal thread has taken
  conn,            \* the server's end of each connection
  cl,              \* the clients
  inbox,           \* the message a client has sent and the manager not read
  request,         \* the message the manager read last from each client
  connections,     \* how many connections were made
  exited           \* the process has died

vars == <<rq, qhead, qlast, count_rq, mgr, wk, set, pipe_fd, nclient, sigHUP,
          sigINT_sigQUIT, signal, conn, cl, inbox, request, connections, exited>>

server == <<queue, mgr, wk, set, pipe_fd, nclient, sigHUP, sigINT_sigQUIT>>
clients == <<conn, cl, inbox, request, connections>>

Message == {"none", "op", "append", "close"}

TypeOK ==
  /\ QueueTypeOK
  /\ mgr \in [pc    : {"test", "select", "scan", "count", "push", "broadcast",
                       "join", "closed"},
              ready : SUBSET (Listened \cup Client),
              req   : Client \cup {NULL},
              reg   : Int]
  /\ wk \in [Worker -> [pc  : {"lock", "testClients", "testHup", "sleep", "waiting",
                               "serve", "repipe", "decRead", "decWrite", "done"},
                        req : Client \cup {NULL},
                        reg : Int]]
  /\ set \subseteq Client
  /\ pipe_fd \in Seq(Client)
  /\ nclient \in Int
  /\ sigHUP \in BOOLEAN
  /\ sigINT_sigQUIT \in BOOLEAN
  /\ signal \in {"none", "HUP", "INT"}
  /\ conn \in [Client -> {"none", "backlog", "open"}]
  /\ cl \in [Client -> {"away", "idle", "asking", "leaving", "gone"}]
  /\ inbox \in [Client -> Message]
  /\ request \in [Client -> Message]
  /\ connections \in 0 .. MaxConnections
  /\ exited \in BOOLEAN

\* A thread that was not created counts as one that has returned.
Init ==
  /\ QueueInit
  /\ mgr = [pc |-> "test", ready |-> {}, req |-> NULL, reg |-> 0]
  /\ \E pool \in Pools :
       wk = [w \in Worker |-> [pc  |-> IF w \in pool THEN "lock" ELSE "done",
                               req |-> NULL, reg |-> 0]]
  /\ set = {}
  /\ pipe_fd = <<>>
  /\ nclient = 0
  /\ sigHUP = FALSE
  /\ sigINT_sigQUIT = FALSE
  /\ signal = "none"
  /\ conn = [c \in Client |-> "none"]
  /\ cl = [c \in Client |-> "away"]
  /\ inbox = [c \in Client |-> "none"]
  /\ request = [c \in Client |-> "none"]
  /\ connections = 0
  /\ exited = FALSE

\* exit() or a fatal signal: every thread of the process is gone.
Exit == exited' = TRUE /\ UNCHANGED <<server, clients>>

MAt(pc) == mgr.pc = pc

WAt(w, pc) == wk[w].pc = pc

Become(w, state) == wk' = [wk EXCEPT ![w] = state]

waiting == {w \in Worker : WAt(w, "waiting")}

\* queue->lock is held while a worker decides, with an empty queue, to wait
\* or to leave; push and pop take and give it back within one step.
LockFree == \A w \in Worker : wk[w].pc \notin {"testClients", "testHup", "sleep"}

(***************************************************************************)
(* The manager: main's loop.                                               *)
(***************************************************************************)
MGoto(from, to) ==
  /\ MAt(from)
  /\ mgr' = [mgr EXCEPT !.pc = to]
  /\ UNCHANGED <<queue, wk, set, pipe_fd, nclient, sigHUP, sigINT_sigQUIT, clients, exited>>

\* Faulty variant: SIGHUP is not looked at.
MTestIntOnly == MGoto("test", IF sigINT_sigQUIT THEN "broadcast" ELSE "select")

MTest == MGoto("test", IF sigINT_sigQUIT \/ (sigHUP /\ nclient = 0)
                       THEN "broadcast" ELSE "select")

backlog == {c \in Client : conn[c] = "backlog"}

\* What select finds readable.  The signal thread closes the write end of
\* its pipe, which stays readable for ever; a dead client is at end of file.
Readable ==
  {x \in Listened : \/ x = "hup" /\ signal = "HUP"
                    \/ x = "int" /\ signal = "INT"
                    \/ x = "server" /\ backlog # {}
                    \/ x = "pipe" /\ pipe_fd # <<>>}
  \cup {c \in set : inbox[c] # "none" \/ cl[c] = "gone"}

MSelect ==
  /\ MAt("select")
  /\ Readable # {}
  /\ mgr' = [mgr EXCEPT !.pc = "scan", !.ready = Readable]
  /\ UNCHANGED <<queue, wk, set, pipe_fd, nclient, sigHUP, sigINT_sigQUIT, clients, exited>>

\* The scan goes through the descriptors in increasing order, in which main
\* opened them; those of the clients are the largest, in any order.
Rank(x) == CASE x = "hup" -> 1 [] x = "int" -> 2 [] x = "server" -> 3
             [] x = "pipe" -> 4 [] OTHER -> 5

\* The scan has come to x: what it leaves of mgr is Seen(x).
Turn(x) ==
  /\ MAt("scan")
  /\ x \in mgr.ready
  /\ \A y \in mgr.ready : Rank(x) <= Rank(y)

Seen(x) == [mgr EXCEPT !.ready = @ \ {x}]

MScanned == mgr.ready = {} /\ MGoto("scan", "test")

MHup ==
  /\ Turn("hup")
  /\ sigHUP' = TRUE
  /\ mgr' = Seen("hup")
  /\ UNCHANGED <<queue, wk, set, pipe_fd, nclient, sigINT_sigQUIT, clients, exited>>

\* Faulty variant: the pipe is seen and the flag is not set.
MIntIgnored ==
  /\ Turn("int")
  /\ mgr' = Seen("int")
  /\ UNCHANGED <<queue, wk, set, pipe_fd, nclient, sigHUP, sigINT_sigQUIT, clients, exited>>

MInt ==
  /\ Turn("int")
  /\ sigINT_sigQUIT' = TRUE
  /\ mgr' = Seen("int")
  /\ UNCHANGED <<queue, wk, set, pipe_fd, nclient, sigHUP, clients, exited>>

\* accept, and the read of nclient += 1.
MAccept ==
  /\ Turn("server")
  /\ ~sigHUP
  /\ \E c \in backlog :
       /\ conn' = [conn EXCEPT ![c] = "open"]
       /\ set' = set \cup {c}
  /\ mgr' = [Seen("server") EXCEPT !.pc = "count", !.reg = nclient]
  /\ UNCHANGED <<queue, wk, pipe_fd, nclient, sigHUP, sigINT_sigQUIT, cl, inbox,
                 request, connections, exited>>

\* The write of nclient += 1.
MCount ==
  /\ MAt("count")
  /\ nclient' = mgr.reg + 1
  /\ mgr' = [mgr EXCEPT !.pc = "scan", !.reg = 0]
  /\ UNCHANGED <<queue, wk, set, pipe_fd, sigHUP, sigINT_sigQUIT, clients, exited>>

\* After SIGHUP the listening socket falls into the branch of the clients:
\* it is read like a connection, read fails and main exits.
MReadListener == Turn("server") /\ sigHUP /\ Exit

MReactivate ==
  /\ Turn("pipe")
  /\ set' = set \cup {Head(pipe_fd)}
  /\ pipe_fd' = Tail(pipe_fd)
  /\ mgr' = Seen("pipe")
  /\ UNCHANGED <<queue, wk, nclient, sigHUP, sigINT_sigQUIT, clients, exited>>

Take(c) ==
  /\ inbox[c] # "none"
  /\ inbox' = [inbox EXCEPT ![c] = "none"]
  /\ request' = [request EXCEPT ![c] = inbox[c]]
  /\ mgr' = [Seen(c) EXCEPT !.pc = "push", !.req = c]
  /\ UNCHANGED <<queue, wk, pipe_fd, nclient, sigHUP, sigINT_sigQUIT, conn, cl,
                 connections, exited>>

\* Faulty variant: FD_CLR is forgotten.
MReadKeepsListening(c) == Turn(c) /\ Take(c) /\ UNCHANGED set

MRead(c) == Turn(c) /\ Take(c) /\ set' = set \ {c}

\* End of file reads as an empty message, in which there is no api_id:
\* strtol is given NULL.
MReadEnd(c) == Turn(c) /\ inbox[c] = "none" /\ cl[c] = "gone" /\ Exit

\* Faulty variant: the workers are told of the first request only.
WakeIfEmpty ==
  IF waiting = {} \/ ~Empty THEN UNCHANGED wk
  ELSE \E w \in waiting : Become(w, [wk[w] EXCEPT !.pc = "lock"])

\* pthread_cond_signal.
Wake ==
  IF waiting = {} THEN UNCHANGED wk
  ELSE \E w \in waiting : Become(w, [wk[w] EXCEPT !.pc = "lock"])

MPush ==
  /\ MAt("push")
  /\ LockFree
  /\ Push(mgr.req)
  /\ Wake
  /\ mgr' = [mgr EXCEPT !.pc = "scan", !.req = NULL]
  /\ UNCHANGED <<set, pipe_fd, nclient, sigHUP, sigINT_sigQUIT, clients, exited>>

\* pthread_cond_broadcast, for which the manager does not take the lock.
MBroadcast ==
  /\ MAt("broadcast")
  /\ wk' = [w \in Worker |-> IF w \in waiting THEN [wk[w] EXCEPT !.pc = "lock"] ELSE wk[w]]
  /\ mgr' = [mgr EXCEPT !.pc = "join"]
  /\ UNCHANGED <<queue, set, pipe_fd, nclient, sigHUP, sigINT_sigQUIT, clients, exited>>

MJoin == (\A w \in Worker : WAt(w, "done")) /\ MGoto("join", "closed")

Manager ==
  /\ ~exited
  /\ UNCHANGED signal
  /\ \/ MTest \/ MSelect \/ MScanned \/ MHup \/ MInt
     \/ MAccept \/ MCount \/ MReadListener \/ MReactivate
     \/ \E c \in Client : MRead(c) \/ MReadEnd(c)
     \/ MPush \/ MBroadcast \/ MJoin

(***************************************************************************)
(* A worker thread.  The frame of WorkerStep names what no worker writes.  *)
(***************************************************************************)
WGoto(w, from, to) ==
  /\ WAt(w, from)
  /\ Become(w, [wk[w] EXCEPT !.pc = to])
  /\ UNCHANGED <<queue, pipe_fd, nclient, conn, cl, request, exited>>

\* The lock is taken and there is a request.
WPop(w) ==
  /\ WAt(w, "lock")
  /\ LockFree
  /\ qhead # NULL
  /\ Pop
  /\ Become(w, [wk[w] EXCEPT !.pc = "serve", !.req = qlast])
  /\ UNCHANGED <<pipe_fd, nclient, conn, cl, request, exited>>

\* The lock is taken and there is none.
WTestInt(w) ==
  /\ LockFree
  /\ qhead = NULL
  /\ WGoto(w, "lock", IF sigINT_sigQUIT THEN "done" ELSE "testClients")

WTestClients(w) == WGoto(w, "testClients", IF nclient = 0 THEN "testHup" ELSE "sleep")

WTestHup(w) == WGoto(w, "testHup", IF sigHUP THEN "done" ELSE "sleep")

\* pthread_cond_wait: the lock is given back.
WSleep(w) == WGoto(w, "sleep", "waiting")

\* The answer cannot be written to a dead client: SIGPIPE.
WAnswerDead(w) == WAt(w, "serve") /\ cl[wk[w].req] = "gone" /\ Exit

\* The answer to a message, after which the client is at state and the
\* request of no use (util_server.c:404 frees it).
Reply(w, message, state, pc) ==
  LET c == wk[w].req IN
  /\ WAt(w, "serve")
  /\ request[c] = message
  /\ cl[c] # "gone"
  /\ cl' = [cl EXCEPT ![c] = state]
  /\ request' = [request EXCEPT ![c] = "none"]
  /\ Become(w, [wk[w] EXCEPT !.pc = pc])
  /\ UNCHANGED <<queue, pipe_fd, nclient, conn, exited>>

WAnswer(w) == \E m \in {"op", "append"} : Reply(w, m, "idle", "repipe")

WCloseConnection(w) == Reply(w, "close", "away", "decRead")

\* Faulty variant: the client is never listened to again.
WForget(w) ==
  /\ WAt(w, "repipe")
  /\ Become(w, [wk[w] EXCEPT !.pc = "lock", !.req = NULL])
  /\ UNCHANGED <<queue, pipe_fd, nclient, conn, cl, request, exited>>

WReactivate(w) ==
  /\ WAt(w, "repipe")
  /\ pipe_fd' = Append(pipe_fd, wk[w].req)
  /\ Become(w, [wk[w] EXCEPT !.pc = "lock", !.req = NULL])
  /\ UNCHANGED <<queue, nclient, conn, cl, request, exited>>

\* nclient -= 1, a read and a write; then close(fd_client_id).
WDecRead(w) ==
  /\ WAt(w, "decRead")
  /\ Become(w, [wk[w] EXCEPT !.pc = "decWrite", !.reg = nclient])
  /\ UNCHANGED <<queue, pipe_fd, nclient, conn, cl, request, exited>>

CloseFd(w) ==
  /\ WAt(w, "decWrite")
  /\ conn' = [conn EXCEPT ![wk[w].req] = "none"]
  /\ Become(w, [pc |-> "lock", req |-> NULL, reg |-> 0])
  /\ UNCHANGED <<queue, pipe_fd, cl, request, exited>>

\* Faulty variant: the client is not counted out.
WDecForgotten(w) == CloseFd(w) /\ UNCHANGED nclient

WDecWrite(w) == CloseFd(w) /\ nclient' = wk[w].reg - 1

WorkerStep(w) ==
  /\ ~exited
  /\ UNCHANGED <<mgr, set, sigHUP, sigINT_sigQUIT, signal, inbox, connections>>
  /\ \/ WPop(w) \/ WTestInt(w) \/ WTestClients(w) \/ WTestHup(w) \/ WSleep(w)
     \/ WAnswerDead(w) \/ WAnswer(w) \/ WReactivate(w)
     \/ WCloseConnection(w) \/ WDecRead(w) \/ WDecWrite(w)

(***************************************************************************)
(* The clients and the signals.                                            *)
(***************************************************************************)
\* openConnection: the kernel completes it; the manager will accept it.
OpenConnection(c) ==
  /\ cl[c] = "away" /\ conn[c] = "none"
  /\ connections < MaxConnections
  /\ connections' = connections + 1
  /\ cl' = [cl EXCEPT ![c] = "idle"]
  /\ conn' = [conn EXCEPT ![c] = "backlog"]
  /\ UNCHANGED <<signal, inbox, request>>

Send(c, message, state) ==
  /\ cl[c] = "idle"
  /\ cl' = [cl EXCEPT ![c] = state]
  /\ inbox' = [inbox EXCEPT ![c] = message]
  /\ UNCHANGED <<signal, conn, connections, request>>

\* openFile, readFile, readNFiles, closeFile; appendToFile.
Ask(c) == \E m \in {"op", "append"} : Send(c, m, "asking")

CloseConnection(c) == Send(c, "close", "leaving")

\* The client process ends without closeConnection.
Vanish(c) ==
  /\ c \in Abrupt
  /\ cl[c] \in {"idle", "asking", "leaving"}
  /\ cl' = [cl EXCEPT ![c] = "gone"]
  /\ UNCHANGED <<signal, conn, inbox, connections, request>>

\* threadSignal: the first signal ends the thread that waits for them.
ThreadSignal ==
  /\ signal = "none"
  /\ signal' \in Signals
  /\ UNCHANGED clients

Up == ~exited /\ ~MAt("closed") /\ UNCHANGED <<server, exited>>

Depart(c) == Up /\ CloseConnection(c)

Next ==
  \/ Manager
  \/ \E w \in Worker : WorkerStep(w)
  \/ \E c \in Client : Depart(c)
  \/ \E c \in Client : Up /\ (OpenConnection(c) \/ Ask(c) \/ Vanish(c))
  \/ Up /\ ThreadSignal

\* A worker that serves an appendToFile may stay in UpdateFile: its eviction
\* cycle does not always end (EvictionCycleEnds in StorageProperties).
InUpdateFile(w) == WAt(w, "serve") /\ request[wk[w].req] = "append"

(***************************************************************************)
(* The threads of the server are scheduled, and every request but an       *)
(* appendToFile ends.  The mutexes are fair: a worker that stays in        *)
(* UpdateFile gives storage->lock back in every round.  A client makes     *)
(* finitely many requests (client.c iterates over its command line) and    *)
(* then leaves.                                                            *)
(***************************************************************************)
Fairness ==
  /\ WF_vars(Manager)
  /\ \A w \in Worker : WF_vars(~InUpdateFile(w) /\ WorkerStep(w))
  /\ \A c \in Client : SF_vars(Depart(c))

Spec == Init /\ [][Next]_vars /\ Fairness
==============================================================================
