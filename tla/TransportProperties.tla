-------------------------- MODULE TransportProperties --------------------------
(***************************************************************************)
(* What the two ends of a socket can rely on.                              *)
(***************************************************************************)
EXTENDS Transport

TransportTypeOK ==
  /\ \A c \in Client : /\ cl[c].pc \in {"idle", "write", "read", "gone"}
                       /\ Len(up[c]) \in 0 .. Capacity /\ Len(down[c]) \in 0 .. Capacity
                       /\ Len(cl[c].in.got) <= cl[c].in.size
  /\ mgr.fd \in Client \cup {NULL}
  /\ Len(mgr.in.got) <= mgr.in.size
  /\ listened \subseteq Client /\ back \subseteq Client \ listened
  /\ Len(requests) <= Cardinality(Client)
  /\ lock \in Worker \cup {NULL}

\* The manager looks at nobody else while it reads a request (server.c:179
\* and 203), and a thread that sends a file, or refuses a readFile that has
\* waited too long, keeps the storage to itself (util_server.c:250 and 278).
\* The two wait only for clients that are about to write what is missing,
\* or to read what is in the way: of the lengths in the headers and texts
\* none is too long, and nobody waits for ever on a client that waits.
BlockedByTheBusyOnly ==
  ~ended =>
    /\ mgr.fd # NULL /\ Alive(mgr.fd) /\ up[mgr.fd] = <<>> => cl[mgr.fd].pc = "write"
    /\ \A w \in Worker : wk[w].pc = "write" /\ Alive(wk[w].fd) => cl[wk[w].fd].pc = "read"
    /\ lock # NULL => wk[lock].pc = "write"

\* A client starts a request on empty sockets: its last answer was read to
\* the last unit.  A unit left over would be read as the header of the next
\* answer.
NothingLeftOver ==
  \A c \in Client :
    cl[c].pc = "idle" /\ ~ended =>
                         /\ up[c] = <<>>
                         /\ down[c] = <<>>
                         /\ \A i \in 1 .. Len(requests) : requests[i].fd # c

(***************************************************************************)
(* The sockets as a mailbox.                                               *)
(***************************************************************************)
\* What the server has in hand of c's request, if it has been taken.
InHand(c) ==
  {requests[i].msg : i \in {j \in 1 .. Len(requests) : requests[j].fd = c}}
  \cup {wk[w].msg : w \in {x \in Worker : wk[x].fd = c /\ wk[x].pc \in {"serve", "last", "write"}}}

Answered(c) == told[c] # <<>> /\ LastFrame(cl[c].msg, Last(told[c]))

AbstractAsk(c) ==
  IF cl[c].pc \in {"idle", "gone"} THEN [state |-> "idle", msg |-> <<>>]
  ELSE [state |-> IF ended THEN "lost"
                  ELSE IF Answered(c) \/ InHand(c) # {} THEN "taken" ELSE "posted",
        msg   |-> IF InHand(c) = {} THEN cl[c].msg ELSE CHOOSE m \in InHand(c) : TRUE]

IfAlive(seqs) == [c \in Client |-> IF Alive(c) THEN seqs[c] ELSE <<>>]

Box == INSTANCE Mailbox WITH
  Last  <- LastFrame,
  ask   <- [c \in Client |-> AbstractAsk(c)],
  told  <- IfAlive(told),
  heard <- IfAlive(heard),
  gone  <- {c \in Client : ~Alive(c)}

\* However reads and writes are cut, a request is taken as it was posted,
\* and the frames of its answer are heard as they were told.  Only the dead
\* are an exception: the rest of a request whose client has died, and of an
\* answer whose server has, is zeros.
ImplementsMailbox == Box!BoxSpec

\* Every request comes to its answer, unless its client or the server dies,
\* if all clients that are alive go on writing and reading; but an append
\* may keep its client waiting for ever, and as many appends as there are
\* workers all clients.
EveryoneIsAnswered ==
  \A c \in Client :
    \/ cl[c].pc \in {"write", "read"} ~> cl[c].pc \in {"idle", "gone"}
    \/ <>[]\E w \in Worker : InUpdateFile(w) /\ wk[w].fd = c
    \/ <>[]\A w \in Worker : InUpdateFile(w) \/ wk[w].pc = "none"
==============================================================================
