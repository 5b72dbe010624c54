------------------------- MODULE DeploymentProperties -------------------------
(***************************************************************************)
(* What users and operators of the system can rely on, and what they had   *)
(* better know.                                                            *)
(***************************************************************************)
EXTENDS Deployment

SessionTypeOK ==
  /\ connected \subseteq Client
  /\ failures \in [Client -> Nat]
  /\ taken \subseteq Client
  /\ \A u \in User :
       /\ user[u].pc \in Calls \cup {"away", "backlog", "dispatch", "next", "walk",
                                     "ended", "exited"}
       /\ user[u].fd \in connected \cup {NoClient}
       /\ user[u].sent => user[u].pc \in Calls
       /\ user[u].fooled \subseteq Fooling

\* A user of descriptor d who is between its open and its close of a file.
MidFile(u, d) ==
  /\ user[u].fd = d
  /\ \/ user[u].pc \in {"append", "closeW", "read", "closeR"}
     \/ user[u].pc \in {"create", "openW", "openR"} /\ user[u].sent

Owned(d) == {f \in DOMAIN files : files[f].owner = d}

\* closeConnection closes no files (util_server.c:144-163), so what a user
\* leaves open passes to whoever gets the descriptor.  But sessions leave
\* files open only by an append or a close that failed, one by each failure,
\* counted over all the users the descriptor has had; between two sessions
\* nothing else is open, whatever the users do to each other's files.
LeftOpenByFailures ==
  \A d \in Client :
    Cardinality(Owned(d)) <= failures[d] + Cardinality({u \in User : MidFile(u, d)})

\* The files below a directory in the order of recDirectory, without those
\* in directories whose name ends in a dot.
Below[entries \in Seq(Entries)] ==
  IF entries = <<>> THEN <<>>
  ELSE LET e == Head(entries)
           first == CASE e \in Dotted -> <<>>
                      [] e \in Path   -> <<e>>
                      [] OTHER        -> Below[Tree[e]]
       IN first \o Below[Tail(entries)]

\* -w attempts the first N files of the tree, all if N is 0, each once and
\* in order, whatever fails on the way and however deep they are.
WalkIsExact ==
  \A u \in User : Is(u, "walk") /\ user[u].frames = <<>> =>
    LET found == Below[Tree[user[u].task.dir]]
        n     == user[u].task.n
    IN user[u].tried = IF n < 1 \/ n > Len(found) THEN found ELSE SubSeq(found, 1, n)

\* An end of file is taken for the answer 0 (conn.c:23, util.c:147).  A
\* client does not come to its end on such an answer unless it was the
\* answer to its last call: any later one finds the connection gone.
FooledOnlyAtTheEnd ==
  \A u \in User : Is(u, "ended") => user[u].fooled \subseteq {"bye"}

\* Nothing removes the socket file, and bind fails if there is one: of all
\* the servers started with a configuration file, one at most ever listens.
ListensOnlyOnce == bound <= 1

Busy(u) == user[u].pc \notin {"away", "ended", "exited"}

\* Every user who has connected comes to an end.  There are three ways to
\* wait for ever: for the answer to one's own appendToFile, for a worker
\* when as many appends as there are workers do not end (file_storage.c:
\* 218-231), or for a server that a signal has stopped and that cannot join
\* its workers (server.c:219-222).
SessionsEnd ==
  \A u \in User :
    \/ []<>~Busy(u)
    \/ <>[](Is(u, "append") /\ user[u].sent)
    \/ <>[](server = "listening" /\ Cardinality(Appending) >= cfg.N_THREAD)
    \/ <>[](server = "stopping")
==============================================================================
