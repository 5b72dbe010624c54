---------------------------- MODULE ClientSession ----------------------------
(***************************************************************************)
(* The client program (client.c and includes/util_client.c): a user's      *)
(* command line is a list of tasks, and the client turns each into calls   *)
(* of the API, one at a time, against the table of files of FileTable.     *)
(*   -W f1,f2    create or open, append, close, for every file             *)
(*   -w d,n=N    the same for up to N files found in a directory tree      *)
(*   -r f1,f2    open, read, close, for every file                         *)
(*   -R n=N      readNFiles                                                *)
(* and finally closeConnection.                                            *)
(*                                                                         *)
(* The server knows a user by the descriptor accept returned, the lowest   *)
(* one free: it passes to a later user when the connection is closed.      *)
(* What the user has stored or left open under it does too.                *)
(***************************************************************************)
EXTENDS Integers, FiniteSets, SequencesExt

CONSTANTS
  FileId, Client, Path, Matches, MEM_SIZE, Size, NULL, NoClient  \* see FileTable

CONSTANTS
  User,      \* the runs of the client program
  Commands,  \* the command lines they may have: sequences of tasks
  Length,    \* Length[p]: the length of the file p on the user's side
  Tree,      \* Tree[d]: what readdir lists in directory d, in its order
  Dotted     \* the directories whose name ends in a dot

\* A task is an option and its argument.  An argument in which strtok_r
\* finds no number makes the client pass NULL to strtol (client.c:170 and
\* 285): its kind is "bad".
Kinds == {"W", "w", "r", "R", "bad"}

Entries == Path \cup DOMAIN Tree

Tasks == [kind : Kinds, paths : Seq(Path), dir : DOMAIN Tree, n : Int]

ASSUME SessionAssumption ==
  /\ Client \subseteq Nat /\ NoClient \notin Client
  /\ Commands \subseteq Seq(Tasks)
  /\ Length \in [Path -> Size]
  /\ Tree \in [DOMAIN Tree -> Seq(Entries)]
  /\ Dotted \subseteq DOMAIN Tree
  /\ Path \cap DOMAIN Tree = {}

\* Directories form a tree: none is below itself, but through "." and "..".
\* A link that leads back (stat follows links) is not in the model.
ASSUME TreeAssumption ==
  /\ IsFiniteSet(DOMAIN Tree)
  /\ \E height \in [DOMAIN Tree -> 0 .. Cardinality(DOMAIN Tree)] :
       \A d \in DOMAIN Tree : \A i \in DOMAIN Tree[d] :
         Tree[d][i] \in DOMAIN Tree \ Dotted => height[Tree[d][i]] < height[d]

VARIABLES
  files,      \* the files stored, and the requests under way: see FileTable
  asks

Table == INSTANCE FileTable

VARIABLES
  user,       \* user[u]: how far the run u of the client program is
  connected,  \* the descriptors of the server's connections
  failures    \* failures[d]: appends and closes that failed on descriptor d

sessions == <<user, connected, failures>>

(***************************************************************************)
(* The local state of a client.  pc is the call it is to make, or where    *)
(* its loops are:                                                          *)
(*   away, backlog     not started; connected and not accepted yet         *)
(*   dispatch          the loop over the options                           *)
(*   next              the loop over the files of -W or -r                 *)
(*   walk              the loops over the entries of directories           *)
(*   create, openW, append, closeW      the calls of openAppendClose       *)
(*   openR, read, closeR, readN         the calls of -r and -R             *)
(*   bye, byeEarly     closeConnection, at the end and after a closeFile   *)
(*                     of -r that failed                                   *)
(*   ended, exited     main has returned; exit or a signal has ended it    *)
(***************************************************************************)
Calls == {"create", "openW", "append", "closeW", "openR", "read", "closeR", "readN",
          "bye", "byeEarly"}

Away == [pc     |-> "away",
         sent   |-> FALSE,     \* the call has been sent
         fd     |-> NoClient,  \* fd_c, by the number the server has for it
         task   |-> NULL,      \* the present option
         tasks  |-> <<>>,      \* the options after it
         left   |-> <<>>,      \* files of -W or -r still to come
         frames |-> <<>>,      \* entries still to come, of every open directory
         n      |-> 0,         \* *nfiles
         path   |-> NULL,
         tried  |-> <<>>,      \* files the present -w has attempted
         lost   |-> FALSE,     \* the server has ended since
         fooled |-> {}]        \* calls whose lost answer was taken for a 0

SessionInit ==
  /\ user = [u \in User |-> Away]
  /\ connected = {}
  /\ failures = [d \in Client |-> 0]

Is(u, pc) == user[u].pc = pc

Become(u, r) == user' = [user EXCEPT ![u] = r]

\* Only what is asked about a session that is over is kept.
Over(r, pc) == [Away EXCEPT !.pc = pc, !.fd = r.fd, !.fooled = r.fooled]

(***************************************************************************)
(* The loops.                                                              *)
(***************************************************************************)
Started(r, k) ==
  CASE k.kind = "W"   -> [r EXCEPT !.pc = "next", !.left = k.paths]
    [] k.kind = "r"   -> [r EXCEPT !.pc = "next", !.left = k.paths]
    [] k.kind = "w"   -> [r EXCEPT !.pc = "walk", !.frames = <<Tree[k.dir]>>,
                                   !.n = k.n, !.tried = <<>>]
    [] k.kind = "R"   -> [r EXCEPT !.pc = "readN"]
    [] k.kind = "bad" -> Over(r, "exited")

Dispatch(u) ==
  LET r == user[u] IN
  /\ Is(u, "dispatch")
  /\ \/ /\ r.tasks = <<>>
        /\ Become(u, [r EXCEPT !.pc = "bye", !.task = NULL])
     \/ /\ r.tasks # <<>>
        /\ Become(u, Started([r EXCEPT !.task = Head(r.tasks), !.tasks = Tail(@)],
                             Head(r.tasks)))
  /\ UNCHANGED <<files, asks, connected, failures>>

NextFile(u) ==
  LET r == user[u] IN
  /\ Is(u, "next")
  /\ \/ /\ r.left = <<>>
        /\ Become(u, [r EXCEPT !.pc = "dispatch"])
     \/ /\ r.left # <<>>
        /\ Become(u, [r EXCEPT !.pc = IF r.task.kind = "W" THEN "create" ELSE "openR",
                               !.path = Head(r.left), !.left = Tail(@)])
  /\ UNCHANGED <<files, asks, connected, failures>>

\* totfile: no limit was asked for.
All(r) == r.task.n < 1

Pop(r) == [r EXCEPT !.frames = Front(@)]
Enter(r, dir) == [r EXCEPT !.frames = Append(@, Tree[dir])]

\* The rest of the directory on top, after its next entry.
Past(r) == [r EXCEPT !.frames = Append(Front(@), Tail(Last(@)))]

Attempt(r, p) == [r EXCEPT !.pc = "create", !.path = p, !.n = IF All(r) THEN @ ELSE @ - 1,
                           !.tried = Append(@, p)]

\* Faulty variant: nfiles is passed by value, a directory that is left has
\* counted for itself only.
WalkByValue(u) ==
  LET r == user[u] IN
  /\ Is(u, "walk")
  /\ Become(u,
       IF r.frames = <<>> THEN [r EXCEPT !.pc = "dispatch"]
       ELSE IF Last(r.frames) = <<>> \/ (r.n < 1 /\ ~All(r))
            THEN [Pop(r) EXCEPT !.n = r.task.n]
       ELSE LET e == Head(Last(r.frames)) IN
            CASE e \in Dotted  -> Past(r)
              [] e \in Path    -> Attempt(Past(r), e)
              [] OTHER         -> Enter(Past(r), e))
  /\ UNCHANGED <<files, asks, connected, failures>>

\* recDirectory, a frame for every call of it: a directory that is read to
\* its end, or found when the limit has been reached, is left.
Walk(u) ==
  LET r == user[u] IN
  /\ Is(u, "walk")
  /\ \/ /\ r.frames = <<>>
        /\ Become(u, [r EXCEPT !.pc = "dispatch"])
     \/ /\ r.frames # <<>>
        /\ Last(r.frames) = <<>> \/ (r.n < 1 /\ ~All(r))
        /\ Become(u, Pop(r))
     \/ /\ r.frames # <<>>
        /\ Last(r.frames) # <<>> /\ (r.n >= 1 \/ All(r))
        /\ LET e == Head(Last(r.frames)) IN
           Become(u, CASE e \in Dotted -> Past(r)
                       [] e \in Path   -> Attempt(Past(r), e)
                       [] OTHER        -> Enter(Past(r), e))
  /\ UNCHANGED <<files, asks, connected, failures>>

(***************************************************************************)
(* The calls: a request is sent and its answer waited for.                 *)
(***************************************************************************)
OpOf(pc) ==
  CASE pc = "create"                -> "create"
    [] pc \in {"openW", "openR"}    -> "open"
    [] pc = "append"                -> "append"
    [] pc \in {"closeW", "closeR"}  -> "close"
    [] OTHER                        -> pc

\* Faulty variant: nobody looks at what write returns, or at SIGPIPE.
SendUnchecked(u) ==
  LET r == user[u] IN
  /\ r.pc \in Calls /\ ~r.sent
  /\ Become(u, [r EXCEPT !.sent = TRUE])
  /\ IF r.pc \in {"bye", "byeEarly"} \/ r.fd = NoClient THEN UNCHANGED <<files, asks>>
     ELSE Table!Ask(r.fd, OpOf(r.pc), IF r.pc = "readN" THEN NULL ELSE r.path,
                    IF r.pc = "append" THEN Length[r.path] ELSE 0)
  /\ UNCHANGED <<connected, failures>>

\* Writing to a descriptor that has been closed, or to a server that is
\* gone, ends the client.
Send(u) ==
  LET r == user[u] IN
  /\ r.pc \in Calls /\ ~r.sent
  /\ \/ /\ r.fd = NoClient
        /\ Become(u, Over(r, "exited"))
        /\ UNCHANGED <<files, asks>>
     \/ /\ r.fd # NoClient
        /\ Become(u, [r EXCEPT !.sent = TRUE])
        /\ IF r.pc \in {"bye", "byeEarly"} THEN UNCHANGED <<files, asks>>
           ELSE Table!Ask(r.fd, OpOf(r.pc), IF r.pc = "readN" THEN NULL ELSE r.path,
                          IF r.pc = "append" THEN Length[r.path] ELSE 0)
  /\ UNCHANGED <<connected, failures>>

\* Where openAppendClose returns to.
Back(r) == IF r.task.kind = "w" THEN "walk" ELSE "next"

\* Faulty variant: a file is not closed after its content was sent.
AfterUnclosed(r, ok) ==
  CASE r.pc = "create"   -> IF ok THEN "append" ELSE "openW"
    [] r.pc = "openW"    -> IF ok THEN "append" ELSE Back(r)
    [] r.pc = "append"   -> Back(r)
    [] r.pc = "openR"    -> IF ok THEN "read" ELSE "next"
    [] r.pc = "read"     -> "closeR"
    [] r.pc = "closeR"   -> IF ok THEN "next" ELSE "byeEarly"
    [] r.pc = "readN"    -> "dispatch"
    [] r.pc = "byeEarly" -> "next"
    [] r.pc = "bye"      -> "ended"

\* Faulty variant: a file that cannot be opened is asked for again.
AfterRetrying(r, ok) ==
  CASE r.pc = "create"   -> IF ok THEN "append" ELSE "openW"
    [] r.pc = "openW"    -> IF ok THEN "append" ELSE "openW"
    [] r.pc = "append"   -> IF ok THEN "closeW" ELSE Back(r)
    [] r.pc = "closeW"   -> Back(r)
    [] r.pc = "openR"    -> IF ok THEN "read" ELSE "next"
    [] r.pc = "read"     -> "closeR"
    [] r.pc = "closeR"   -> IF ok THEN "next" ELSE "byeEarly"
    [] r.pc = "readN"    -> "dispatch"
    [] r.pc = "byeEarly" -> "next"
    [] r.pc = "bye"      -> "ended"

\* What the client does next, by the result of its call: openAppendClose
\* gives up at the first failure, and leaves the file open if it was the
\* append; -r closes the file whether it could be read or not, and leaves
\* the server when it cannot close it, but goes on with its files.
After(r, ok) ==
  CASE r.pc = "create"   -> IF ok THEN "append" ELSE "openW"
    [] r.pc = "openW"    -> IF ok THEN "append" ELSE Back(r)
    [] r.pc = "append"   -> IF ok THEN "closeW" ELSE Back(r)
    [] r.pc = "closeW"   -> Back(r)
    [] r.pc = "openR"    -> IF ok THEN "read" ELSE "next"
    [] r.pc = "read"     -> "closeR"
    [] r.pc = "closeR"   -> IF ok THEN "next" ELSE "byeEarly"
    [] r.pc = "readN"    -> "dispatch"
    [] r.pc = "byeEarly" -> "next"
    [] r.pc = "bye"      -> "ended"

GoOn(r, ok) == [r EXCEPT !.pc = After(r, ok), !.sent = FALSE]

Leaks(r, ok) == ~ok /\ r.pc \in {"append", "closeW", "closeR"}

Receive(u) ==
  LET r  == user[u]
      ok == asks[r.fd].state = "ok"
  IN
  /\ r.sent /\ ~r.lost
  /\ r.pc \notin {"bye", "byeEarly"}
  /\ Table!Return(r.fd)
  /\ Become(u, GoOn(r, ok))
  /\ failures' = IF Leaks(r, ok) THEN [failures EXCEPT ![r.fd] = @ + 1] ELSE failures
  /\ UNCHANGED connected

\* closeConnection is answered: whatever the server thinks of the name of
\* the socket it is sent, both sides close.  It takes a worker, and is a step
\* of its own (Deployment).
Hangup(u) ==
  LET r == [user[u] EXCEPT !.fd = NoClient] IN
  /\ user[u].sent /\ ~user[u].lost
  /\ user[u].pc \in {"bye", "byeEarly"}
  /\ Become(u, IF r.pc = "bye" THEN Over(r, "ended") ELSE GoOn(r, TRUE))
  /\ UNCHANGED <<files, asks, connected, failures>>

\* The server ends while the client waits.  If it had not read the request
\* the read fails, which ends the client.  If it had, the read is at end of
\* file: readn returns 0, which recievedMsg takes for an empty message.
\* That is a 0 to openFile, closeFile and closeConnection (strtol of an
\* empty string), and a null pointer to the others.
Fooling == {"create", "openW", "openR", "closeW", "closeR", "bye", "byeEarly"}

LoseAnswer(u) ==
  LET r == user[u] IN
  /\ r.sent /\ r.lost
  /\ \/ Become(u, Over(r, "exited"))
     \/ /\ r.pc \in Fooling
        /\ LET s == [r EXCEPT !.fooled = @ \cup {r.pc}] IN
           Become(u, IF s.pc = "bye" THEN Over(s, "ended")
                     ELSE GoOn(s, TRUE))
  /\ UNCHANGED <<files, asks, connected, failures>>

ClientStep(u) ==
  \/ Dispatch(u) \/ NextFile(u) \/ Walk(u)
  \/ Send(u) \/ Receive(u) \/ LoseAnswer(u)
==============================================================================
