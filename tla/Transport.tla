------------------------------- MODULE Transport -------------------------------
(***************************************************************************)
(* How requests and answers cross the sockets: readn and writen of conn.c, *)
(* which go on until all is read or written, the messages of util.c, the   *)
(* manager, which reads a request to its end before it looks at anybody    *)
(* else, and the workers, which write the content of a file, and the       *)
(* refusal of a readFile that has waited too long, while they hold the     *)
(* lock of the storage.  closeConnection is not here: see RequestServer.   *)
(*                                                                         *)
(* A unit of a stream is a number: a length, a field of a text, or a piece *)
(* of a content.  0 is what calloc leaves where nothing was read.          *)
(***************************************************************************)
EXTENDS Integers, FiniteSets, SequencesExt

CONSTANTS
  Client, Worker,
  Pools,      \* the sets of workers the server may have
  Mortal,     \* the clients that may die
  Message,    \* the requests: a text of the api's number and the fields, a content
  Files,      \* the frames a file may be sent in
  MaxFiles,   \* bound: the files one readNFiles sends
  MaxAsks,    \* bound: the requests of all clients
  Capacity,   \* how many units a socket holds in one direction
  HEADER,     \* sizeof(size_t), in units
  NULL

READ == 3
READN == 4
APPEND == 5

\* The first fields of an answer: "0", "-1", and "1" before a file.
OK == 7
KO == 8
FILE == 9

Plain(t) == [text |-> <<t>>, content |-> <<>>]
Frame == Files \cup {Plain(OK), Plain(KO)}

ASSUME TransportAssumption ==
  /\ IsFiniteSet(Client) /\ IsFiniteSet(Worker)
  /\ Mortal \subseteq Client
  /\ Pools \subseteq (SUBSET Worker) \ {{}}
  /\ HEADER \in Nat \ {0} /\ Capacity \in Nat \ {0} /\ MaxFiles \in Nat /\ MaxAsks \in Nat
  /\ NULL \notin Client \cup Worker \cup Int
  /\ \A m \in Message \cup Files : /\ m \in [text : Seq(Int), content : Seq(Int)]
                                  /\ m.text # <<>>
  /\ \A m \in Message : /\ m.text[1] = APPEND => Len(m.content) = m.text[3]
                        /\ m.text[1] # APPEND => m.content = <<>>
  /\ \A f \in Files : f.text[1] = FILE /\ f.text[3] = Len(f.content)

VARIABLES
  cl,         \* the clients: statement, request, what is left to write, reader
  up, down,   \* the units in each socket
  listened,   \* the clients in the manager's set
  back,       \* the clients on their way back to it
  mgr,        \* the client the manager reads from, and its reader
  requests,   \* the queue
  wk,         \* the workers: statement, request, frame and what is left of it
  lock,       \* the worker that holds storage->lock
  told,       \* the frames a client's request was answered with
  heard,      \* and those the client took
  ended,      \* the server process is gone
  asked       \* how many requests were made

vars == <<cl, up, down, listened, back, mgr, requests, wk, lock, told, heard, ended,
          asked>>

(***************************************************************************)
(* Messages.                                                               *)
(***************************************************************************)
\* Faulty variant: the length of the content is counted in.
WireTooLong(m) ==
  <<Len(m.text) + Len(m.content)>> \o [i \in 1 .. HEADER - 1 |-> 0] \o m.text \o m.content

\* sendMsg and sendMsg_File_Content.
Wire(m) == <<Len(m.text)>> \o [i \in 1 .. HEADER - 1 |-> 0] \o m.text \o m.content

\* A reader: the call of readn it is in, with what it has read of it so
\* far, and the message it has got.
Nothing == [text |-> <<>>, content |-> <<>>]
Fresh == [stage |-> "header", size |-> HEADER, got |-> <<>>, msg |-> Nothing]

\* The buffer of a readn that has filled a part of it.
Buffer(r) == [i \in 1 .. r.size |-> IF i <= Len(r.got) THEN r.got[i] ELSE 0]

\* The call of readn after a full one: a content follows a text that starts
\* with head (1 in util.c:110, 5 in server.c:197).
Advance(r, head) ==
  CASE r.stage = "header" ->
         [r EXCEPT !.stage = "text", !.size = r.got[1], !.got = <<>>]
    [] r.stage = "text" /\ r.got[1] = head ->
         [r EXCEPT !.stage = "content", !.size = r.got[3], !.got = <<>>, !.msg.text = r.got]
    [] r.stage = "text" /\ r.got[1] # head ->
         [r EXCEPT !.stage = "done", !.msg.text = r.got]
    [] OTHER ->
         [r EXCEPT !.stage = "done", !.msg.content = r.got]

Settle(r, head) == IF r.stage # "done" /\ Len(r.got) = r.size THEN Advance(r, head) ELSE r

\* Faulty variant: one read is taken for all of it.
ReadsOnce(r, units, head) ==
  Settle([r EXCEPT !.got = Buffer([r EXCEPT !.got = @ \o units])], head)

\* One read.  Settled twice, as an empty content needs none.
Reads(r, units, head) ==
  LET s == Settle([r EXCEPT !.got = @ \o units], head)
  IN IF s.size = 0 THEN Settle(s, head) ELSE s

\* At end of file readn returns 0, this time and every other, which is not
\* an error: what was not read stays 0, and a text ends where it was cut.
ReadsEnd(r) ==
  CASE r.stage = "header"  -> Nothing
    [] r.stage = "text"    -> [Nothing EXCEPT !.text = r.got]
    [] r.stage = "content" -> [r.msg EXCEPT !.content = Buffer(r)]

\* The sizes one read or write may have.
Parts(n) == 1 .. n

Room(socket) == Capacity - Len(socket)
Take(s, n) == SubSeq(s, 1, n)
Drop(s, n) == SubSeq(s, n + 1, Len(s))

(***************************************************************************)
(* Clients: a call of API.c.                                               *)
(***************************************************************************)
Alive(c) == cl[c].pc # "gone"

NewClient == [pc |-> "idle", msg |-> Nothing, out |-> <<>>, in |-> Fresh]

Unread == [fd |-> NULL, in |-> Fresh]
Free == [pc |-> "idle", fd |-> NULL, msg |-> Nothing, frame |-> Nothing, out |-> <<>>]
NotCreated == [Free EXCEPT !.pc = "none"]

Init ==
  /\ cl = [c \in Client |-> NewClient]
  /\ up = [c \in Client |-> <<>>]
  /\ down = [c \in Client |-> <<>>]
  /\ listened = Client
  /\ back = {}
  /\ mgr = Unread
  /\ requests = <<>>
  /\ \E pool \in Pools : wk = [w \in Worker |-> IF w \in pool THEN Free ELSE NotCreated]
  /\ lock = NULL
  /\ told = [c \in Client |-> <<>>]
  /\ heard = [c \in Client |-> <<>>]
  /\ ended = FALSE
  /\ asked = 0

SRV == <<listened, back, mgr, requests, wk, lock, ended>>

Ask(c, m) ==
  /\ cl[c].pc = "idle" /\ asked < MaxAsks
  /\ asked' = asked + 1
  /\ cl' = [cl EXCEPT ![c] = [pc |-> "write", msg |-> m, out |-> Wire(m), in |-> Fresh]]
  /\ told' = [told EXCEPT ![c] = <<>>]
  /\ heard' = [heard EXCEPT ![c] = <<>>]
  /\ UNCHANGED <<up, down, SRV>>

\* One write; a client that writes to a server that is gone dies of it.
Put(c) ==
  /\ cl[c].pc = "write"
  /\ \/ /\ ~ended
        /\ \E n \in Parts(Min({Room(up[c]), Len(cl[c].out)})) :
             /\ up' = [up EXCEPT ![c] = @ \o Take(cl[c].out, n)]
             /\ cl' = [cl EXCEPT ![c].out = Drop(@, n),
                                 ![c].pc = IF n = Len(cl[c].out) THEN "read" ELSE @]
     \/ /\ ended
        /\ cl' = [cl EXCEPT ![c].pc = "gone"]
        /\ up' = up
  /\ UNCHANGED <<down, told, heard, asked, SRV>>

\* Faulty variant: readFile reads the text only.
AskedFileOfMany(c) == IF cl[c].msg.text[1] = READN THEN FILE ELSE NULL

\* The files of readFile and readNFiles come with their content.
AskedFile(c) == IF cl[c].msg.text[1] \in {READ, READN} THEN FILE ELSE NULL

\* readNFiles reads on until it has heard that there are no more files.
LastFrame(m, f) == m.text[1] = READN => f.text[1] # FILE

\* A frame has been received.
Hear(c, f) ==
  /\ heard' = [heard EXCEPT ![c] = Append(@, f)]
  /\ cl' = [cl EXCEPT ![c] = IF LastFrame(cl[c].msg, f) THEN NewClient
                             ELSE [@ EXCEPT !.in = Fresh]]

Get(c) ==
  /\ cl[c].pc = "read"
  /\ \E n \in Parts(Min({Len(down[c]), cl[c].in.size - Len(cl[c].in.got)})) :
       LET r == Reads(cl[c].in, Take(down[c], n), AskedFile(c)) IN
       /\ down' = [down EXCEPT ![c] = Drop(@, n)]
       /\ IF r.stage = "done" THEN Hear(c, r.msg)
          ELSE /\ cl' = [cl EXCEPT ![c].in = r]
               /\ heard' = heard
  /\ UNCHANGED <<up, told, asked, SRV>>

\* The server is gone, and all it had written has been read.  Where a field
\* is looked for that is not there, the client dies; it may die, too, of a
\* reset if the server left something unread; otherwise it has got an answer.
GetEnd(c) ==
  /\ cl[c].pc = "read"
  /\ ended /\ down[c] = <<>>
  /\ LET f == ReadsEnd(cl[c].in) IN
     \/ /\ cl' = [cl EXCEPT ![c].pc = "gone"]
        /\ heard' = heard
     \/ /\ AskedFile(c) = FILE => cl[c].in.stage = "content"
        /\ Hear(c, f)
  /\ UNCHANGED <<up, down, told, asked, SRV>>

\* A client may die at any time; what it has written can still be read.
Die(c) ==
  /\ c \in Mortal /\ Alive(c)
  /\ cl' = [cl EXCEPT ![c] = [NewClient EXCEPT !.pc = "gone"]]
  /\ UNCHANGED <<up, down, told, heard, asked, SRV>>

(***************************************************************************)
(* The manager (server.c:174-211).                                         *)
(***************************************************************************)
CLI == <<cl, down, heard, asked>>

\* Faulty variant: the descriptor stays in the set.
SelectKeeps(c) ==
  /\ ~ended /\ mgr.fd = NULL
  /\ c \in listened
  /\ up[c] # <<>> \/ ~Alive(c)
  /\ mgr' = [fd |-> c, in |-> Fresh]
  /\ UNCHANGED <<CLI, up, listened, back, requests, wk, lock, told, ended>>

\* A client's descriptor is ready: something, or the end, can be read.
Select(c) ==
  /\ ~ended /\ mgr.fd = NULL
  /\ c \in listened
  /\ up[c] # <<>> \/ ~Alive(c)
  /\ listened' = listened \ {c}
  /\ mgr' = [fd |-> c, in |-> Fresh]
  /\ UNCHANGED <<CLI, up, back, requests, wk, lock, told, ended>>

Push(c, m) ==
  /\ requests' = Append(requests, [fd |-> c, msg |-> m])
  /\ mgr' = Unread

\* The process ends, and everything it had in hand with it.
Ends ==
  /\ ended' = TRUE
  /\ mgr' = Unread /\ requests' = <<>>
  /\ wk' = [w \in Worker |-> Free] /\ lock' = NULL
  /\ listened' = {} /\ back' = {}

Fill ==
  /\ ~ended /\ mgr.fd # NULL
  /\ LET c == mgr.fd IN
     \E n \in Parts(Min({Len(up[c]), mgr.in.size - Len(mgr.in.got)})) :
       LET r == Reads(mgr.in, Take(up[c], n), APPEND) IN
       /\ up' = [up EXCEPT ![c] = Drop(@, n)]
       /\ IF r.stage = "done" THEN Push(c, r.msg)
          ELSE /\ mgr' = [mgr EXCEPT !.in = r]
               /\ requests' = requests
  /\ UNCHANGED <<CLI, listened, back, wk, lock, told, ended>>

\* The end of a client that has died is read as zeros.  Without a first
\* field the server dies of it (strtol(NULL), server.c:190); otherwise the
\* request is served as if it had been sent whole.
FillEnd ==
  /\ ~ended /\ mgr.fd # NULL
  /\ ~Alive(mgr.fd) /\ up[mgr.fd] = <<>>
  /\ LET m == ReadsEnd(mgr.in) IN
     IF m.text = <<>> THEN Ends
     ELSE Push(mgr.fd, m) /\ UNCHANGED <<listened, back, wk, lock, ended>>
  /\ UNCHANGED <<CLI, up, told>>

Relisten(c) ==
  /\ ~ended /\ mgr.fd = NULL
  /\ c \in back
  /\ back' = back \ {c}
  /\ listened' = listened \cup {c}
  /\ UNCHANGED <<CLI, up, mgr, requests, wk, lock, told, ended>>

(***************************************************************************)
(* The workers: how they answer (what, is StorageWorkers').                *)
(***************************************************************************)
\* A readNFiles that has no node left to look at, or no file left to read,
\* is at its last frame, and needs the lock no more.
Looks(m) == IF m.text[1] = READN THEN {"serve", "last"} ELSE {"serve"}

Pop(w) ==
  /\ ~ended
  /\ wk[w].pc = "idle" /\ requests # <<>>
  /\ \E pc \in Looks(Head(requests).msg) :
       wk' = [wk EXCEPT ![w] = [pc |-> pc, fd |-> Head(requests).fd,
                                msg |-> Head(requests).msg, frame |-> Nothing, out |-> <<>>]]
  /\ requests' = Tail(requests)
  /\ UNCHANGED <<CLI, up, listened, back, mgr, lock, told, ended>>

\* A frame is begun.
Begin(w, f) ==
  /\ ~ended
  /\ wk' = [wk EXCEPT ![w].pc = "write", ![w].frame = f, ![w].out = Wire(f)]
  /\ told' = [told EXCEPT ![wk[w].fd] = Append(@, f)]
  /\ UNCHANGED <<CLI, up, listened, back, mgr, requests, ended>>

\* readFile and readNFiles hold the lock while they write a file
\* (util_server.c:250-263 and 278-292).
BeginFile(w, f) ==
  /\ wk[w].pc = "serve"
  /\ wk[w].msg.text[1] \in {READ, READN}
  /\ wk[w].msg.text[1] = READN => Len(told[wk[w].fd]) < MaxFiles
  /\ lock = NULL /\ lock' = w
  /\ Begin(w, f)

\* A readFile that has waited too long is refused under the lock, too
\* (util_server.c:250-263).
BeginLate(w) ==
  /\ wk[w].pc = "serve" /\ wk[w].msg.text[1] = READ
  /\ lock = NULL /\ lock' = w
  /\ Begin(w, Plain(KO))

\* Every other answer to a single request: the lock was taken to search the
\* file, and given back.
BeginAnswer(w) ==
  /\ wk[w].pc = "serve" /\ wk[w].msg.text[1] # READN
  /\ lock = NULL /\ lock' = lock
  /\ \E t \in {OK, KO} :
       /\ wk[w].msg.text[1] = READ => t = KO
       /\ Begin(w, Plain(t))

\* readNFiles takes the lock for nodes it does not send, the last ones here.
Skip(w) ==
  /\ ~ended
  /\ wk[w].pc = "serve" /\ wk[w].msg.text[1] = READN
  /\ lock = NULL
  /\ wk' = [wk EXCEPT ![w].pc = "last"]
  /\ UNCHANGED <<CLI, up, listened, back, mgr, requests, lock, told, ended>>

\* After the files of a readNFiles, that it is over.
BeginLast(w) ==
  /\ wk[w].pc = "last"
  /\ lock' = lock
  /\ Begin(w, Plain(IF told[wk[w].fd] = <<>> THEN KO ELSE OK))

\* Faulty variant: the lock is kept.
Kept(w) == lock

Released(w) == IF lock = w THEN NULL ELSE lock

\* Nobody reads what is written to a client that has died: SIGPIPE, which
\* nobody handles, ends the server.
Write(w) ==
  /\ ~ended
  /\ wk[w].pc = "write"
  /\ LET c == wk[w].fd IN
     \/ /\ Alive(c)
        /\ \E n \in Parts(Min({Room(down[c]), Len(wk[w].out)})) :
             /\ down' = [down EXCEPT ![c] = @ \o Take(wk[w].out, n)]
             /\ IF n < Len(wk[w].out)
                THEN wk' = [wk EXCEPT ![w].out = Drop(@, n)] /\ lock' = lock
                ELSE /\ \E pc \in IF LastFrame(wk[w].msg, wk[w].frame)
                                 THEN {"repipe"} ELSE Looks(wk[w].msg) :
                          wk' = [wk EXCEPT ![w].out = <<>>, ![w].pc = pc]
                     /\ lock' = Released(w)
        /\ UNCHANGED <<listened, back, mgr, requests, ended>>
     \/ /\ ~Alive(c)
        /\ Ends
        /\ down' = down
  /\ UNCHANGED <<cl, heard, asked, up, told>>

Repipe(w) ==
  /\ ~ended
  /\ wk[w].pc = "repipe"
  /\ back' = back \cup {wk[w].fd}
  /\ wk' = [wk EXCEPT ![w] = Free]
  /\ UNCHANGED <<CLI, up, listened, mgr, requests, lock, told, ended>>

Manager == Fill \/ FillEnd \/ \E c \in Client : Select(c) \/ Relisten(c)

Works(w) == \/ Pop(w) \/ BeginLate(w) \/ BeginAnswer(w) \/ Skip(w) \/ BeginLast(w)
            \/ \E f \in Files : BeginFile(w, f)
            \/ Write(w) \/ Repipe(w)

GoesOn(c) == Put(c) \/ Get(c) \/ GetEnd(c)

Next ==
  \/ \E c \in Client : (\E m \in Message : Ask(c, m)) \/ GoesOn(c) \/ Die(c)
  \/ Manager
  \/ \E w \in Worker : Works(w)

\* UpdateFile need not return (file_storage.c:218-231).
InUpdateFile(w) == wk[w].pc = "serve" /\ wk[w].msg.text[1] = APPEND

\* Clients that are alive write and read on, and so do the threads of the
\* server, but in UpdateFile.  Nobody has to ask, or to die.
Fairness ==
  /\ \A c \in Client : WF_vars(GoesOn(c))
  /\ WF_vars(Manager)
  /\ \A w \in Worker : WF_vars(~InUpdateFile(w) /\ Works(w))

Spec == Init /\ [][Next]_vars /\ Fairness
==============================================================================
