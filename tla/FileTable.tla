------------------------------ MODULE FileTable ------------------------------
(***************************************************************************)
(* What the storage promises a client of API.c, whatever number of threads *)
(* serves it: the files are a table, and a request that is answered with 0 *)
(* has taken effect on one file in one step between the request and the    *)
(* answer.  Lists, pointers, budgets, locks and threads are out of sight;  *)
(* what is left of them is that a request may be refused (-1), and that    *)
(* the storage may throw out closed files while it creates or appends.     *)
(*                                                                         *)
(* A client is its descriptor.  Two files may have the same path, and a    *)
(* path asked for names every file it matches: the code promises no more.  *)
(***************************************************************************)
EXTENDS Integers

CONSTANTS
  FileId,    \* identities of files
  Client,    \* descriptors
  Path,
  Matches,   \* the <<stored, asked>> pairs of paths
  MEM_SIZE,
  Size,      \* lengths of contents
  NULL,      \* no path
  NoClient   \* the owner of a closed file

VARIABLES
  files,  \* the files stored: [path, owner, size, written]
  asks    \* asks[c]: the request of c and what has become of it

TableVars == <<files, asks>>

Requests == {"create", "open", "read", "readN", "append", "close"}

NoAsk == [op |-> "none", path |-> NULL, size |-> 0, state |-> "none",
          evicted |-> FALSE, sent |-> FALSE]

TableInit ==
  /\ files = [f \in {} |-> NULL]
  /\ asks = [c \in Client |-> NoAsk]

SetAsk(c, r) == asks' = [asks EXCEPT ![c] = r]

Asked(op, p, s) == [op |-> op, path |-> p, size |-> s, state |-> "pending",
                    evicted |-> FALSE, sent |-> FALSE]

Ask(c, op, p, s) ==
  /\ asks[c] = NoAsk
  /\ SetAsk(c, Asked(op, p, s))
  /\ UNCHANGED files

Pending(c, op) == asks[c].state = "pending" /\ asks[c].op = op

Answered(r, a) == [op |-> r.op, path |-> NULL, size |-> 0, state |-> a,
                   evicted |-> r.evicted, sent |-> FALSE]

Conclude(c, a) == SetAsk(c, Answered(asks[c], a))

\* The client has its answer.
Return(c) ==
  /\ asks[c].state \in {"ok", "ko"}
  /\ SetAsk(c, NoAsk)
  /\ UNCHANGED files

\* -1: nothing was done for the client.  A readNFiles that has sent a file
\* is not refused.
Refuse(c) ==
  /\ asks[c].state = "pending"
  /\ ~asks[c].sent
  /\ Conclude(c, "ko")
  /\ UNCHANGED files

\* The file the request is about, and who has it open.
Meant(c, f) == <<files[f].path, asks[c].path>> \in Matches

MineOpen(c, f) == Meant(c, f) /\ files[f].owner = c

Without(f) == [g \in (DOMAIN files) \ {f} |-> files[g]]

With(f, r) == [g \in (DOMAIN files) \cup {f} |-> IF g = f THEN r ELSE files[g]]

Create(c) ==
  /\ Pending(c, "create")
  /\ \E f \in FileId \ DOMAIN files :
       files' = With(f, [path |-> asks[c].path, owner |-> c, size |-> 0, written |-> FALSE])
  /\ Conclude(c, "ok")

Open(c) ==
  /\ Pending(c, "open")
  /\ \E f \in DOMAIN files :
       /\ Meant(c, f)
       /\ files[f].owner = NoClient
       /\ files' = With(f, [files[f] EXCEPT !.owner = c])
  /\ Conclude(c, "ok")

Read(c) ==
  /\ Pending(c, "read")
  /\ \E f \in DOMAIN files : MineOpen(c, f)
  /\ Conclude(c, "ok")
  /\ UNCHANGED files

Append(c) ==
  /\ Pending(c, "append")
  /\ \E f \in DOMAIN files :
       /\ MineOpen(c, f)
       /\ files' = With(f, [files[f] EXCEPT !.size = @ + asks[c].size, !.written = TRUE])
  /\ Conclude(c, "ok")

Close(c) ==
  /\ Pending(c, "close")
  /\ \E f \in DOMAIN files :
       /\ MineOpen(c, f)
       /\ files' = With(f, [files[f] EXCEPT !.owner = NoClient])
  /\ Conclude(c, "ok")

\* readNFiles sends a file, and closes it whoever has it open.
SendOne(c) ==
  /\ Pending(c, "readN")
  /\ \E f \in DOMAIN files :
       /\ files[f].written
       /\ files' = With(f, [files[f] EXCEPT !.owner = NoClient])
  /\ SetAsk(c, [asks[c] EXCEPT !.sent = TRUE])

SentAll(c) ==
  /\ Pending(c, "readN")
  /\ asks[c].sent
  /\ Conclude(c, "ok")
  /\ UNCHANGED files

\* Room is made for c by throwing out a file that is closed and written.
MakeRoom(c) ==
  /\ Pending(c, "create") \/ Pending(c, "append")
  /\ \E f \in DOMAIN files :
       /\ files[f].owner = NoClient /\ files[f].written
       /\ files' = Without(f)
  /\ SetAsk(c, [asks[c] EXCEPT !.evicted = TRUE])

\* A first content that can never fit: its file goes.
Reject(c) ==
  /\ Pending(c, "append")
  /\ asks[c].size > MEM_SIZE
  /\ \E f \in DOMAIN files :
       /\ MineOpen(c, f) /\ ~files[f].written
       /\ files' = Without(f)
  /\ Conclude(c, "ko")

Serve(c) ==
  /\ asks[c].state = "pending"
  /\ \/ Refuse(c) \/ Create(c) \/ Open(c) \/ Read(c) \/ Append(c) \/ Close(c)
     \/ SendOne(c) \/ SentAll(c) \/ MakeRoom(c) \/ Reject(c)

Request(c) ==
  /\ asks[c] = NoAsk
  /\ \E op \in Requests, p \in Path \cup {NULL}, s \in Size : Ask(c, op, p, s)

TableNext == \E c \in Client : Request(c) \/ Serve(c) \/ Return(c)

\* That the table changes is no further condition under [][...]_TableVars: it
\* spares TLC the operations for a step that leaves the table alone.
TableSpec == TableInit /\ [][TableVars' # TableVars /\ TableNext]_TableVars
==============================================================================
