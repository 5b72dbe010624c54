----------------------------- MODULE TableProofs -----------------------------
(***************************************************************************)
(* The worker threads implement the table of module FileTable, for every   *)
(* number of threads, clients, files and bytes.                            *)
(***************************************************************************)
EXTENDS StorageProofs

(***************************************************************************)
(* The files of the table.                                                 *)
(***************************************************************************)

\* A step that leaves the storage alone leaves the table alone.
LEMMA SameFiles == ASSUME UNCHANGED storage PROVE AbstractFiles' = AbstractFiles
BY DEF storage, AbstractFiles, live

\* removeFile takes one row out of the table and leaves the others.
LEMMA RemovedRow ==
  ASSUME StorageTypeOK, NEW n \in live, RemoveFile(n)
  PROVE  AbstractFiles' = Table!Without(n)
<1>1. live' = live \ {n}
  BY DEF RemoveFile, Unlink, live
<1>2. ASSUME NEW m \in live \ {n}
      PROVE  /\ node'[m].pathname = node[m].pathname
             /\ node'[m].fdClient_id = node[m].fdClient_id
             /\ node'[m].file_sz = node[m].file_sz
             /\ node'[m].modified = node[m].modified
  BY <1>2 DEF RemoveFile, Unlink, StorageTypeOK, Node, live
<1> QED
  BY <1>1, <1>2 DEF AbstractFiles, Table!Without

\* insertCreateFile adds the row of an empty file that its client has open.
LEMMA InsertedRow ==
  ASSUME StorageTypeOK, NEW n \in NodeId \ live, NEW p, NEW c,
         InsertFile(n, CreateFileNode(p, c))
  PROVE  AbstractFiles' = Table!With(n, [path |-> p, owner |-> c, size |-> 0,
                                         written |-> FALSE])
<1>1. live' = live \cup {n}
  BY DEF InsertFile, LinkAtHead, live
<1>2. ASSUME NEW m \in live
      PROVE  /\ node'[m].pathname = node[m].pathname
             /\ node'[m].fdClient_id = node[m].fdClient_id
             /\ node'[m].file_sz = node[m].file_sz
             /\ node'[m].modified = node[m].modified
  BY <1>2 DEF InsertFile, LinkAtHead, StorageTypeOK, Node, live
<1>3. /\ node'[n].pathname = p
      /\ node'[n].fdClient_id = c
      /\ node'[n].file_sz = 0
      /\ node'[n].modified = FALSE
  BY DEF InsertFile, LinkAtHead, CreateFileNode, live
<1> QED
  BY <1>1, <1>2, <1>3 DEF AbstractFiles, Table!With

\* Opening and closing change the owner of one row.
LEMMA OwnedRow ==
  ASSUME StorageTypeOK, NEW n \in live, NEW c, SetOwner(n, c)
  PROVE  AbstractFiles' = Table!With(n, [AbstractFiles[n] EXCEPT !.owner = c])
<1>1. live' = live
  BY DEF SetOwner, live
<1>2. ASSUME NEW m \in live
      PROVE  /\ node'[m].pathname = node[m].pathname
             /\ node'[m].fdClient_id = IF m = n THEN c ELSE node[m].fdClient_id
             /\ node'[m].file_sz = node[m].file_sz
             /\ node'[m].modified = node[m].modified
  BY <1>2 DEF SetOwner, StorageTypeOK, Node, live
<1> QED
  BY <1>1, <1>2 DEF AbstractFiles, Table!With

\* The write of UpdateFile lengthens one row.
LEMMA WrittenRow ==
  ASSUME StorageTypeOK, NEW n \in live, NEW s, AppendContent(n, s)
  PROVE  AbstractFiles' =
           Table!With(n, [AbstractFiles[n] EXCEPT !.size = AbstractFiles[n].size + s,
                                                  !.written = TRUE])
<1>1. live' = live
  BY DEF AppendContent, live
<1>2. ASSUME NEW m \in live
      PROVE  /\ node'[m].pathname = node[m].pathname
             /\ node'[m].fdClient_id = node[m].fdClient_id
             /\ node'[m].file_sz = IF m = n THEN node[m].file_sz + s ELSE node[m].file_sz
             /\ node'[m].modified = IF m = n THEN TRUE ELSE node[m].modified
  BY <1>2 DEF AppendContent, StorageTypeOK, Node, live
<1> QED
  BY <1>1, <1>2 DEF AbstractFiles, Table!With

(***************************************************************************)
(* The requests of the table.                                              *)
(***************************************************************************)

\* One field of a request.
LEMMA EvictedField ==
  ASSUME NEW op, NEW path, NEW size, NEW e, NEW sent, NEW a, NEW new,
         a = [op |-> op, path |-> path, size |-> size, state |-> "pending",
              evicted |-> e, sent |-> sent]
  PROVE  [a EXCEPT !.evicted = new]
           = [op |-> op, path |-> path, size |-> size, state |-> "pending",
              evicted |-> new, sent |-> sent]
OBVIOUS

\* And another.
LEMMA SentField ==
  ASSUME NEW op, NEW path, NEW size, NEW e, NEW sent, NEW a, NEW new,
         a = [op |-> op, path |-> path, size |-> size, state |-> "pending",
              evicted |-> e, sent |-> sent]
  PROVE  [a EXCEPT !.sent = new]
           = [op |-> op, path |-> path, size |-> size, state |-> "pending",
              evicted |-> e, sent |-> new]
OBVIOUS

\* The thread that serves a client is the only one.
LEMMA AskOf ==
  ASSUME StorageAssumption, OneRequest, NEW t \in Worker, th[t].client \in Client
  PROVE  AbstractAsks[th[t].client] = AbstractAsk(th[t])
<1>1. Waiting(th[t].client)
  BY DEF Waiting
<1>2. ServedBy(th[t].client) = t
  BY DEF ServedBy, OneRequest, StorageAssumption
<1> QED
  BY <1>1, <1>2 DEF AbstractAsks

\* A client nobody serves has no request.
LEMMA NoAskOf ==
  ASSUME NEW c \in Client, ~Waiting(c)
  PROVE  AbstractAsks[c] = NoRequest
BY DEF AbstractAsks

\* A step of a thread changes the request of the client it serves, or
\* served, and no other.
LEMMA AsksChange ==
  ASSUME StorageAssumption, OneRequest, OneRequest', NEW t \in Worker, NEW c \in Client,
         th[t].client \in {c, NoClient}, th'[t].client \in {c, NoClient},
         \A u \in Worker \ {t} : th'[u] = th[u] /\ th[u].client # c
  PROVE  AbstractAsks' = [AbstractAsks EXCEPT ![c] =
                            IF th'[t].client = c THEN AbstractAsk(th'[t]) ELSE NoRequest]
<1>1. ASSUME NEW d \in Client
      PROVE  AbstractAsks'[d] = IF d = c THEN IF th'[t].client = c THEN AbstractAsk(th'[t])
                                                                  ELSE NoRequest
                                ELSE AbstractAsks[d]
  <2>1. CASE d = c /\ th'[t].client = c
    <3>1. Waiting(d)'
      BY <2>1 DEF Waiting
    <3>2. ServedBy(d)' = t
      BY <2>1 DEF ServedBy
    <3> QED
      BY <2>1, <3>1, <3>2 DEF AbstractAsks
  <2>2. CASE d = c /\ th'[t].client # c
    <3>1. ~Waiting(d)'
      BY <2>2 DEF Waiting
    <3> QED
      BY <2>2, <3>1 DEF AbstractAsks
  <2>3. CASE d # c
    <3>1. \A u \in Worker : th'[u].client = d <=> th[u].client = d
      BY <2>3 DEF StorageAssumption
    <3>2. Waiting(d)' <=> Waiting(d)
      BY <3>1 DEF Waiting
    <3>3. CASE ~Waiting(d)
      BY <2>3, <3>2, <3>3 DEF AbstractAsks
    <3>4. CASE Waiting(d)
      <4>1. PICK u \in Worker : th[u].client = d
        BY <3>4 DEF Waiting
      <4>2. u # t /\ th'[u] = th[u]
        BY <2>3, <4>1 DEF StorageAssumption
      <4>3. ServedBy(d) = u /\ ServedBy(d)' = u
        BY <4>1, <4>2 DEF ServedBy, OneRequest, StorageAssumption
      <4> QED
        BY <2>3, <3>2, <4>2, <4>3 DEF AbstractAsks
    <3> QED
      BY <3>3, <3>4
  <2> QED
    BY <2>1, <2>2, <2>3
<1> QED
  BY <1>1 DEF AbstractAsks

\* So it is while the thread serves its client.
LEMMA AsksStep ==
  ASSUME StorageAssumption, OneRequest, OneRequest', NEW t \in Worker,
         th[t].client \in Client, th'[t].client = th[t].client,
         \A u \in Worker \ {t} : th'[u] = th[u]
  PROVE  AbstractAsks' = [AbstractAsks EXCEPT ![th[t].client] = AbstractAsk(th'[t])]
<1>1. \A u \in Worker \ {t} : th[u].client # th[t].client
  BY DEF OneRequest, StorageAssumption
<1> QED
  BY <1>1, AsksChange

(***************************************************************************)
(* What the statement a thread is at says of its request.                  *)
(***************************************************************************)
Answering == {"ok", "ko", "idle"}

RequestOK(r) ==
  /\ r.pc = "idle" => r.client = NoClient
  /\ r.pc = "insLink" => r.op = "create"
  /\ r.pc = "openTry" => r.op = "open"
  /\ r.pc = "closeTry" => r.op = "close"
  /\ r.pc \in {"readWait", "readLocked"} => r.op = "read"
  /\ r.pc \in {"appWait", "appLocked", "updSize", "updReject", "updWait", "updApply"}
       => r.op = "append"
  /\ r.pc = "updReject" => MEM_SIZE - r.size < 0
  /\ r.pc \in {"room", "outer", "load", "inner", "evict", "final"}
       => r.op \in {"create", "append"}
  /\ r.pc \in ReadNPC => r.op = "readN"
  /\ r.pc \notin ReadNPC => r.n_read = 0 /\ r.check = 0
  /\ r.pc = "readNCount" => r.n_read >= 0 /\ r.check = 0
  /\ r.pc \in {"readNHead", "readNFile"} => r.n_read <= r.check

\* The request of a thread that has not answered yet.
LEMMA PendingAsk ==
  ASSUME StorageAssumption, OneRequest, NEW t \in Worker,
         th[t].client \in Client, th[t].pc \notin Answering
  PROVE  LET r == AbstractAsks[th[t].client] IN
         /\ r.op = th[t].op
         /\ r.path = th[t].path
         /\ r.size = th[t].size
         /\ r.state = "pending"
         /\ r.evicted = th[t].evicted
         /\ r.sent <=> th[t].n_read < th[t].check
<1> DEFINE r == AbstractAsks[th[t].client]
           s == th[t].n_read < th[t].check
<1>1. r = [op |-> th[t].op, path |-> th[t].path, size |-> th[t].size, state |-> "pending",
           evicted |-> th[t].evicted, sent |-> s]
  BY AskOf DEF AbstractAsk, Answering
<1> HIDE DEF r, s
<1>2. /\ r.op = th[t].op /\ r.path = th[t].path /\ r.size = th[t].size
      /\ r.state = "pending" /\ r.evicted = th[t].evicted /\ r.sent = s
  BY <1>1, Zenon
<1> QED
  BY <1>2, Zenon DEF r, s

\* A thread that goes on with its request changes nothing of the table.
Quiet(t) ==
  /\ UNCHANGED storage
  /\ th[t].pc \notin Answering /\ th'[t].pc \notin Answering
  /\ th'[t].client = th[t].client
  /\ th'[t].op = th[t].op
  /\ th'[t].path = th[t].path
  /\ th'[t].size = th[t].size
  /\ th'[t].evicted = th[t].evicted
  /\ (th'[t].n_read < th'[t].check) = (th[t].n_read < th[t].check)

\* A quiet step is a stutter of the table.
LEMMA QuietStep ==
  ASSUME StorageAssumption, OneRequest, OneRequest', NEW t \in Worker,
         th[t].client \in Client, \A u \in Worker \ {t} : th'[u] = th[u], Quiet(t)
  PROVE  UNCHANGED <<AbstractFiles, AbstractAsks>>
<1>1. AbstractAsk(th'[t]) = AbstractAsk(th[t])
  BY DEF Quiet, AbstractAsk, Answering
<1>2. AbstractAsks' = [AbstractAsks EXCEPT ![th[t].client] = AbstractAsks[th[t].client]]
  BY <1>1, AskOf, AsksStep DEF Quiet
<1>3. AbstractAsks' = AbstractAsks
  BY <1>2 DEF AbstractAsks
<1> QED
  BY <1>3, SameFiles DEF Quiet

\* An operation that is over has its answer in the table.
LEMMA ConcludeStep ==
  ASSUME StorageAssumption, OneRequest, OneRequest', NEW t \in Worker, Typed,
         th[t].client \in Client, \A u \in Worker \ {t} : th'[u] = th[u],
         th[t].pc \notin Answering, NEW pc \in {"ok", "ko"}, Finish(t, pc)
  PROVE  /\ Table!Conclude(th[t].client, pc)
         /\ RequestOK(th'[t])
         /\ th'[t].file = NULL
<1> DEFINE r == [Idle EXCEPT !.pc = pc, !.op = th[t].op, !.client = th[t].client,
                             !.size = th[t].size, !.evicted = th[t].evicted]
<1>1. th'[t] = r
  BY DEF Finish, Become, Typed
<1>2. /\ r.pc = pc /\ r.op = th[t].op /\ r.client = th[t].client
      /\ r.evicted = th[t].evicted /\ r.n_read = 0 /\ r.check = 0 /\ r.file = NULL
  BY DEF Idle
<1> HIDE DEF r
<1>3. RequestOK(r)
  BY <1>2 DEF RequestOK, ReadNPC
<1>4. AbstractAsk(th'[t]) = [op |-> th[t].op, path |-> NULL, size |-> 0, state |-> pc,
                             evicted |-> th[t].evicted, sent |-> FALSE]
  BY <1>1, <1>2 DEF AbstractAsk
<1>5. AbstractAsk(th'[t]) = Table!Answered(AbstractAsks[th[t].client], pc)
  <2>1. /\ AbstractAsks[th[t].client].op = th[t].op
        /\ AbstractAsks[th[t].client].evicted = th[t].evicted
    BY PendingAsk
  <2> QED
    BY <1>4, <2>1 DEF Table!Answered
<1>6. AbstractAsks' = [AbstractAsks EXCEPT ![th[t].client] = AbstractAsk(th'[t])]
  BY <1>1, <1>2, AsksStep
<1> QED
  BY <1>1, <1>2, <1>3, <1>5, <1>6 DEF Table!Conclude, Table!SetAsk

(***************************************************************************)
(* Every step of a thread is a step of the table, or none.                 *)
(***************************************************************************)

\* The file a request has found is one its path means.
MeantOK(t) == th[t].file \in live => <<node[th[t].file].pathname, th[t].path>> \in Matches

\* What the lemmas below have in common: thread t takes a step for a client.
Serving(t) ==
  /\ Typed
  /\ OneRequest /\ OneRequest'
  /\ RequestOK(th[t])
  /\ MeantOK(t)
  /\ th[t].client \in Client
  /\ \A u \in Worker \ {t} : th'[u] = th[u]

SameTable == UNCHANGED <<AbstractFiles, AbstractAsks>>

Shown(t) == RequestOK(th'[t]) /\ (SameTable \/ Table!TableNext)

\* A service of the table is a step of the table.
LEMMA ServeStep ==
  ASSUME NEW c \in Client, AbstractAsks[c].state = "pending",
         \/ Table!Refuse(c) \/ Table!Create(c) \/ Table!Open(c) \/ Table!Read(c)
         \/ Table!Append(c) \/ Table!Close(c) \/ Table!SendOne(c) \/ Table!SentAll(c)
         \/ Table!MakeRoom(c) \/ Table!Reject(c)
  PROVE  Table!TableNext
<1>1. Table!Serve(c)
  BY DEF Table!Serve
<1> QED
  BY <1>1 DEF Table!TableNext

\* An answer -1 that did nothing is a refusal.
LEMMA RefusedStep ==
  ASSUME StorageAssumption, NEW t \in Worker, Serving(t), th[t].pc \notin Answering,
         ~(th[t].n_read < th[t].check), Finish(t, "ko"), UNCHANGED storage
  PROVE  Shown(t)
<1> USE DEF Serving
<1> DEFINE c == th[t].client
<1>1. Table!Conclude(c, "ko") /\ RequestOK(th'[t])
  BY ConcludeStep
<1>2. AbstractAsks[c].state = "pending" /\ ~AbstractAsks[c].sent
  BY PendingAsk
<1>3. Table!Refuse(c)
  BY <1>1, <1>2, SameFiles DEF Table!Refuse
<1> QED
  BY <1>1, <1>2, <1>3, ServeStep DEF Shown

\* A thread that only moves on within its request.
LEMMA MovedStep ==
  ASSUME StorageAssumption, NEW t \in Worker, Serving(t), UNCHANGED storage,
         NEW r, Become(t, r), th[t].pc \notin Answering \cup ReadNPC,
         r.pc \notin Answering \cup ReadNPC, r.op = th[t].op, r.client = th[t].client,
         r.path = th[t].path, r.size = th[t].size, r.evicted = th[t].evicted,
         r.n_read = th[t].n_read, r.check = th[t].check, RequestOK(r)
  PROVE  Shown(t)
<1>1. th'[t] = r
  BY DEF Become, Serving, Typed
<1>2. Quiet(t)
  BY <1>1 DEF Quiet
<1> QED
  BY <1>1, <1>2, QuietStep DEF Shown, Serving, SameTable

\* So it is when only the statement and the pointers change.
LEMMA WentStep ==
  ASSUME StorageAssumption, NEW t \in Worker, Serving(t), UNCHANGED storage,
         NEW pc, Goto(t, pc), th[t].pc \notin Answering \cup ReadNPC,
         pc \notin Answering \cup ReadNPC,
         RequestOK([th[t] EXCEPT !.pc = pc])
  PROVE  Shown(t)
<1> DEFINE r == [th[t] EXCEPT !.pc = pc]
<1>1. th[t] \in Thread
  BY DEF Serving, Typed
<1>2. /\ r.pc = pc /\ r.op = th[t].op /\ r.client = th[t].client /\ r.path = th[t].path
      /\ r.size = th[t].size /\ r.evicted = th[t].evicted
      /\ r.n_read = th[t].n_read /\ r.check = th[t].check
  BY <1>1 DEF Thread
<1>3. Become(t, r) /\ RequestOK(r)
  BY DEF Goto
<1> HIDE DEF r
<1> QED
  BY <1>2, <1>3, MovedStep

\* The search.
LEMMA SearchShown ==
  ASSUME StorageAssumption, NEW t \in Worker, Serving(t), Search(t)
  PROVE  Shown(t)
<1> DEFINE f  == SearchFileNode(th[t].path)
           pc == IF f = NULL THEN MissingPC(th[t].op) ELSE FoundPC(th[t].op)
           r  == [th[t] EXCEPT !.pc = pc, !.file = f]
<1>1. /\ th[t].pc = "search" /\ UNCHANGED storage /\ th[t] \in Thread
      /\ th[t].n_read = 0 /\ th[t].check = 0
  BY DEF Search, At, Serving, Typed, RequestOK, ReadNPC
<1>2. CASE pc = "ko"
  BY <1>1, <1>2, RefusedStep DEF Search, Answering
<1>3. CASE pc # "ko"
  <2>1. Become(t, r)
    BY <1>3 DEF Search
  <2>2. /\ pc \in {"room", "openTry", "readWait", "appWait", "closeTry"}
        /\ pc = "room" => th[t].op = "create"
        /\ pc = "openTry" => th[t].op = "open"
        /\ pc = "readWait" => th[t].op = "read"
        /\ pc = "appWait" => th[t].op = "append"
        /\ pc = "closeTry" => th[t].op = "close"
    BY <1>3 DEF MissingPC, FoundPC
  <2> HIDE DEF pc, f
  <2>3. /\ r.pc = pc /\ r.op = th[t].op /\ r.client = th[t].client /\ r.path = th[t].path
        /\ r.size = th[t].size /\ r.evicted = th[t].evicted
        /\ r.n_read = th[t].n_read /\ r.check = th[t].check
    BY <1>1 DEF Thread
  <2> HIDE DEF r
  <2>4. RequestOK(r)
    BY <1>1, <2>2, <2>3 DEF RequestOK, ReadNPC
  <2> QED
    BY <1>1, <2>1, <2>2, <2>3, <2>4, MovedStep DEF Answering, ReadNPC
<1> QED
  BY <1>2, <1>3

\* The tests of the eviction loops.
LEMMA ScanShown ==
  ASSUME StorageAssumption, NEW t \in Worker, Serving(t),
         Room(t) \/ OuterTest(t) \/ LoadLast(t) \/ InnerTest(t) \/ FinalTest(t)
  PROVE  Shown(t)
<1>1. /\ th[t].pc \in {"room", "outer", "load", "inner", "final"} /\ UNCHANGED storage
      /\ th[t] \in Thread /\ th[t].op \in {"create", "append"}
      /\ th[t].n_read = 0 /\ th[t].check = 0
  BY DEF Room, OuterTest, LoadLast, InnerTest, FinalTest, At, Serving, Typed, RequestOK, ReadNPC
<1>2. ASSUME NEW pc \in {"outer", "load", "evict"}, Goto(t, pc) PROVE Shown(t)
  <2>1. RequestOK([th[t] EXCEPT !.pc = pc])
    BY <1>1, <1>2 DEF RequestOK, Thread, ReadNPC
  <2> QED
    BY <1>1, <1>2, <2>1, WentStep DEF Answering, ReadNPC
<1>3. ASSUME Goto(t, EnoughPC(t)) PROVE Shown(t)
  <2>1. /\ EnoughPC(t) \in {"insLink", "updWait"}
        /\ EnoughPC(t) = "insLink" => th[t].op = "create"
        /\ EnoughPC(t) = "updWait" => th[t].op = "append"
    BY <1>1 DEF EnoughPC
  <2>2. RequestOK([th[t] EXCEPT !.pc = EnoughPC(t)])
    BY <1>1, <2>1 DEF RequestOK, Thread, ReadNPC
  <2> QED
    BY <1>1, <1>3, <2>1, <2>2, WentStep DEF Answering, ReadNPC
<1>4. ASSUME NEW r, Become(t, r), r.pc \in {"final", "inner", "outer"}, r.op = th[t].op,
             r.client = th[t].client, r.path = th[t].path, r.size = th[t].size,
             r.evicted = th[t].evicted, r.n_read = th[t].n_read, r.check = th[t].check
      PROVE  Shown(t)
  <2>1. RequestOK(r)
    BY <1>1, <1>4 DEF RequestOK, ReadNPC
  <2> QED
    BY <1>1, <1>4, <2>1, MovedStep DEF Answering, ReadNPC
<1>5. CASE Room(t)
  BY <1>2, <1>3, <1>5 DEF Room
<1>6. CASE OuterTest(t)
  <2> DEFINE r == [th[t] EXCEPT !.pc = "final", !.nxt = Uninit, !.cnt = 0]
  <2>1. /\ r.pc = "final" /\ r.op = th[t].op /\ r.client = th[t].client
        /\ r.path = th[t].path /\ r.size = th[t].size /\ r.evicted = th[t].evicted
        /\ r.n_read = th[t].n_read /\ r.check = th[t].check
    BY <1>1 DEF Thread
  <2>2. Goto(t, "load") \/ Become(t, r)
    BY <1>6 DEF OuterTest
  <2> HIDE DEF r
  <2> QED
    BY <1>2, <1>4, <2>1, <2>2
<1>7. CASE LoadLast(t)
  <2> DEFINE r == [th[t] EXCEPT !.pc = "inner", !.cur = last]
  <2>1. /\ r.pc = "inner" /\ r.op = th[t].op /\ r.client = th[t].client
        /\ r.path = th[t].path /\ r.size = th[t].size /\ r.evicted = th[t].evicted
        /\ r.n_read = th[t].n_read /\ r.check = th[t].check
    BY <1>1 DEF Thread
  <2>2. Become(t, r)
    BY <1>7 DEF LoadLast
  <2> HIDE DEF r
  <2> QED
    BY <1>4, <2>1, <2>2
<1>8. CASE InnerTest(t)
  <2> DEFINE r == [th[t] EXCEPT !.pc = "outer", !.cur = NULL, !.cnt = @ + 1]
  <2>1. /\ r.pc = "outer" /\ r.op = th[t].op /\ r.client = th[t].client
        /\ r.path = th[t].path /\ r.size = th[t].size /\ r.evicted = th[t].evicted
        /\ r.n_read = th[t].n_read /\ r.check = th[t].check
    BY <1>1 DEF Thread
  <2>2. Goto(t, "evict") \/ Become(t, r)
    BY <1>8 DEF InnerTest
  <2> HIDE DEF r
  <2> QED
    BY <1>2, <1>4, <2>1, <2>2
<1>9. CASE FinalTest(t)
  <2>1. CASE Finish(t, "ko")
    BY <1>1, <2>1, RefusedStep DEF Answering
  <2> QED
    BY <1>3, <1>9, <2>1 DEF FinalTest
<1> QED
  BY <1>5, <1>6, <1>7, <1>8, <1>9

\* An eviction makes room for the client; one that fails moves on.
LEMMA EvictShown ==
  ASSUME StorageAssumption, NEW t \in Worker, Serving(t), Safe(t),
         EvictForCreate(t) \/ EvictForAppend(t)
  PROVE  Shown(t)
<1> DEFINE n == th[t].cur
           c == th[t].client
<1>1. /\ th[t].pc = "evict" /\ th[t] \in Thread /\ th[t].op \in {"create", "append"}
      /\ th[t].n_read = 0 /\ th[t].check = 0
  BY DEF EvictForCreate, EvictForAppend, At, Serving, Typed, RequestOK, ReadNPC
<1>2. n \in live
  BY <1>1, SafeLemma DEF At
<1>3. ASSUME NEW r, Become(t, r), r.pc = "inner", r.op = th[t].op, r.client = th[t].client,
             r.path = th[t].path, r.size = th[t].size, r.n_read = th[t].n_read,
             r.check = th[t].check,
             \/ r.evicted = th[t].evicted /\ UNCHANGED storage
             \/ r.evicted = TRUE /\ Removable(n) /\ RemoveFile(n)
      PROVE  Shown(t)
  <2>1. RequestOK(r)
    BY <1>1, <1>3 DEF RequestOK, ReadNPC
  <2>2. CASE r.evicted = th[t].evicted /\ UNCHANGED storage
    BY <1>1, <1>3, <2>1, <2>2, MovedStep DEF Answering, ReadNPC
  <2>3. CASE r.evicted = TRUE /\ Removable(n) /\ RemoveFile(n)
    <3>1. th'[t] = r
      BY <1>3 DEF Become, Serving, Typed
    <3>2. AbstractFiles' = Table!Without(n)
      BY <1>2, <2>3, RemovedRow DEF Serving, Typed
    <3>3. n \in DOMAIN AbstractFiles /\ AbstractFiles[n].owner = NoClient /\ AbstractFiles[n].written
      BY <1>2, <2>3 DEF AbstractFiles, Removable
    <3>4. AbstractAsks' = [AbstractAsks EXCEPT ![c] = AbstractAsk(r)]
      BY <1>3, <3>1, AsksStep DEF Serving
    <3> DEFINE a == AbstractAsks[c]
               yes == TRUE
               no == FALSE
    <3>5. a = [op |-> th[t].op, path |-> th[t].path, size |-> th[t].size,
               state |-> "pending", evicted |-> th[t].evicted, sent |-> no]
      <4>1. a = AbstractAsk(th[t])
        BY AskOf DEF Serving
      <4>2. (th[t].n_read < th[t].check) = FALSE
        BY <1>1
      <4> QED
        BY <1>1, <4>1, <4>2, Zenon DEF AbstractAsk
    <3>6. AbstractAsk(r) = [op |-> th[t].op, path |-> th[t].path, size |-> th[t].size,
                            state |-> "pending", evicted |-> yes, sent |-> no]
      <4>2. (r.n_read < r.check) = FALSE
        BY <1>1, <1>3
      <4> QED
        BY <1>1, <1>3, <2>3, <4>2, Zenon DEF AbstractAsk
    <3>7. Table!SetAsk(c, [a EXCEPT !.evicted = TRUE])
      <4> SUFFICES Table!SetAsk(c, [a EXCEPT !.evicted = yes])
        OBVIOUS
      <4> HIDE DEF a, yes, no
      <4>1. AbstractAsk(r) = [a EXCEPT !.evicted = yes]
        BY <3>5, <3>6, EvictedField
      <4> QED
        BY <3>4, <4>1 DEF Table!SetAsk
    <3> HIDE DEF a
    <3>8. a.state = "pending" /\ a.op \in {"create", "append"}
      BY <1>1, <3>5
    <3>9. Table!MakeRoom(c)
      BY <3>2, <3>3, <3>7, <3>8 DEF Table!MakeRoom, Table!Pending, a
    <3> QED
      BY <2>1, <3>1, <3>8, <3>9, ServeStep DEF Shown, Serving, a
  <2> QED
    BY <1>3, <2>2, <2>3
<1>4. CASE EvictForCreate(t)
  <2>1. CASE Removable(n)
    <3> DEFINE r == [th[t] EXCEPT !.pc = "inner", !.cur = NextToScan(n), !.evicted = TRUE]
    <3>1. /\ r.pc = "inner" /\ r.op = th[t].op /\ r.client = th[t].client
          /\ r.path = th[t].path /\ r.size = th[t].size /\ r.evicted = TRUE
          /\ r.n_read = th[t].n_read /\ r.check = th[t].check
      BY <1>1 DEF Thread
    <3>2. Become(t, r) /\ RemoveFile(n)
      BY <1>4, <2>1 DEF EvictForCreate
    <3> HIDE DEF r
    <3> QED
      BY <1>3, <2>1, <3>1, <3>2
  <2>2. CASE ~Removable(n)
    <3> DEFINE r == [th[t] EXCEPT !.pc = "inner", !.cur = node[n].father]
    <3>1. /\ r.pc = "inner" /\ r.op = th[t].op /\ r.client = th[t].client
          /\ r.path = th[t].path /\ r.size = th[t].size /\ r.evicted = th[t].evicted
          /\ r.n_read = th[t].n_read /\ r.check = th[t].check
      BY <1>1 DEF Thread
    <3>2. Become(t, r) /\ UNCHANGED storage
      BY <1>4, <2>2 DEF EvictForCreate
    <3> HIDE DEF r
    <3> QED
      BY <1>3, <3>1, <3>2
  <2> QED
    BY <2>1, <2>2
<1>5. CASE EvictForAppend(t)
  <2>1. CASE Removable(n)
    <3> DEFINE r == [th[t] EXCEPT !.pc = "inner", !.cur = NextToScan(n),
                                  !.nxt = NextToScan(n), !.evicted = TRUE]
    <3>1. /\ r.pc = "inner" /\ r.op = th[t].op /\ r.client = th[t].client
          /\ r.path = th[t].path /\ r.size = th[t].size /\ r.evicted = TRUE
          /\ r.n_read = th[t].n_read /\ r.check = th[t].check
      BY <1>1 DEF Thread
    <3>2. Become(t, r) /\ RemoveFile(n)
      BY <1>5, <2>1 DEF EvictForAppend
    <3> HIDE DEF r
    <3> QED
      BY <1>3, <2>1, <3>1, <3>2
  <2>2. CASE ~Removable(n)
    <3>1. PICK v : Become(t, [th[t] EXCEPT !.pc = "inner", !.cur = v, !.nxt = v])
      BY <1>5, <2>2 DEF EvictForAppend
    <3> DEFINE r == [th[t] EXCEPT !.pc = "inner", !.cur = v, !.nxt = v]
    <3>2. /\ r.pc = "inner" /\ r.op = th[t].op /\ r.client = th[t].client
          /\ r.path = th[t].path /\ r.size = th[t].size /\ r.evicted = th[t].evicted
          /\ r.n_read = th[t].n_read /\ r.check = th[t].check
      BY <1>1 DEF Thread
    <3>3. Become(t, r) /\ UNCHANGED storage
      BY <1>5, <2>2, <3>1 DEF EvictForAppend
    <3> HIDE DEF r
    <3> QED
      BY <1>3, <3>2, <3>3
  <2> QED
    BY <2>1, <2>2
<1> QED
  BY <1>4, <1>5

(***************************************************************************)
(* The steps that conclude a request.                                      *)
(***************************************************************************)
\* The row of a stored file.
LEMMA Row ==
  ASSUME NEW n \in live
  PROVE  /\ n \in DOMAIN AbstractFiles
         /\ AbstractFiles[n].path = node[n].pathname
         /\ AbstractFiles[n].owner = node[n].fdClient_id
         /\ AbstractFiles[n].written = node[n].modified
BY DEF AbstractFiles

\* The last critical section of insertCreateFile creates the file.
LEMMA InsertShown ==
  ASSUME StorageAssumption, NEW t \in Worker, Serving(t), InsertLink(t)
  PROVE  Shown(t)
<1> DEFINE c == th[t].client
           n == CHOOSE m \in FreshNode : TRUE
<1>1. th[t].pc = "insLink" /\ th[t].op = "create"
  BY DEF InsertLink, At, Serving, RequestOK
<1>2. n \in NodeId \ live
  BY DEF InsertLink, FreshNode
<1>3. AbstractFiles' = Table!With(n, [path |-> th[t].path, owner |-> c, size |-> 0,
                                      written |-> FALSE])
  BY <1>2, InsertedRow DEF InsertLink, Serving, Typed
<1>4. Table!Conclude(c, "ok") /\ RequestOK(th'[t])
  BY <1>1, ConcludeStep DEF InsertLink, Serving, Answering
<1>5. /\ AbstractAsks[c].op = "create" /\ AbstractAsks[c].state = "pending"
      /\ AbstractAsks[c].path = th[t].path
  BY <1>1, PendingAsk DEF Serving, Answering
<1>6. n \in NodeId \ DOMAIN AbstractFiles
  BY <1>2 DEF AbstractFiles
<1> HIDE DEF n
<1>7. Table!Create(c)
  BY <1>3, <1>4, <1>5, <1>6 DEF Table!Create, Table!Pending
<1> QED
  BY <1>4, <1>5, <1>7, ServeStep DEF Shown, Serving

\* A failed attempt of openFile or closeFile counts, or answers -1.
LEMMA RetryShown ==
  ASSUME StorageAssumption, NEW t \in Worker, Serving(t), UNCHANGED storage,
         th[t].pc \in {"openTry", "closeTry"}, Retry(t)
  PROVE  Shown(t)
<1> DEFINE r == [th[t] EXCEPT !.cnt = @ + 1]
<1>1. th[t] \in Thread /\ th[t].n_read = 0 /\ th[t].check = 0
  BY DEF Serving, Typed, RequestOK, ReadNPC
<1>2. CASE Finish(t, "ko")
  BY <1>1, <1>2, RefusedStep DEF Answering
<1>3. CASE Become(t, r)
  <2>1. /\ r.pc = th[t].pc /\ r.op = th[t].op /\ r.client = th[t].client
        /\ r.path = th[t].path /\ r.size = th[t].size /\ r.evicted = th[t].evicted
        /\ r.n_read = th[t].n_read /\ r.check = th[t].check
    BY <1>1 DEF Thread
  <2> HIDE DEF r
  <2>2. RequestOK(r)
    BY <2>1 DEF RequestOK, Serving, ReadNPC
  <2> QED
    BY <1>3, <2>1, <2>2, MovedStep DEF Answering, ReadNPC
<1> QED
  BY <1>2, <1>3 DEF Retry

\* The attempt that succeeds opens, or closes, the file found.
LEMMA TryShown ==
  ASSUME StorageAssumption, NEW t \in Worker, Serving(t), Safe(t),
         OpenTry(t) \/ CloseTry(t)
  PROVE  Shown(t)
<1> DEFINE c == th[t].client
           n == th[t].file
<1>1. /\ th[t].pc \in {"openTry", "closeTry"}
      /\ OpenTry(t) => th[t].pc = "openTry" /\ th[t].op = "open"
      /\ CloseTry(t) => th[t].pc = "closeTry" /\ th[t].op = "close"
  BY DEF OpenTry, CloseTry, At, Serving, RequestOK
<1>2. n \in live
  BY <1>1, SafeLemma
<1>3. /\ AbstractAsks[c].op = th[t].op /\ AbstractAsks[c].state = "pending"
      /\ AbstractAsks[c].path = th[t].path
  BY <1>1, PendingAsk DEF Serving, Answering
<1>4. Table!Meant(c, n)
  BY <1>2, <1>3, Row DEF Table!Meant, Serving, MeantOK
<1>5. CASE OpenTry(t) /\ Owner(t) = NoClient /\ SetOwner(n, c) /\ Finish(t, "ok")
  <2>1. AbstractFiles' = Table!With(n, [AbstractFiles[n] EXCEPT !.owner = c])
    BY <1>2, <1>5, OwnedRow DEF Serving, Typed
  <2>2. Table!Conclude(c, "ok") /\ RequestOK(th'[t])
    BY <1>1, <1>5, ConcludeStep DEF Serving, Answering
  <2>3. Table!Open(c)
    BY <1>1, <1>2, <1>3, <1>4, <1>5, <2>1, <2>2, Row DEF Table!Open, Table!Pending, Owner
  <2> QED
    BY <1>3, <2>2, <2>3, ServeStep DEF Shown, Serving
<1>6. CASE CloseTry(t) /\ Owner(t) = c /\ SetOwner(n, NoClient) /\ Finish(t, "ok")
  <2>1. AbstractFiles' = Table!With(n, [AbstractFiles[n] EXCEPT !.owner = NoClient])
    BY <1>2, <1>6, OwnedRow DEF Serving, Typed
  <2>2. Table!Conclude(c, "ok") /\ RequestOK(th'[t])
    BY <1>1, <1>6, ConcludeStep DEF Serving, Answering
  <2>3. Table!MineOpen(c, n)
    BY <1>2, <1>4, <1>6, Row DEF Table!MineOpen, Owner
  <2>4. Table!Close(c)
    BY <1>1, <1>2, <1>3, <1>6, <2>1, <2>2, <2>3, Row DEF Table!Close, Table!Pending
  <2> QED
    BY <1>3, <2>2, <2>4, ServeStep DEF Shown, Serving
<1>7. CASE Retry(t) /\ UNCHANGED storage
  BY <1>1, <1>7, RetryShown
<1> QED
  BY <1>5, <1>6, <1>7 DEF OpenTry, CloseTry

\* The waits for the file to be opened by its client.
LEMMA WaitShown ==
  ASSUME StorageAssumption, NEW t \in Worker, Serving(t),
         ReadWait(t) \/ AppendWait(t) \/ UpdateWait(t)
  PROVE  Shown(t)
<1>1. ASSUME NEW here \in {"readWait", "appWait", "updWait"},
             NEW there \in {"readLocked", "appLocked", "updApply"},
             WaitForFile(t, here, there),
             here = "readWait" <=> there = "readLocked"
      PROVE  Shown(t)
  <2>1. /\ th[t].pc = here /\ UNCHANGED storage /\ th[t] \in Thread
        /\ th[t].n_read = 0 /\ th[t].check = 0
    BY <1>1 DEF WaitForFile, At, Serving, Typed, RequestOK, ReadNPC
  <2>2. PICK r \in {[th[t] EXCEPT !.cnt = @ + 1], [th[t] EXCEPT !.pc = there, !.cnt = 0]} :
          Become(t, r)
    BY <1>1 DEF WaitForFile
  <2>3. /\ r.pc \in {here, there} /\ r.op = th[t].op /\ r.client = th[t].client
        /\ r.path = th[t].path /\ r.size = th[t].size /\ r.evicted = th[t].evicted
        /\ r.n_read = th[t].n_read /\ r.check = th[t].check
    BY <2>1 DEF Thread
  <2>4. RequestOK(r)
    BY <1>1, <2>1, <2>3 DEF RequestOK, Serving, ReadNPC
  <2> QED
    BY <1>1, <2>1, <2>2, <2>3, <2>4, MovedStep DEF Answering, ReadNPC
<1> QED
  BY <1>1 DEF ReadWait, AppendWait, UpdateWait

\* readFile answers, and appendToFile goes on, if the file is its client's.
LEMMA LockedShown ==
  ASSUME StorageAssumption, NEW t \in Worker, Serving(t), Safe(t),
         ReadLocked(t) \/ AppendLocked(t)
  PROVE  Shown(t)
<1> DEFINE c == th[t].client
           n == th[t].file
<1>1. /\ th[t].pc \in {"readLocked", "appLocked"} /\ UNCHANGED storage /\ th[t] \in Thread
      /\ th[t].n_read = 0 /\ th[t].check = 0
      /\ ReadLocked(t) => th[t].op = "read"
      /\ AppendLocked(t) => th[t].op = "append"
  BY DEF ReadLocked, AppendLocked, At, Serving, Typed, RequestOK, ReadNPC
<1>2. n \in live
  BY <1>1, SafeLemma
<1>3. CASE Finish(t, "ko")
  BY <1>1, <1>3, RefusedStep DEF Answering
<1>4. CASE ReadLocked(t) /\ Owner(t) = c /\ Finish(t, "ok")
  <2>1. /\ AbstractAsks[c].op = th[t].op /\ AbstractAsks[c].state = "pending"
        /\ AbstractAsks[c].path = th[t].path
    BY <1>1, PendingAsk DEF Serving, Answering
  <2>2. Table!MineOpen(c, n)
    BY <1>2, <1>4, <2>1, Row DEF Table!MineOpen, Table!Meant, Owner, Serving, MeantOK
  <2>3. Table!Conclude(c, "ok") /\ RequestOK(th'[t])
    BY <1>1, <1>4, ConcludeStep DEF Serving, Answering
  <2>4. Table!Read(c)
    BY <1>1, <1>2, <1>4, <2>1, <2>2, <2>3, Row, SameFiles DEF Table!Read, Table!Pending
  <2> QED
    BY <2>1, <2>3, <2>4, ServeStep DEF Shown, Serving
<1>5. CASE AppendLocked(t) /\ Goto(t, "updSize")
  <2>1. RequestOK([th[t] EXCEPT !.pc = "updSize"])
    BY <1>1, <1>5 DEF RequestOK, Thread, ReadNPC
  <2> QED
    BY <1>1, <1>5, <2>1, WentStep DEF Answering, ReadNPC
<1> QED
  BY <1>3, <1>4, <1>5 DEF ReadLocked, AppendLocked

\* UpdateFile around its eviction loop: on to it, or to the removal of its
\* own file.
LEMMA UpdateSizeShown ==
  ASSUME StorageAssumption, NEW t \in Worker, Serving(t), UpdateSize(t)
  PROVE  Shown(t)
<1>1. /\ th[t].pc = "updSize" /\ UNCHANGED storage /\ th[t] \in Thread
      /\ th[t].n_read = 0 /\ th[t].check = 0 /\ th[t].op = "append"
  BY DEF UpdateSize, At, Serving, Typed, RequestOK, ReadNPC
<1>2. ASSUME NEW pc \in {"updReject", "room"}, Goto(t, pc),
             pc = "updReject" => MEM_SIZE - th[t].size < 0
      PROVE  Shown(t)
  <2> DEFINE r == [th[t] EXCEPT !.pc = pc]
  <2>1. r.pc = pc /\ r.op = "append" /\ r.size = th[t].size /\ r.n_read = 0 /\ r.check = 0
    BY <1>1 DEF Thread
  <2> HIDE DEF r
  <2>2. RequestOK(r)
    BY <1>2, <2>1 DEF RequestOK, ReadNPC
  <2>3. RequestOK([th[t] EXCEPT !.pc = pc])
    BY <2>2 DEF r
  <2> QED
    BY <1>1, <1>2, <2>3, WentStep DEF Answering, ReadNPC
<1> QED
  BY <1>2 DEF UpdateSize, Oversize

\* The rejection removes an unwritten file of the client that is asking.
LEMMA UpdateRejectShown ==
  ASSUME StorageAssumption, NEW t \in Worker, Serving(t), Safe(t), Hold(t), UpdateReject(t)
  PROVE  Shown(t)
<1> DEFINE c == th[t].client
           n == th[t].file
<1>1. /\ th[t].pc = "updReject" /\ th[t].op = "append" /\ MEM_SIZE - th[t].size < 0
      /\ th[t].size \in Nat /\ MEM_SIZE \in Nat
  BY DEF UpdateReject, At, Serving, RequestOK, Typed, Thread, StorageAssumption
<1>2. n \in live
  BY <1>1, SafeLemma DEF At
<1>3. /\ AbstractAsks[c].op = "append" /\ AbstractAsks[c].state = "pending"
      /\ AbstractAsks[c].path = th[t].path /\ AbstractAsks[c].size = th[t].size
  BY <1>1, PendingAsk DEF Serving, Answering
<1>4. Table!MineOpen(c, n) /\ ~AbstractFiles[n].written
  BY <1>1, <1>2, <1>3, Row DEF Table!MineOpen, Table!Meant, Hold, At, Owner, Serving, MeantOK
<1>5. AbstractFiles' = Table!Without(n)
  BY <1>2, RemovedRow DEF UpdateReject, Serving, Typed
<1>6. Table!Conclude(c, "ko") /\ RequestOK(th'[t])
  BY <1>1, ConcludeStep DEF UpdateReject, Serving, Answering
<1>7. AbstractAsks[c].size > MEM_SIZE
  BY <1>1, <1>3
<1>8. Table!Reject(c)
  BY <1>2, <1>3, <1>4, <1>5, <1>6, <1>7, Row DEF Table!Reject, Table!Pending
<1> QED
  BY <1>3, <1>6, <1>8, ServeStep DEF Shown, Serving

\* The end of UpdateFile writes to the file, or finds it taken away.
LEMMA UpdateApplyShown ==
  ASSUME StorageAssumption, NEW t \in Worker, Serving(t), Safe(t), UpdateApply(t)
  PROVE  Shown(t)
<1> DEFINE c == th[t].client
           n == th[t].file
<1>1. /\ th[t].pc = "updApply" /\ th[t].op = "append"
      /\ th[t].n_read = 0 /\ th[t].check = 0
  BY DEF UpdateApply, At, Serving, RequestOK, ReadNPC
<1>2. n \in live
  BY <1>1, SafeLemma
<1>3. CASE Owner(t) = c /\ AppendContent(n, th[t].size) /\ Finish(t, "ok")
  <2>1. /\ AbstractAsks[c].op = "append" /\ AbstractAsks[c].state = "pending"
        /\ AbstractAsks[c].path = th[t].path /\ AbstractAsks[c].size = th[t].size
    BY <1>1, PendingAsk DEF Serving, Answering
  <2>2. Table!MineOpen(c, n)
    BY <1>2, <1>3, <2>1, Row DEF Table!MineOpen, Table!Meant, Owner, Serving, MeantOK
  <2>3. AbstractFiles' = Table!With(n, [AbstractFiles[n] EXCEPT
                           !.size = AbstractFiles[n].size + AbstractAsks[c].size,
                           !.written = TRUE])
    BY <1>2, <1>3, <2>1, WrittenRow DEF Serving, Typed
  <2>4. Table!Conclude(c, "ok") /\ RequestOK(th'[t])
    BY <1>1, <1>3, ConcludeStep DEF Serving, Answering
  <2>5. Table!Append(c)
    BY <1>2, <2>1, <2>2, <2>3, <2>4, Row DEF Table!Append, Table!Pending
  <2> QED
    BY <2>1, <2>4, <2>5, ServeStep DEF Shown, Serving
<1>4. CASE Finish(t, "ko") /\ UNCHANGED storage
  BY <1>1, <1>4, RefusedStep DEF Answering
<1> QED
  BY <1>3, <1>4 DEF UpdateApply

(***************************************************************************)
(* readNFiles.                                                             *)
(***************************************************************************)
\* A step of readNFiles that sends nothing.
LEMMA ReadOnStep ==
  ASSUME StorageAssumption, NEW t \in Worker, Serving(t), UNCHANGED storage,
         NEW r, Become(t, r), th[t].pc \in ReadNPC, r.pc \in {"readNHead", "readNFile"},
         r.op = th[t].op, r.client = th[t].client, r.path = th[t].path,
         r.size = th[t].size, r.evicted = th[t].evicted, r.n_read <= r.check,
         (r.n_read < r.check) = (th[t].n_read < th[t].check)
  PROVE  Shown(t)
<1>1. th'[t] = r
  BY DEF Become, Serving, Typed
<1>2. Quiet(t)
  BY <1>1 DEF Quiet, Answering, ReadNPC
<1>3. RequestOK(r)
  BY DEF RequestOK, Serving, ReadNPC
<1> QED
  BY <1>1, <1>2, <1>3, QuietStep DEF Shown, Serving, SameTable

\* The count and the first pointer are read.
LEMMA ReadNBeginShown ==
  ASSUME StorageAssumption, NEW t \in Worker, Serving(t), ReadNCount(t) \/ ReadNHead(t)
  PROVE  Shown(t)
<1>1. /\ th[t].pc \in ReadNPC /\ UNCHANGED storage /\ th[t] \in Thread
      /\ nfile_dispo \in Int /\ th[t].n_read \in Int /\ th[t].check \in Int
  BY DEF ReadNCount, ReadNHead, At, Serving, Typed, StorageTypeOK, ReadNPC, Thread
<1>2. CASE ReadNCount(t)
  <2> DEFINE n == IF th[t].n_read = 0 THEN nfile_dispo ELSE th[t].n_read
             r == [th[t] EXCEPT !.pc = "readNHead", !.n_read = n, !.check = n]
  <2>1. /\ r.pc = "readNHead" /\ r.op = th[t].op /\ r.client = th[t].client
        /\ r.path = th[t].path /\ r.size = th[t].size /\ r.evicted = th[t].evicted
        /\ r.n_read = n /\ r.check = n
    BY <1>1 DEF Thread
  <2>2. Become(t, r)
    BY <1>2 DEF ReadNCount
  <2>3. n \in Int
    BY <1>1
  <2>4. ~(th[t].n_read < th[t].check)
    BY <1>1, <1>2 DEF ReadNCount, At, Serving, RequestOK
  <2> HIDE DEF r, n
  <2>5. ~(r.n_read < r.check) /\ r.n_read <= r.check
    BY <2>1, <2>3
  <2> QED
    BY <1>1, <2>1, <2>2, <2>4, <2>5, ReadOnStep
<1>3. CASE ReadNHead(t)
  <2> DEFINE r == [th[t] EXCEPT !.pc = "readNFile", !.cur = head]
  <2>1. /\ r.pc = "readNFile" /\ r.op = th[t].op /\ r.client = th[t].client
        /\ r.path = th[t].path /\ r.size = th[t].size /\ r.evicted = th[t].evicted
        /\ r.n_read = th[t].n_read /\ r.check = th[t].check
    BY <1>1 DEF Thread
  <2>2. Become(t, r) /\ th[t].n_read <= th[t].check
    BY <1>3 DEF ReadNHead, At, Serving, RequestOK
  <2> HIDE DEF r
  <2> QED
    BY <1>1, <2>1, <2>2, ReadOnStep
<1> QED
  BY <1>2, <1>3

\* The scan: a file is passed over, or sent and closed, or there is no more.
LEMMA ReadNFileShown ==
  ASSUME StorageAssumption, NEW t \in Worker, Serving(t), Safe(t), ReadNFile(t)
  PROVE  Shown(t)
<1> DEFINE c == th[t].client
           n == th[t].cur
<1>1. /\ th[t].pc = "readNFile" /\ th[t].op = "readN" /\ th[t] \in Thread
      /\ th[t].n_read \in Int /\ th[t].check \in Int /\ th[t].n_read <= th[t].check
  BY DEF ReadNFile, At, Serving, Typed, RequestOK, ReadNPC, Thread
<1>2. CASE Finish(t, "ko") /\ UNCHANGED storage /\ th[t].n_read = th[t].check
  BY <1>1, <1>2, RefusedStep DEF Answering
<1>3. CASE Finish(t, "ok") /\ UNCHANGED storage /\ th[t].n_read # th[t].check
  <2>1. /\ AbstractAsks[c].op = "readN" /\ AbstractAsks[c].state = "pending"
        /\ AbstractAsks[c].sent
    BY <1>1, <1>3, PendingAsk DEF Serving, Answering
  <2>2. Table!Conclude(c, "ok") /\ RequestOK(th'[t])
    BY <1>1, <1>3, ConcludeStep DEF Serving, Answering
  <2>3. Table!SentAll(c)
    BY <1>3, <2>1, <2>2, SameFiles DEF Table!SentAll, Table!Pending
  <2> QED
    BY <2>1, <2>2, <2>3, ServeStep DEF Shown, Serving
<1>4. CASE Become(t, [th[t] EXCEPT !.cur = node[n].son]) /\ UNCHANGED storage
  <2> DEFINE r == [th[t] EXCEPT !.cur = node[n].son]
  <2>1. /\ r.pc = "readNFile" /\ r.op = th[t].op /\ r.client = th[t].client
        /\ r.path = th[t].path /\ r.size = th[t].size /\ r.evicted = th[t].evicted
        /\ r.n_read = th[t].n_read /\ r.check = th[t].check
    BY <1>1 DEF Thread
  <2>2. Become(t, r)
    BY <1>4
  <2> HIDE DEF r
  <2> QED
    BY <1>1, <1>4, <2>1, <2>2, ReadOnStep DEF ReadNPC
<1>5. CASE /\ n # NULL /\ th[t].n_read > 0 /\ node[n].modified /\ SetOwner(n, NoClient)
           /\ Become(t, [th[t] EXCEPT !.cur = node[n].son, !.n_read = @ - 1])
  <2> DEFINE r == [th[t] EXCEPT !.cur = node[n].son, !.n_read = @ - 1]
             yes == TRUE
             no == FALSE
             a == AbstractAsks[c]
             s == th[t].n_read < th[t].check
  <2>1. n \in live
    BY <1>1, <1>5, SafeLemma DEF At
  <2>2. /\ r.pc = "readNFile" /\ r.op = th[t].op /\ r.client = th[t].client
        /\ r.path = th[t].path /\ r.size = th[t].size /\ r.evicted = th[t].evicted
        /\ r.n_read = th[t].n_read - 1 /\ r.check = th[t].check
    BY <1>1 DEF Thread
  <2>3. th'[t] = r
    BY <1>5 DEF Become, Serving, Typed
  <2>4. AbstractFiles' = Table!With(n, [AbstractFiles[n] EXCEPT !.owner = NoClient])
    BY <1>5, <2>1, OwnedRow DEF Serving, Typed
  <2> HIDE DEF r
  <2>5. RequestOK(r)
    BY <1>1, <2>2 DEF RequestOK, ReadNPC
  <2>6. AbstractAsks' = [AbstractAsks EXCEPT ![c] = AbstractAsk(r)]
    BY <2>2, <2>3, AsksStep DEF Serving
  <2>7. a = [op |-> "readN", path |-> th[t].path, size |-> th[t].size,
             state |-> "pending", evicted |-> th[t].evicted, sent |-> s]
    <3>1. a = AbstractAsk(th[t])
      BY AskOf DEF Serving
    <3> QED
      BY <1>1, <3>1, Zenon DEF AbstractAsk
  <2>8. AbstractAsk(r) = [op |-> "readN", path |-> th[t].path, size |-> th[t].size,
                          state |-> "pending", evicted |-> th[t].evicted, sent |-> yes]
    <3>1. (r.n_read < r.check) = TRUE
      BY <1>1, <2>2
    <3> QED
      BY <1>1, <2>2, <3>1, Zenon DEF AbstractAsk
  <2>9. Table!SetAsk(c, [a EXCEPT !.sent = TRUE])
    <3> SUFFICES Table!SetAsk(c, [a EXCEPT !.sent = yes])
      OBVIOUS
    <3> HIDE DEF a, yes, s
    <3>1. AbstractAsk(r) = [a EXCEPT !.sent = yes]
      BY <2>7, <2>8, SentField
    <3> QED
      BY <2>6, <3>1 DEF Table!SetAsk
  <2>10. a.op = "readN" /\ a.state = "pending"
    BY <1>1, PendingAsk DEF Serving, Answering
  <2> HIDE DEF a
  <2>11. Table!SendOne(c)
    BY <1>5, <2>1, <2>4, <2>9, <2>10, Row DEF Table!SendOne, Table!Pending, a
  <2> QED
    BY <2>3, <2>5, <2>10, <2>11, ServeStep DEF Shown, Serving, a
<1> QED
  BY <1>2, <1>3, <1>4, <1>5 DEF ReadNFile

(***************************************************************************)
(* The two ends of a request.                                              *)
(***************************************************************************)
\* The answer is given to the client, which may ask again.
LEMMA AnswerShown ==
  ASSUME StorageAssumption, WorkersAssumption, NEW t \in Worker, Serving(t), Answer(t)
  PROVE  Shown(t)
<1> DEFINE c == th[t].client
<1>1. th[t].pc \in {"ok", "ko"} /\ th'[t] = Idle /\ UNCHANGED storage
  BY AnswerLemma DEF Answer, Serving
<1>2. AbstractAsks[c].state \in {"ok", "ko"}
  <2> DEFINE e == th[t].evicted
             no == FALSE
  <2>1. AbstractAsks[c] = [op |-> th[t].op, path |-> NULL, size |-> 0,
                           state |-> th[t].pc, evicted |-> e, sent |-> no]
    <3>1. AbstractAsks[c] = AbstractAsk(th[t])
      BY AskOf DEF Serving
    <3> QED
      BY <1>1, <3>1, Zenon DEF AbstractAsk
  <2> HIDE DEF e, no
  <2> QED
    BY <1>1, <2>1
<1>3. \A u \in Worker \ {t} : th'[u] = th[u] /\ th[u].client # c
  BY DEF Serving, OneRequest, StorageAssumption
<1>4. th'[t].client = NoClient /\ NoClient # c
  BY <1>1 DEF Idle, Serving, StorageAssumption
<1>5. AbstractAsks' = [AbstractAsks EXCEPT ![c] = NoRequest]
  BY <1>3, <1>4, AsksChange DEF Serving
<1>6. Table!Return(c)
  BY <1>1, <1>2, <1>5, SameFiles DEF Table!Return, Table!SetAsk, Table!NoAsk, NoRequest
<1>7. RequestOK(th'[t])
  BY <1>1 DEF RequestOK, Idle, ReadNPC
<1> QED
  BY <1>6, <1>7 DEF Shown, Serving, Table!TableNext

\* A client nobody serves makes a request.
LEMMA BeginShown ==
  ASSUME StorageAssumption, WorkersAssumption, NEW t \in Worker, Typed,
         OneRequest, OneRequest', RequestOK(th[t]), Begin(t)
  PROVE  Shown(t) /\ th'[t].file = NULL
<1>1. \A u \in Worker \ {t} : th'[u] = th[u]
  BY BeginLemma
<1>2. th[t].client = NoClient /\ UNCHANGED storage
  BY DEF Begin, At, RequestOK
<1>3. ASSUME NEW r, Become(t, r), NEW c \in Client, ~Waiting(c), r.client = c,
             r.op \in Op, r.path \in Path \cup {NULL}, r.size \in AppendSize \cup {0},
             r.evicted = FALSE, r.check = 0, r.n_read \in Nat, r.file = NULL,
             \/ r.pc = "search" /\ r.n_read = 0
             \/ r.pc = "readNCount" /\ r.op = "readN"
      PROVE  Shown(t) /\ th'[t].file = NULL
  <2>1. th'[t] = r
    BY <1>3 DEF Become, Typed
  <2>2. RequestOK(r)
    BY <1>3 DEF RequestOK, ReadNPC
  <2>3. AbstractAsks' = [AbstractAsks EXCEPT ![c] = AbstractAsk(r)]
    <3>1. \A u \in Worker \ {t} : th'[u] = th[u] /\ th[u].client # c
      BY <1>1, <1>3 DEF Waiting
    <3> QED
      BY <1>2, <1>3, <2>1, <3>1, AsksChange
  <2>4. AbstractAsk(r) = Table!Asked(r.op, r.path, r.size)
    <3>1. (r.n_read < r.check) = FALSE
      BY <1>3
    <3>2. r.pc \notin {"ok", "ko"}
      BY <1>3
    <3> QED
      BY <1>3, <3>1, <3>2, Zenon DEF AbstractAsk, Table!Asked
  <2>5. AbstractAsks[c] = Table!NoAsk
    BY <1>3, NoAskOf DEF NoRequest, Table!NoAsk
  <2>6. r.op \in Table!Requests
    BY <1>3 DEF WorkersAssumption, AllOps, Table!Requests
  <2>7. Table!Ask(c, r.op, r.path, r.size)
    BY <1>2, <2>3, <2>4, <2>5, SameFiles DEF Table!Ask, Table!SetAsk
  <2>8. Table!Request(c)
    BY <1>3, <2>5, <2>6, <2>7 DEF Table!Request
  <2> QED
    BY <1>3, <2>1, <2>2, <2>8 DEF Shown, Table!TableNext
<1>4. PICK op \in Op, c \in Client :
        /\ ~Waiting(c)
        /\ IF op = "readN"
           THEN \E n \in ReadCount :
                  Become(t, [Idle EXCEPT !.pc = "readNCount", !.op = op, !.client = c,
                                         !.n_read = n])
           ELSE \E p \in Path, s \in IF op = "append" THEN AppendSize ELSE {0} :
                  Become(t, [Idle EXCEPT !.pc = "search", !.op = op, !.client = c,
                                         !.path = p, !.size = s])
  BY DEF Begin
<1>5. CASE op = "readN"
  <2>1. PICK n \in ReadCount :
          Become(t, [Idle EXCEPT !.pc = "readNCount", !.op = op, !.client = c, !.n_read = n])
    BY <1>4, <1>5
  <2> DEFINE r == [Idle EXCEPT !.pc = "readNCount", !.op = op, !.client = c, !.n_read = n]
  <2>2. /\ r.pc = "readNCount" /\ r.op = op /\ r.client = c /\ r.path = NULL /\ r.size = 0
        /\ r.check = 0 /\ r.n_read = n /\ r.file = NULL
    BY DEF Idle
  <2>3. r.evicted = FALSE
    BY DEF Idle
  <2>4. n \in Nat
    BY DEF WorkersAssumption
  <2> HIDE DEF r
  <2>5. Become(t, r)
    BY <2>1 DEF r
  <2> QED
    BY <1>3, <1>4, <1>5, <2>2, <2>3, <2>4, <2>5
<1>6. CASE op # "readN"
  <2>1. PICK p \in Path, s \in IF op = "append" THEN AppendSize ELSE {0} :
          Become(t, [Idle EXCEPT !.pc = "search", !.op = op, !.client = c,
                                 !.path = p, !.size = s])
    BY <1>4, <1>6
  <2> DEFINE r == [Idle EXCEPT !.pc = "search", !.op = op, !.client = c,
                               !.path = p, !.size = s]
  <2>2. /\ r.pc = "search" /\ r.op = op /\ r.client = c /\ r.path = p /\ r.size = s
        /\ r.check = 0 /\ r.n_read = 0 /\ r.file = NULL
    BY DEF Idle
  <2>3. r.evicted = FALSE
    BY DEF Idle
  <2>4. s \in AppendSize \cup {0} /\ 0 \in Nat
    OBVIOUS
  <2> HIDE DEF r
  <2>5. Become(t, r)
    BY <2>1 DEF r
  <2> QED
    BY <1>3, <1>4, <2>2, <2>3, <2>4, <2>5
<1> QED
  BY <1>5, <1>6

\* Every handler is a step of the table, or none.
LEMMA HandlerShown ==
  ASSUME StorageAssumption, WorkersAssumption, NEW t \in Worker, Serving(t), Hold(t),
         Safe(t), Handler(t)
  PROVE  Shown(t)
BY AnswerShown, SearchShown, ScanShown, EvictShown, InsertShown, TryShown, WaitShown,
   LockedShown, UpdateSizeShown, UpdateRejectShown, UpdateApplyShown, ReadNBeginShown,
   ReadNFileShown DEF Handler

(***************************************************************************)
(* A file found stays one the path means.                                  *)
(***************************************************************************)

\* A stored file that searchFileNode returns is one the path matches.
LEMMA SearchMatches ==
  ASSUME NEW p, NULL \notin live, SearchFileNode(p) \in live
  PROVE  <<node[SearchFileNode(p)].pathname, p>> \in Matches
<1>1. CASE FirstHit(p) = {}
  BY <1>1 DEF SearchFileNode
<1>2. CASE FirstHit(p) # {}
  <2>1. SearchFileNode(p) \in FirstHit(p)
    BY <1>2 DEF SearchFileNode
  <2>2. PICK k \in Hits(p) : SearchFileNode(p) = Chain[k]
    BY <2>1 DEF FirstHit
  <2> QED
    BY <2>2 DEF Hits
<1> QED
  BY <1>1, <1>2

\* No step renames a file.
LEMMA PathnameKept ==
  ASSUME StorageAssumption, StorageTypeOK, NEW t \in Worker, ThreadOK(th[t]), Changes(t)
  PROVE  \A m \in live \cap live' : node'[m].pathname = node[m].pathname
<1> USE DEF StorageTypeOK, Node, live
<1>1. CASE UNCHANGED storage
  BY <1>1 DEF storage
<1>2. CASE Removes(t)
  BY <1>2 DEF Removes, RemoveFile, Unlink
<1>3. CASE Inserts(t)
  BY <1>3 DEF Inserts, InsertFile, LinkAtHead, FreshNode
<1>4. CASE Opens(t) \/ Closes(t) \/ Reads(t)
  BY <1>4 DEF Opens, Closes, Reads, SetOwner
<1>5. CASE Appends(t)
  BY <1>5 DEF Appends, AppendContent
<1> QED
  BY <1>1, <1>2, <1>3, <1>4, <1>5 DEF Changes

\* A handler keeps the path and the file of its request, or has just
\* searched, or is done with the file.
LEMMA FileKept ==
  ASSUME NEW t \in Worker, Typed, Handler(t)
  PROVE  \/ th'[t].file = NULL
         \/ th'[t].file = th[t].file /\ th'[t].path = th[t].path
         \/ /\ th'[t].file = SearchFileNode(th[t].path) /\ th'[t].path = th[t].path
            /\ UNCHANGED storage
<1> DEFINE Same == th'[t].file = th[t].file /\ th'[t].path = th[t].path
<1>1. th[t] \in Thread
  BY DEF Typed
<1>2. ASSUME NEW r, Become(t, r) PROVE th'[t] = r
  BY <1>2 DEF Become, Typed
<1>3. ASSUME NEW pc, Finish(t, pc) PROVE th'[t].file = NULL
  BY <1>2, <1>3 DEF Finish, Idle
<1>4. ASSUME NEW pc, Goto(t, pc) PROVE Same
  BY <1>1, <1>2, <1>4 DEF Goto, Thread
<1>5. CASE Answer(t)
  BY <1>2, <1>5 DEF Answer, Idle
<1>6. CASE Search(t)
  BY <1>1, <1>2, <1>3, <1>6 DEF Search, Thread
<1>7. CASE Room(t) \/ UpdateSize(t)
  BY <1>4, <1>7 DEF Room, UpdateSize
<1>8. CASE OuterTest(t) \/ LoadLast(t) \/ InnerTest(t) \/ ReadNHead(t)
  BY <1>1, <1>2, <1>4, <1>8 DEF OuterTest, LoadLast, InnerTest, ReadNHead, Thread
<1>9. CASE EvictForCreate(t)
  BY <1>1, <1>2, <1>9 DEF EvictForCreate, Thread
<1>10. CASE EvictForAppend(t)
  BY <1>1, <1>2, <1>10 DEF EvictForAppend, Thread
<1>11. CASE FinalTest(t) \/ AppendLocked(t)
  BY <1>3, <1>4, <1>11 DEF FinalTest, AppendLocked
<1>12. CASE InsertLink(t) \/ ReadLocked(t) \/ UpdateReject(t) \/ UpdateApply(t)
  BY <1>3, <1>12 DEF InsertLink, ReadLocked, UpdateReject, UpdateApply
<1>13. CASE OpenTry(t) \/ CloseTry(t)
  BY <1>1, <1>2, <1>3, <1>13 DEF OpenTry, CloseTry, Retry, Thread
<1>14. CASE ReadWait(t) \/ AppendWait(t) \/ UpdateWait(t)
  BY <1>1, <1>2, <1>14 DEF ReadWait, AppendWait, UpdateWait, WaitForFile, Thread
<1>15. CASE ReadNCount(t)
  BY <1>1, <1>2, <1>15 DEF ReadNCount, Thread
<1>16. CASE ReadNFile(t)
  BY <1>1, <1>2, <1>3, <1>16 DEF ReadNFile, Thread
<1> QED
  BY <1>5, <1>6, <1>7, <1>8, <1>9, <1>10, <1>11, <1>12, <1>13, <1>14, <1>15, <1>16 DEF Handler

(***************************************************************************)
(* The invariant and the refinement.                                       *)
(***************************************************************************)
RequestInv == \A t \in Worker : RequestOK(th[t]) /\ MeantOK(t)

\* Every step leaves the files found to the paths that found them.
LEMMA MeantNext ==
  ASSUME StorageAssumption, WorkersAssumption, TypeInv, RequestInv,
         OneRequest, OneRequest', [Next]_vars, NEW u \in Worker
  PROVE  MeantOK(u)'
<1> USE DEF TypeInv, Typed
<1>1. MeantOK(u) /\ NULL \notin live
  BY DEF RequestInv, StorageTypeOK, StorageAssumption
<1>2. ASSUME NEW t \in Worker, Safe(t), Handler(t) PROVE MeantOK(u)'
  <2>1. /\ Changes(t) /\ ThreadOK(th[t])
        /\ StorageTypeOK' /\ \A v \in Worker \ {t} : th'[v] = th[v]
    BY <1>2, HandlerLemma DEF Keeps, Local
  <2>2. NULL \notin live'
    BY <2>1 DEF StorageTypeOK, StorageAssumption
  <2> SUFFICES ASSUME th'[u].file \in live'
               PROVE  <<node'[th'[u].file].pathname, th'[u].path>> \in Matches
    BY DEF MeantOK
  <2>3. CASE th'[u].file = th[u].file /\ th'[u].path = th[u].path
    <3>1. th[u].file \in live \cap live'
      BY <2>1, <2>3, FreshLemma
    <3> QED
      BY <1>1, <2>1, <2>3, <3>1, PathnameKept DEF MeantOK
  <2>4. CASE u = t /\ ~(th'[u].file = th[u].file /\ th'[u].path = th[u].path)
    <3>1. /\ th'[u].file = SearchFileNode(th[u].path) /\ th'[u].path = th[u].path
          /\ UNCHANGED storage
      BY <1>2, <2>2, <2>4, FileKept
    <3>2. node' = node /\ live' = live
      BY <3>1 DEF storage, live
    <3> QED
      BY <1>1, <3>1, <3>2, SearchMatches
  <2> QED
    BY <2>1, <2>3, <2>4
<1>3. ASSUME NEW t \in Worker, Begin(t) PROVE MeantOK(u)'
  <2>1. UNCHANGED storage /\ \A v \in Worker \ {t} : th'[v] = th[v]
    BY <1>3, BeginLemma
  <2>2. node' = node /\ live' = live
    BY <2>1 DEF storage, live
  <2>3. CASE u = t
    BY <1>1, <1>3, <2>2, <2>3, BeginShown DEF RequestInv, MeantOK
  <2>4. CASE u # t
    BY <1>1, <2>1, <2>2, <2>4 DEF MeantOK
  <2> QED
    BY <2>3, <2>4
<1>4. CASE UNCHANGED <<storage, th>>
  BY <1>1, <1>4 DEF MeantOK, storage, live
<1> QED
  BY <1>2, <1>3, <1>4, NextCases

\* Every step of the system is one of the table, or none, and keeps the
\* requests in order.
LEMMA TableStep ==
  ASSUME StorageAssumption, WorkersAssumption, TypeInv, HolderInv, HolderInv', RequestInv,
         [Next]_vars
  PROVE  RequestInv' /\ (SameTable \/ Table!TableNext)
<1> USE DEF TypeInv, HolderInv
<1>1. \A u \in Worker : MeantOK(u)'
  BY MeantNext
<1>2. ASSUME NEW t \in Worker, Safe(t), Handler(t)
      PROVE  RequestInv' /\ (SameTable \/ Table!TableNext)
  <2>1. th[t].client \in Client /\ \A u \in Worker \ {t} : th'[u] = th[u]
    BY <1>2, HandlerLemma DEF Keeps, Local
  <2>2. Serving(t)
    BY <2>1 DEF Serving, RequestInv
  <2>3. Shown(t)
    BY <1>2, <2>2, HandlerShown
  <2>4. \A u \in Worker : RequestOK(th'[u])
    BY <2>1, <2>3 DEF Shown, RequestInv
  <2> QED
    BY <1>1, <2>3, <2>4 DEF Shown, RequestInv, RequestOK
<1>3. ASSUME NEW t \in Worker, Begin(t)
      PROVE  RequestInv' /\ (SameTable \/ Table!TableNext)
  <2>1. Shown(t)
    BY <1>3, BeginShown DEF RequestInv
  <2>2. \A u \in Worker : RequestOK(th'[u])
    BY <1>3, <2>1, BeginLemma DEF Shown, RequestInv
  <2> QED
    BY <1>1, <2>1, <2>2 DEF Shown, RequestInv, RequestOK
<1>4. CASE UNCHANGED <<storage, th>>
  <2>1. AbstractAsks' = AbstractAsks
    BY <1>4 DEF AbstractAsks, AbstractAsk, ServedBy, Waiting
  <2>2. \A u \in Worker : RequestOK(th'[u])
    BY <1>4 DEF RequestInv
  <2> QED
    BY <1>1, <1>4, <2>1, <2>2, SameFiles DEF SameTable, RequestInv, RequestOK
<1> QED
  BY <1>2, <1>3, <1>4, NextCases

\* The server starts with the empty table and no request.
LEMMA RequestInit ==
  ASSUME StorageAssumption, Init
  PROVE  RequestInv /\ Table!TableInit
<1>1. \A t \in Worker : th[t] = Idle
  BY DEF Init
<1>2. live = {}
  BY DEF Init, StorageInit, live
<1>3. RequestInv
  BY <1>1, <1>2 DEF RequestInv, RequestOK, MeantOK, Idle, ReadNPC
<1>4. \A c \in Client : ~Waiting(c)
  BY <1>1 DEF Waiting, Idle, StorageAssumption
<1>5. AbstractAsks = [c \in Client |-> NoRequest]
  BY <1>4 DEF AbstractAsks
<1>6. AbstractFiles = [f \in {} |-> NULL]
  BY <1>2 DEF AbstractFiles
<1> QED
  BY <1>3, <1>5, <1>6 DEF Table!TableInit, Table!NoAsk, NoRequest

\* Whatever the number of threads and clients and the order of their critical
\* sections, every answer 0 of openFile, readFile, readNFiles, appendToFile
\* and closeFile (util_server.c) is one atomic step of the table of files,
\* on a file the path means, that the client had open where it must.
THEOREM TableCorrect == Spec => ImplementsTable
<1>1. Init => RequestInv /\ Table!TableInit
  BY RequestInit, StorageAssumption
<1>2. TypeInv /\ HolderInv /\ HolderInv' /\ RequestInv /\ [Next]_vars
        => /\ RequestInv'
           /\ [Table!TableVars' # Table!TableVars /\ Table!TableNext]_(Table!TableVars)
  BY TableStep, StorageAssumption, WorkersAssumption DEF SameTable, Table!TableVars
<1> QED
  BY <1>1, <1>2, TypeInvariant, HolderInvariant, PTL
     DEF Spec, ImplementsTable, Table!TableSpec
==============================================================================
