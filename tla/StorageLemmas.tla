---------------------------- MODULE StorageLemmas ----------------------------
(***************************************************************************)
(* What each step of a worker thread does to the storage and to the local  *)
(* state of the threads, for every number of threads, clients, files and   *)
(* bytes: the lemmas the theorems of StorageProofs rest on.                *)
(***************************************************************************)
EXTENDS StorageProperties, FiniteSetTheorems, TLAPS

(***************************************************************************)
(* What each change of the storage keeps: its type, and the number of      *)
(* files against the free slots.                                           *)
(***************************************************************************)

\* removeFile of a live node takes exactly that node and gives one slot back.
LEMMA RemoveFileLemma ==
  ASSUME StorageAssumption, StorageTypeOK, NEW n \in live,
         Neighbour(n) \subseteq live, RemoveFile(n)
  PROVE  /\ StorageTypeOK'
         /\ live' = live \ {n}
         /\ nfile_dispo' = nfile_dispo + 1
         /\ \A m \in live' : /\ node'[m].fdClient_id = node[m].fdClient_id
                             /\ node'[m].modified = node[m].modified
<1> USE DEF StorageTypeOK, live, Ptr, Node
<1>1. live' = live \ {n}
  BY DEF RemoveFile, Unlink
<1>2. /\ ram_dispo' \in Int
      /\ nfile_dispo' = nfile_dispo + 1
  BY DEF RemoveFile, Release
<1>3. head' \in Ptr /\ last' \in Ptr
  BY DEF RemoveFile, Unlink
<1>4. ASSUME NEW m \in live \ {n}
      PROVE  /\ node'[m] \in Node
             /\ node'[m].fdClient_id = node[m].fdClient_id
             /\ node'[m].modified = node[m].modified
  BY <1>4 DEF RemoveFile, Unlink
<1>5. node' = [m \in live' |-> node'[m]]
  BY DEF RemoveFile, Unlink
<1> QED
  BY <1>1, <1>2, <1>3, <1>4, <1>5

\* The last section of insertCreateFile adds exactly the new node.
LEMMA InsertFileLemma ==
  ASSUME StorageAssumption, StorageTypeOK, NEW n \in NodeId \ live,
         NEW p \in Path, NEW c \in Client, InsertFile(n, CreateFileNode(p, c))
  PROVE  /\ StorageTypeOK'
         /\ live' = live \cup {n}
         /\ nfile_dispo' = nfile_dispo - 1
         /\ \A m \in live : /\ node'[m].fdClient_id = node[m].fdClient_id
                            /\ node'[m].modified = node[m].modified
<1> USE DEF StorageTypeOK, live, Ptr, Node
<1>1. CreateFileNode(p, c) \in Node
  BY DEF CreateFileNode, StorageAssumption
<1>2. /\ live' = live \cup {n}
      /\ nfile_dispo' = nfile_dispo - 1
      /\ head' \in Ptr /\ last' \in Ptr /\ ram_dispo' \in Int
  BY DEF InsertFile, LinkAtHead
<1>3. node'[n] \in Node
  BY <1>1 DEF InsertFile, LinkAtHead
<1>4. ASSUME NEW m \in live
      PROVE  /\ node'[m] \in Node
             /\ node'[m].fdClient_id = node[m].fdClient_id
             /\ node'[m].modified = node[m].modified
  BY <1>4 DEF InsertFile, LinkAtHead
<1>5. node' = [m \in live' |-> node'[m]]
  BY DEF InsertFile, LinkAtHead
<1> QED
  BY <1>2, <1>3, <1>4, <1>5

\* Opening or closing a live file changes its owner and nothing else.
LEMMA SetOwnerLemma ==
  ASSUME StorageTypeOK, NEW n \in live, NEW c \in Client \cup {NoClient}, SetOwner(n, c)
  PROVE  /\ StorageTypeOK'
         /\ live' = live
         /\ nfile_dispo' = nfile_dispo
         /\ \A m \in live : /\ node'[m].modified = node[m].modified
                            /\ m # n => node'[m] = node[m]
         /\ node'[n].fdClient_id = c
BY DEF SetOwner, StorageTypeOK, live, Ptr, Node

\* The write of UpdateFile marks its file as written and leaves the owners.
LEMMA AppendContentLemma ==
  ASSUME StorageTypeOK, NEW n \in live, NEW s \in Nat, AppendContent(n, s)
  PROVE  /\ StorageTypeOK'
         /\ live' = live
         /\ nfile_dispo' = nfile_dispo
         /\ \A m \in live : /\ node'[m].fdClient_id = node[m].fdClient_id
                            /\ m # n => node'[m] = node[m]
         /\ node'[n].modified
<1> USE DEF StorageTypeOK, live, Ptr, Node
<1>1. /\ ram_dispo' \in Int
      /\ UNCHANGED <<head, last, nfile_dispo>>
  BY DEF AppendContent
<1>2. node' = [node EXCEPT ![n] = [node[n] EXCEPT !.file_sz = node[n].file_sz + s,
                                                  !.modified = TRUE]]
  BY DEF AppendContent
<1>3. node[n].file_sz + s \in Nat
  OBVIOUS
<1>4. [node[n] EXCEPT !.file_sz = node[n].file_sz + s, !.modified = TRUE] \in Node
  BY <1>3
<1> QED
  BY <1>1, <1>2, <1>4

(***************************************************************************)
(* The local state of a thread.                                            *)
(***************************************************************************)

\* The steps that still need the path of the request.
NeedsPath == {"search", "openTry", "closeTry", "readWait", "readLocked", "appWait",
              "appLocked", "updSize", "updReject", "updWait", "updApply", "room", "outer",
              "load", "inner", "evict", "final", "insLink"}

\* A thread that works has a client and, where it is used, a path; a round
\* of the eviction loop is entered with an attempt left.
ThreadOK(r) ==
  /\ r \in Thread
  /\ r.pc # "idle" => r.client \in Client
  /\ r.pc \in NeedsPath => r.path \in Path
  /\ r.pc \in {"load", "inner", "evict"} => r.cnt < TIMER

Typed == StorageTypeOK /\ th \in [Worker -> Thread] /\ \A t \in Worker : ThreadOK(th[t])

\* The state of an idle thread is well formed.
LEMMA IdleOK == ASSUME StorageAssumption, WorkersAssumption PROVE ThreadOK(Idle)
BY DEF StorageAssumption, WorkersAssumption, ThreadOK, Thread, Idle, PC, Ptr, NeedsPath, AllOps

\* searchFileNode returns a node or NULL.
LEMMA SearchType == ASSUME NEW p, StorageTypeOK PROVE SearchFileNode(p) \in Ptr
<1>1. FirstHit(p) \subseteq live
  BY DEF FirstHit, Hits
<1> QED
  BY <1>1 DEF SearchFileNode, Ptr, StorageTypeOK

(***************************************************************************)
(* A step of a thread keeps its local state well formed, keeps its client  *)
(* until it is idle, and leaves the other threads alone.                   *)
(***************************************************************************)
Local(t) ==
  /\ th' \in [Worker -> Thread]
  /\ ThreadOK(th'[t])
  /\ th'[t].client \in {th[t].client, NoClient}
  /\ \A u \in Worker \ {t} : th'[u] = th[u]

\* An assignment of a well formed state for the same client is local.
LEMMA BecomeLemma ==
  ASSUME NEW t \in Worker, Typed, NEW r, ThreadOK(r),
         r.client \in {th[t].client, NoClient}, Become(t, r)
  PROVE  Local(t)
BY DEF Local, Become, Typed, ThreadOK

\* So is a change of the program counter.
LEMMA GotoLemma ==
  ASSUME NEW t \in Worker, Typed, NEW pc \in PC, Goto(t, pc),
         ThreadOK([th[t] EXCEPT !.pc = pc])
  PROVE  Local(t)
<1> DEFINE r == [th[t] EXCEPT !.pc = pc]
<1>1. r.client = th[t].client
  BY DEF Typed, ThreadOK, Thread
<1> QED
  BY <1>1, BecomeLemma DEF Goto

\* The end of an operation keeps the client for the answer.
LEMMA FinishLemma ==
  ASSUME StorageAssumption, WorkersAssumption, NEW t \in Worker, Typed,
         ~At(t, "idle"), NEW pc \in {"ok", "ko"}, Finish(t, pc)
  PROVE  Local(t) /\ th'[t].pc = pc
<1> DEFINE r == [Idle EXCEPT !.pc = pc, !.op = th[t].op, !.client = th[t].client,
                             !.size = th[t].size, !.evicted = th[t].evicted]
<1>1. th[t] \in Thread /\ th[t].client \in Client
  BY DEF Typed, ThreadOK, At
<1>2. Idle \in Thread
  BY IdleOK DEF ThreadOK
<1>3. r \in Thread /\ r.pc = pc /\ r.client = th[t].client
  BY <1>1, <1>2 DEF Thread, PC, Idle
<1>4. ThreadOK(r)
  BY <1>1, <1>3 DEF ThreadOK, NeedsPath
<1> HIDE DEF r
<1>5. Become(t, r)
  BY DEF Finish, r
<1> QED
  BY <1>3, <1>4, <1>5, BecomeLemma DEF Become, Typed

\* A failed attempt of openFile or closeFile counts, or answers -1.
LEMMA RetryLemma ==
  ASSUME StorageAssumption, WorkersAssumption, NEW t \in Worker, Typed,
         th[t].pc \in {"openTry", "closeTry"}, Retry(t)
  PROVE  Local(t)
<1> DEFINE r == [th[t] EXCEPT !.cnt = @ + 1]
<1>1. ThreadOK(th[t])
  BY DEF Typed
<1>2. CASE th[t].cnt + 1 < TIMER
  <2>1. ThreadOK(r) /\ r.client = th[t].client
    BY <1>1, <1>2 DEF ThreadOK, Thread, NeedsPath, WorkersAssumption
  <2> QED
    BY <1>2, <2>1, BecomeLemma DEF Retry
<1>3. CASE ~(th[t].cnt + 1 < TIMER)
  BY <1>3, FinishLemma DEF Retry, At
<1> QED
  BY <1>2, <1>3

\* A round of an unlocked wait counts, or goes on to the locked section.
LEMMA WaitForFileLemma ==
  ASSUME StorageAssumption, WorkersAssumption, NEW t \in Worker, Typed,
         NEW here \in {"readWait", "appWait", "updWait"},
         NEW there \in {"readLocked", "appLocked", "updApply"},
         WaitForFile(t, here, there)
  PROVE  Local(t)
<1> DEFINE r == [th[t] EXCEPT !.cnt = @ + 1]
           s == [th[t] EXCEPT !.pc = there, !.cnt = 0]
<1>1. ThreadOK(th[t]) /\ th[t].pc = here
  BY DEF Typed, WaitForFile, At
<1>2. CASE th[t].cnt < TIMER /\ Become(t, r)
  <2>1. ThreadOK(r) /\ r.client = th[t].client
    BY <1>1, <1>2 DEF ThreadOK, Thread, NeedsPath, WorkersAssumption
  <2> QED
    BY <1>2, <2>1, BecomeLemma
<1>3. CASE Become(t, s)
  <2>1. th[t] \in Thread /\ th[t].client \in Client /\ th[t].path \in Path
    BY <1>1 DEF ThreadOK, NeedsPath
  <2>4. 0 \in 0 .. TIMER /\ there \in PC
    BY DEF PC, WorkersAssumption
  <2>2. s \in Thread /\ s.pc = there /\ s.client = th[t].client /\ s.path = th[t].path
    BY <2>1, <2>4 DEF Thread
  <2>3. ThreadOK(s)
    BY <2>1, <2>2 DEF ThreadOK, NeedsPath
  <2> QED
    BY <1>3, <2>2, <2>3, BecomeLemma
<1> QED
  BY <1>2, <1>3 DEF WaitForFile

(***************************************************************************)
(* What a step that is not undefined behaviour may rely on.                *)
(***************************************************************************)
\* The pointers a step uses are to live nodes.
LEMMA SafeLemma ==
  ASSUME NEW t \in Worker, Safe(t)
  PROVE  /\ th[t].pc \in {"openTry", "closeTry", "readWait", "readLocked", "appWait",
                          "appLocked", "updWait", "updApply"} => th[t].file \in live
         /\ At(t, "evict") => /\ th[t].cur \in live
                              /\ Removable(th[t].cur) => Neighbour(th[t].cur) \subseteq live
         /\ At(t, "updReject") => /\ th[t].file \in live
                                  /\ Neighbour(th[t].file) \subseteq live
         /\ At(t, "readNFile") /\ th[t].cur # NULL /\ th[t].n_read > 0 => th[t].cur \in live
<1>1. CASE At(t, "evict")
  BY <1>1 DEF Safe, Touched, WithNeighbour, At
<1>2. CASE At(t, "updReject")
  BY <1>2 DEF Safe, Touched, WithNeighbour, At
<1>3. CASE At(t, "readNFile")
  BY <1>3 DEF Safe, Touched, At
<1>4. CASE th[t].pc \in {"openTry", "closeTry", "readWait", "readLocked", "appWait",
                         "appLocked", "updWait", "updApply"}
  BY <1>4 DEF Safe, Touched, At
<1> QED
  BY <1>1, <1>2, <1>3, <1>4 DEF At

(***************************************************************************)
(* Type correctness of each step.                                          *)
(***************************************************************************)
Keeps(t) == StorageTypeOK' /\ Local(t)

\* A step that leaves the storage alone keeps its type.
LEMMA UnchangedStorage ==
  ASSUME StorageTypeOK, UNCHANGED storage
  PROVE  /\ StorageTypeOK'
         /\ live' = live
         /\ node' = node
         /\ nfile_dispo' = nfile_dispo
BY DEF storage, StorageTypeOK, live

\* searchFileNode and where each request goes on from it.
LEMMA SearchKeeps ==
  ASSUME StorageAssumption, WorkersAssumption, NEW t \in Worker, Typed, Search(t)
  PROVE  Keeps(t)
<1> DEFINE f  == SearchFileNode(th[t].path)
           pc == IF f = NULL THEN MissingPC(th[t].op) ELSE FoundPC(th[t].op)
           r  == [th[t] EXCEPT !.pc = pc, !.file = f]
<1>1. /\ th[t] \in Thread /\ th[t].client \in Client /\ th[t].path \in Path
      /\ th[t].pc = "search"
  BY DEF Typed, ThreadOK, NeedsPath, Search, At
<1>2. StorageTypeOK'
  BY UnchangedStorage DEF Typed, Search
<1>3. CASE pc = "ko"
  BY <1>1, <1>2, <1>3, FinishLemma DEF Search, Keeps, At
<1>4. CASE pc # "ko"
  <2>1. f \in Ptr
    BY SearchType DEF Typed
  <2>2. pc \in {"room", "openTry", "readWait", "appWait", "closeTry"}
    BY <1>4 DEF MissingPC, FoundPC
  <2> HIDE DEF f, pc
  <2>3. r \in Thread /\ r.pc = pc /\ r.client = th[t].client /\ r.path = th[t].path
    BY <1>1, <2>1, <2>2 DEF Thread, PC
  <2>4. ThreadOK(r)
    BY <1>1, <2>2, <2>3 DEF ThreadOK, NeedsPath
  <2>5. Become(t, r)
    BY <1>4 DEF Search, pc, f
  <2> QED
    BY <1>2, <2>3, <2>4, <2>5, BecomeLemma DEF Keeps
<1> QED
  BY <1>3, <1>4

\* The steps of the eviction loops that only test or load.
LEMMA ScanKeeps ==
  ASSUME StorageAssumption, WorkersAssumption, NEW t \in Worker, Typed,
         Room(t) \/ OuterTest(t) \/ LoadLast(t) \/ InnerTest(t) \/ FinalTest(t)
  PROVE  Keeps(t)
<1>1. /\ th[t] \in Thread /\ th[t].client \in Client /\ th[t].path \in Path
      /\ th[t].pc \in {"room", "outer", "load", "inner", "final"}
      /\ th[t].pc \in {"load", "inner"} => th[t].cnt < TIMER
  BY DEF Typed, ThreadOK, NeedsPath, Room, OuterTest, LoadLast, InnerTest, FinalTest, At
<1>2. StorageTypeOK'
  BY UnchangedStorage DEF Typed, Room, OuterTest, LoadLast, InnerTest, FinalTest
<1>3. ASSUME NEW pc \in {"outer", "load", "evict", "insLink", "updWait"}, Goto(t, pc),
             pc \in {"load", "evict"} => th[t].cnt < TIMER
      PROVE  Keeps(t)
  <2> DEFINE r == [th[t] EXCEPT !.pc = pc]
  <2>1. r \in Thread /\ r.pc = pc /\ r.client = th[t].client /\ r.path = th[t].path
        /\ r.cnt = th[t].cnt
    BY <1>1 DEF Thread, PC
  <2>2. ThreadOK(r)
    BY <1>1, <1>3, <2>1 DEF ThreadOK, NeedsPath
  <2> QED
    BY <1>2, <1>3, <2>1, <2>2, BecomeLemma DEF Goto, Keeps
<1>4. CASE Room(t)
  BY <1>1, <1>3, <1>4 DEF Room, EnoughPC
<1>5. CASE OuterTest(t)
  <2> DEFINE r == [th[t] EXCEPT !.pc = "final", !.nxt = Uninit, !.cnt = 0]
  <2>1. 0 \in 0 .. TIMER /\ "final" \in PC
    BY DEF WorkersAssumption, PC
  <2>2. r \in Thread /\ r.pc = "final" /\ r.client = th[t].client /\ r.path = th[t].path
    BY <1>1, <2>1 DEF Thread
  <2>3. ThreadOK(r)
    BY <1>1, <2>2 DEF ThreadOK, NeedsPath
  <2>4. CASE Scarce(t) /\ th[t].cnt < TIMER
    BY <1>3, <1>5, <2>4 DEF OuterTest
  <2>5. CASE ~(Scarce(t) /\ th[t].cnt < TIMER)
    BY <1>2, <1>5, <2>2, <2>3, <2>5, BecomeLemma DEF OuterTest, Keeps
  <2> QED
    BY <2>4, <2>5
<1>6. CASE LoadLast(t)
  <2> DEFINE r == [th[t] EXCEPT !.pc = "inner", !.cur = last]
  <2>1. last \in Ptr /\ "inner" \in PC
    BY DEF Typed, StorageTypeOK, PC
  <2>2. r \in Thread /\ r.pc = "inner" /\ r.client = th[t].client /\ r.path = th[t].path
        /\ r.cnt = th[t].cnt
    BY <1>1, <2>1 DEF Thread
  <2>3. ThreadOK(r)
    BY <1>1, <1>6, <2>2 DEF ThreadOK, NeedsPath, LoadLast, At
  <2> QED
    BY <1>2, <1>6, <2>2, <2>3, BecomeLemma DEF LoadLast, Keeps
<1>7. CASE InnerTest(t)
  <2> DEFINE r == [th[t] EXCEPT !.pc = "outer", !.cur = NULL, !.cnt = @ + 1]
  <2>1. th[t].cnt + 1 \in 0 .. TIMER /\ "outer" \in PC /\ NULL \in Ptr
    BY <1>1, <1>7 DEF InnerTest, At, WorkersAssumption, PC, Thread, Ptr
  <2>2. r \in Thread /\ r.pc = "outer" /\ r.client = th[t].client /\ r.path = th[t].path
    BY <1>1, <2>1 DEF Thread
  <2>3. ThreadOK(r)
    BY <1>1, <2>2 DEF ThreadOK, NeedsPath
  <2>4. CASE th[t].cur # NULL /\ Scarce(t)
    BY <1>1, <1>3, <1>7, <2>4 DEF InnerTest, At
  <2>5. CASE ~(th[t].cur # NULL /\ Scarce(t))
    BY <1>2, <1>7, <2>2, <2>3, <2>5, BecomeLemma DEF InnerTest, Keeps
  <2> QED
    BY <2>4, <2>5
<1>8. CASE FinalTest(t)
  BY <1>1, <1>2, <1>3, <1>8, FinishLemma DEF FinalTest, EnoughPC, Keeps, At
<1> QED
  BY <1>4, <1>5, <1>6, <1>7, <1>8

\* An attempt on one candidate, by either loop.
Evict(t) == EvictForCreate(t) \/ EvictForAppend(t)

\* It removes a removable node or nothing.
LEMMA EvictLemma ==
  ASSUME StorageAssumption, WorkersAssumption, NEW t \in Worker, Typed, Safe(t), Evict(t)
  PROVE  /\ Keeps(t)
         /\ th'[t].pc = "inner"
         /\ \/ UNCHANGED storage
            \/ /\ Removable(th[t].cur)
               /\ th[t].cur \in live
               /\ Neighbour(th[t].cur) \subseteq live
               /\ RemoveFile(th[t].cur)
<1> DEFINE c == th[t].cur
<1>1. /\ th[t] \in Thread /\ th[t].client \in Client /\ th[t].path \in Path
      /\ th[t].cnt < TIMER /\ At(t, "evict")
  BY DEF Typed, ThreadOK, NeedsPath, Evict, EvictForCreate, EvictForAppend, At
<1>2. /\ c \in live
      /\ Removable(c) => Neighbour(c) \subseteq live
  BY <1>1, SafeLemma
<1>3. node[c] \in Node /\ node[c].father \in Ptr /\ NextToScan(c) \in Ptr
  BY <1>2 DEF Typed, StorageTypeOK, Node, Ptr, NextToScan
<1>4. ASSUME NEW r \in Thread, Become(t, r), r.pc = "inner", r.client = th[t].client,
             r.path = th[t].path, r.cnt = th[t].cnt
      PROVE  Local(t) /\ th'[t].pc = "inner"
  <2>1. ThreadOK(r)
    BY <1>1, <1>4 DEF ThreadOK, NeedsPath
  <2> QED
    BY <1>4, <2>1, BecomeLemma DEF Become, Typed
<1>5. "inner" \in PC
  BY DEF PC
<1>6. CASE Removable(c) /\ RemoveFile(c)
  <2>1. StorageTypeOK'
    BY <1>2, <1>6, RemoveFileLemma DEF Typed
  <2>2. CASE Become(t, [th[t] EXCEPT !.pc = "inner", !.cur = NextToScan(c), !.evicted = TRUE])
    BY <1>1, <1>2, <1>3, <1>4, <1>5, <1>6, <2>1, <2>2 DEF Keeps, Thread
  <2>3. CASE Become(t, [th[t] EXCEPT !.pc = "inner", !.cur = NextToScan(c),
                                     !.nxt = NextToScan(c), !.evicted = TRUE])
    BY <1>1, <1>2, <1>3, <1>4, <1>5, <1>6, <2>1, <2>3 DEF Keeps, Thread
  <2> QED
    BY <1>6, <2>2, <2>3 DEF Evict, EvictForCreate, EvictForAppend
<1>7. CASE ~Removable(c) /\ UNCHANGED storage
  <2>1. StorageTypeOK'
    BY <1>7, UnchangedStorage DEF Typed
  <2>2. CASE Become(t, [th[t] EXCEPT !.pc = "inner", !.cur = node[c].father])
    BY <1>1, <1>3, <1>4, <1>5, <1>7, <2>1, <2>2 DEF Keeps, Thread
  <2>3. ASSUME NEW v \in Ptr \cup {Uninit},
               Become(t, [th[t] EXCEPT !.pc = "inner", !.cur = v, !.nxt = v])
        PROVE  Local(t) /\ th'[t].pc = "inner"
    BY <1>1, <1>4, <1>5, <2>3 DEF Thread
  <2>4. (IF th[t].nxt = Uninit THEN Garbage ELSE {th[t].nxt}) \subseteq Ptr \cup {Uninit}
    BY <1>1 DEF Garbage, Thread, Ptr, Typed, StorageTypeOK
  <2>5. CASE EvictForAppend(t)
    BY <1>7, <2>1, <2>3, <2>4, <2>5 DEF EvictForAppend, Keeps
  <2>6. CASE EvictForCreate(t)
    BY <1>7, <2>2, <2>6 DEF EvictForCreate
  <2> QED
    BY <2>5, <2>6 DEF Evict
<1>8. (Removable(c) /\ RemoveFile(c)) \/ (~Removable(c) /\ UNCHANGED storage)
  BY DEF Evict, EvictForCreate, EvictForAppend
<1> QED
  BY <1>6, <1>7, <1>8

\* insertCreateFile adds one fresh node, for the client of its thread.
LEMMA InsertLinkLemma ==
  ASSUME StorageAssumption, WorkersAssumption, NEW t \in Worker, Typed, InsertLink(t)
  PROVE  /\ Keeps(t)
         /\ th'[t].pc = "ok"
         /\ \E n \in FreshNode : InsertFile(n, CreateFileNode(th[t].path, th[t].client))
         /\ \A n \in FreshNode, p \in Path, c \in Client :
              InsertFile(n, CreateFileNode(p, c)) =>
                /\ live' = live \cup {n}
                /\ n \notin live
                /\ nfile_dispo' = nfile_dispo - 1
                /\ \A m \in live : /\ node'[m].fdClient_id = node[m].fdClient_id
                                   /\ node'[m].modified = node[m].modified
<1>1. th[t].client \in Client /\ th[t].path \in Path /\ ~At(t, "idle")
  BY DEF Typed, ThreadOK, NeedsPath, InsertLink, At
<1>2. PICK n \in FreshNode : InsertFile(n, CreateFileNode(th[t].path, th[t].client))
  BY DEF InsertLink
<1>3. FreshNode \subseteq NodeId \ live
  BY DEF FreshNode
<1>4. StorageTypeOK'
  BY <1>1, <1>2, <1>3, InsertFileLemma DEF Typed
<1>5. Local(t) /\ th'[t].pc = "ok"
  BY <1>1, FinishLemma DEF InsertLink
<1>6. ASSUME NEW m \in FreshNode, NEW p \in Path, NEW c \in Client,
             InsertFile(m, CreateFileNode(p, c))
      PROVE  /\ live' = live \cup {m}
             /\ m \notin live
             /\ nfile_dispo' = nfile_dispo - 1
             /\ \A k \in live : /\ node'[k].fdClient_id = node[k].fdClient_id
                                /\ node'[k].modified = node[k].modified
  BY <1>3, <1>6, InsertFileLemma DEF Typed
<1> QED
  BY <1>2, <1>4, <1>5, <1>6 DEF Keeps

\* openFile and closeFile of an existing file.
LEMMA TryLemma ==
  ASSUME StorageAssumption, WorkersAssumption, NEW t \in Worker, Typed, Safe(t),
         OpenTry(t) \/ CloseTry(t)
  PROVE  /\ Keeps(t)
         /\ th'[t].pc \in {th[t].pc, "ok", "ko"}
         /\ \/ UNCHANGED storage
            \/ /\ th[t].file \in live
               /\ OpenTry(t) /\ Owner(t) = NoClient /\ SetOwner(th[t].file, th[t].client)
            \/ /\ th[t].file \in live
               /\ CloseTry(t) /\ Owner(t) = th[t].client /\ SetOwner(th[t].file, NoClient)
<1>1. /\ th[t].client \in Client
      /\ th[t].pc \in {"openTry", "closeTry"}
      /\ ~At(t, "idle")
  BY DEF Typed, ThreadOK, OpenTry, CloseTry, At
<1>2. th[t].file \in live
  BY <1>1, SafeLemma
<1>3. CASE Retry(t) /\ UNCHANGED storage
  <2>1. Keeps(t)
    BY <1>1, <1>3, RetryLemma, UnchangedStorage DEF Keeps, Typed
  <2>2. th'[t].pc \in {th[t].pc, "ok", "ko"}
    <3>1. CASE Finish(t, "ko")
      BY <1>1, <3>1, FinishLemma
    <3>2. CASE Become(t, [th[t] EXCEPT !.cnt = @ + 1])
      BY <3>2 DEF Become, Typed, Thread
    <3> QED
      BY <1>3, <3>1, <3>2 DEF Retry
  <2> QED
    BY <1>3, <2>1, <2>2
<1>4. CASE OpenTry(t) /\ Owner(t) = NoClient
  BY <1>1, <1>2, <1>4, FinishLemma, SetOwnerLemma DEF OpenTry, Keeps, Typed
<1>5. CASE CloseTry(t) /\ Owner(t) = th[t].client
  BY <1>1, <1>2, <1>5, FinishLemma, SetOwnerLemma DEF CloseTry, Keeps, Typed
<1> QED
  BY <1>3, <1>4, <1>5 DEF OpenTry, CloseTry

\* The unlocked waits of readFile, appendToFile and UpdateFile.
LEMMA WaitKeeps ==
  ASSUME StorageAssumption, WorkersAssumption, NEW t \in Worker, Typed,
         ReadWait(t) \/ AppendWait(t) \/ UpdateWait(t)
  PROVE  /\ Keeps(t)
         /\ th'[t].pc \in {"readWait", "readLocked", "appWait", "appLocked",
                           "updWait", "updApply"}
<1>1. ASSUME NEW here \in {"readWait", "appWait", "updWait"},
             NEW there \in {"readLocked", "appLocked", "updApply"},
             WaitForFile(t, here, there)
      PROVE  Keeps(t) /\ th'[t].pc \in {here, there}
  <2>1. StorageTypeOK'
    BY <1>1, UnchangedStorage DEF WaitForFile, Typed
  <2>2. th'[t].pc \in {here, there}
    BY <1>1 DEF WaitForFile, Become, Typed, Thread, At
  <2> QED
    BY <1>1, <2>1, <2>2, WaitForFileLemma DEF Keeps
<1> QED
  BY <1>1 DEF ReadWait, AppendWait, UpdateWait

\* readFile and appendToFile under the lock.
LEMMA LockedKeeps ==
  ASSUME StorageAssumption, WorkersAssumption, NEW t \in Worker, Typed,
         ReadLocked(t) \/ AppendLocked(t)
  PROVE  /\ Keeps(t)
         /\ th'[t].pc \in {"ok", "ko", "updSize"}
         /\ th'[t].pc = "updSize" => Owner(t) = th[t].client /\ th'[t] = [th[t] EXCEPT !.pc = "updSize"]
<1>1. /\ th[t] \in Thread /\ th[t].client \in Client /\ th[t].path \in Path
      /\ ~At(t, "idle")
  BY DEF Typed, ThreadOK, NeedsPath, ReadLocked, AppendLocked, At
<1>2. StorageTypeOK'
  BY UnchangedStorage DEF Typed, ReadLocked, AppendLocked
<1>3. ASSUME NEW pc \in {"ok", "ko"}, Finish(t, pc)
      PROVE  Keeps(t) /\ th'[t].pc = pc
  BY <1>1, <1>2, <1>3, FinishLemma DEF Keeps
<1>4. CASE AppendLocked(t) /\ Owner(t) = th[t].client /\ Goto(t, "updSize")
  <2> DEFINE r == [th[t] EXCEPT !.pc = "updSize"]
  <2>1. r \in Thread /\ r.pc = "updSize" /\ r.client = th[t].client /\ r.path = th[t].path
    BY <1>1 DEF Thread, PC
  <2>2. ThreadOK(r)
    BY <1>1, <2>1 DEF ThreadOK, NeedsPath
  <2>3. th'[t] = r
    BY <1>4 DEF Goto, Become, Typed
  <2> QED
    BY <1>2, <1>4, <2>1, <2>2, <2>3, BecomeLemma DEF Goto, Keeps
<1>5. CASE ReadLocked(t)
  BY <1>3, <1>5 DEF ReadLocked
<1>6. CASE AppendLocked(t) /\ Owner(t) # th[t].client
  BY <1>3, <1>6 DEF AppendLocked
<1> QED
  BY <1>4, <1>5, <1>6 DEF AppendLocked

\* UpdateFile outside its eviction loop.
LEMMA UpdateSizeLemma ==
  ASSUME StorageAssumption, WorkersAssumption, NEW t \in Worker, Typed, UpdateSize(t)
  PROVE  /\ Keeps(t)
         /\ UNCHANGED storage
         /\ \/ th'[t].pc = "room"
            \/ /\ th'[t] = [th[t] EXCEPT !.pc = "updReject"]
               /\ Oversize(t)
               /\ ~node[th[t].file].modified
<1>1. /\ th[t] \in Thread /\ th[t].client \in Client /\ th[t].path \in Path
  BY DEF Typed, ThreadOK, NeedsPath, UpdateSize, At
<1>2. StorageTypeOK' /\ UNCHANGED storage
  BY UnchangedStorage DEF Typed, UpdateSize
<1>3. ASSUME NEW pc \in {"room", "updReject"}, Goto(t, pc)
      PROVE  Keeps(t) /\ th'[t] = [th[t] EXCEPT !.pc = pc] /\ th'[t].pc = pc
  <2> DEFINE r == [th[t] EXCEPT !.pc = pc]
  <2>1. r \in Thread /\ r.pc = pc /\ r.client = th[t].client /\ r.path = th[t].path
    BY <1>1 DEF Thread, PC
  <2>2. ThreadOK(r)
    BY <1>1, <2>1 DEF ThreadOK, NeedsPath
  <2>3. th'[t] = r
    BY <1>3 DEF Goto, Become, Typed
  <2> QED
    BY <1>2, <1>3, <2>1, <2>2, <2>3, BecomeLemma DEF Goto, Keeps
<1>4. CASE Oversize(t) /\ ~node[th[t].file].modified
  BY <1>2, <1>3, <1>4 DEF UpdateSize
<1>5. CASE ~(Oversize(t) /\ ~node[th[t].file].modified)
  BY <1>2, <1>3, <1>5 DEF UpdateSize
<1> QED
  BY <1>4, <1>5

\* The removal of a file whose first content can never fit.
LEMMA UpdateRejectLemma ==
  ASSUME StorageAssumption, WorkersAssumption, NEW t \in Worker, Typed, Safe(t),
         UpdateReject(t)
  PROVE  /\ Keeps(t)
         /\ th'[t].pc = "ko"
         /\ th[t].file \in live
         /\ Neighbour(th[t].file) \subseteq live
         /\ RemoveFile(th[t].file)
<1>1. th[t].file \in live /\ Neighbour(th[t].file) \subseteq live
  BY SafeLemma DEF UpdateReject
<1>2. StorageTypeOK'
  BY <1>1, RemoveFileLemma DEF UpdateReject, Typed
<1>3. Local(t) /\ th'[t].pc = "ko"
  BY FinishLemma DEF UpdateReject, At
<1> QED
  BY <1>1, <1>2, <1>3 DEF UpdateReject, Keeps

\* The last section of UpdateFile writes to a file of its client only.
LEMMA UpdateApplyLemma ==
  ASSUME StorageAssumption, WorkersAssumption, NEW t \in Worker, Typed, Safe(t),
         UpdateApply(t)
  PROVE  /\ Keeps(t)
         /\ th'[t].pc \in {"ok", "ko"}
         /\ \/ UNCHANGED storage
            \/ /\ th[t].file \in live
               /\ Owner(t) = th[t].client
               /\ AppendContent(th[t].file, th[t].size)
<1>1. th[t].file \in live
  BY SafeLemma DEF UpdateApply, At
<1>2. th[t].size \in Nat
  BY DEF Typed, ThreadOK, Thread
<1>3. ~At(t, "idle")
  BY DEF UpdateApply, At
<1>4. CASE AppendContent(th[t].file, th[t].size) /\ Finish(t, "ok") /\ Owner(t) = th[t].client
  BY <1>1, <1>2, <1>3, <1>4, FinishLemma, AppendContentLemma DEF Keeps, Typed
<1>5. CASE UNCHANGED storage /\ Finish(t, "ko")
  BY <1>3, <1>5, FinishLemma, UnchangedStorage DEF Keeps, Typed
<1> QED
  BY <1>4, <1>5 DEF UpdateApply

\* readNFiles.
LEMMA ReadNLemma ==
  ASSUME StorageAssumption, WorkersAssumption, NEW t \in Worker, Typed, Safe(t),
         ReadNCount(t) \/ ReadNHead(t) \/ ReadNFile(t)
  PROVE  /\ Keeps(t)
         /\ th'[t].pc \in {"readNHead", "readNFile", "ok", "ko"}
         /\ \/ UNCHANGED storage
            \/ /\ ReadNFile(t)
               /\ th[t].cur \in live
               /\ node[th[t].cur].modified
               /\ SetOwner(th[t].cur, NoClient)
<1>1. /\ th[t] \in Thread /\ th[t].client \in Client /\ ~At(t, "idle")
  BY DEF Typed, ThreadOK, ReadNCount, ReadNHead, ReadNFile, At
<1>2. ASSUME NEW r \in Thread, r.pc \in {"readNHead", "readNFile"},
             r.client = th[t].client, Become(t, r)
      PROVE  Local(t) /\ th'[t].pc \in {"readNHead", "readNFile"}
  <2>1. ThreadOK(r)
    BY <1>1, <1>2 DEF ThreadOK, NeedsPath
  <2> QED
    BY <1>2, <2>1, BecomeLemma DEF Become, Typed
<1>3. CASE ReadNCount(t)
  <2> DEFINE n == IF th[t].n_read = 0 THEN nfile_dispo ELSE th[t].n_read
             r == [th[t] EXCEPT !.pc = "readNHead", !.n_read = n, !.check = n]
  <2>1. n \in Int /\ "readNHead" \in PC
    BY <1>1 DEF Typed, StorageTypeOK, Thread, PC
  <2> HIDE DEF n
  <2>2. r \in Thread /\ r.pc = "readNHead" /\ r.client = th[t].client
    BY <1>1, <2>1 DEF Thread
  <2>3. Become(t, r) /\ UNCHANGED storage
    BY <1>3 DEF ReadNCount, n
  <2> QED
    BY <1>2, <2>2, <2>3, UnchangedStorage DEF Keeps, Typed
<1>4. CASE ReadNHead(t)
  <2> DEFINE r == [th[t] EXCEPT !.pc = "readNFile", !.cur = head]
  <2>1. head \in Ptr /\ "readNFile" \in PC
    BY DEF Typed, StorageTypeOK, PC
  <2>2. r \in Thread /\ r.pc = "readNFile" /\ r.client = th[t].client
    BY <1>1, <2>1 DEF Thread
  <2> QED
    BY <1>2, <1>4, <2>2, UnchangedStorage DEF ReadNHead, Keeps, Typed
<1>5. CASE ReadNFile(t)
  <2>1. CASE th[t].cur = NULL \/ th[t].n_read <= 0
    BY <1>1, <1>5, <2>1, FinishLemma, UnchangedStorage DEF ReadNFile, Keeps, Typed, Thread
  <2>2. CASE th[t].cur # NULL /\ th[t].n_read > 0
    <3>1. th[t].cur \in live
      BY <1>5, <2>2, SafeLemma DEF ReadNFile
    <3>2. node[th[t].cur].son \in Ptr /\ th[t].n_read - 1 \in Int /\ th[t].pc = "readNFile"
      BY <1>1, <1>5, <3>1 DEF Typed, StorageTypeOK, Node, Thread, ReadNFile, At
    <3>3. CASE UNCHANGED storage /\ Become(t, [th[t] EXCEPT !.cur = node[th[t].cur].son])
      BY <1>1, <1>2, <3>2, <3>3, UnchangedStorage DEF Keeps, Typed, Thread
    <3>4. CASE /\ SetOwner(th[t].cur, NoClient)
               /\ node[th[t].cur].modified
               /\ Become(t, [th[t] EXCEPT !.cur = node[th[t].cur].son, !.n_read = @ - 1])
      <4>1. StorageTypeOK'
        BY <3>1, <3>4, SetOwnerLemma DEF Typed
      <4>2. Local(t) /\ th'[t].pc \in {"readNHead", "readNFile"}
        BY <1>1, <1>2, <3>2, <3>4 DEF Thread
      <4> QED
        BY <1>5, <3>1, <3>4, <4>1, <4>2 DEF Keeps
    <3>5. \/ /\ UNCHANGED storage
             /\ Become(t, [th[t] EXCEPT !.cur = node[th[t].cur].son])
          \/ /\ SetOwner(th[t].cur, NoClient)
             /\ node[th[t].cur].modified
             /\ Become(t, [th[t] EXCEPT !.cur = node[th[t].cur].son, !.n_read = @ - 1])
      <4>1. ~(th[t].cur = NULL \/ th[t].n_read <= 0)
        BY <1>1, <2>2 DEF Thread
      <4> QED
        BY <1>5, <4>1 DEF ReadNFile
    <3> QED
      BY <3>3, <3>4, <3>5
  <2>3. (th[t].cur = NULL \/ th[t].n_read <= 0) \/ (th[t].cur # NULL /\ th[t].n_read > 0)
    BY <1>1 DEF Thread
  <2> QED
    BY <2>1, <2>2, <2>3
<1> QED
  BY <1>3, <1>4, <1>5

\* A request begins: its thread alone changes, and serves a client no other
\* thread serves.
LEMMA BeginLemma ==
  ASSUME StorageAssumption, WorkersAssumption, NEW t \in Worker, Typed, Begin(t)
  PROVE  /\ StorageTypeOK'
         /\ UNCHANGED <<storage, undefined>>
         /\ th' \in [Worker -> Thread]
         /\ ThreadOK(th'[t])
         /\ th'[t].pc \in {"search", "readNCount"}
         /\ th'[t].client \in Client /\ ~Waiting(th'[t].client)
         /\ th'[t].op \in Op
         /\ th'[t].pc = "readNCount" => th'[t].op = "readN"
         /\ \A u \in Worker \ {t} : th'[u] = th[u]
<1> USE DEF Typed
<1>1. Idle \in Thread
  BY IdleOK DEF ThreadOK
<1>2. StorageTypeOK' /\ UNCHANGED <<storage, undefined>>
  BY UnchangedStorage DEF Begin
<1>3. ASSUME NEW r, ThreadOK(r), Become(t, r)
      PROVE  /\ th' \in [Worker -> Thread]
             /\ th'[t] = r
             /\ \A u \in Worker \ {t} : th'[u] = th[u]
  BY <1>3 DEF Become, ThreadOK
<1>4. PICK op \in Op, c \in Client :
        /\ ~Waiting(c)
        /\ IF op = "readN"
           THEN \E n \in ReadCount :
                  Become(t, [Idle EXCEPT !.pc = "readNCount", !.op = op, !.client = c,
                                         !.n_read = n])
           ELSE \E p \in Path, s \in IF op = "append" THEN AppendSize ELSE {0} :
                  Become(t, [Idle EXCEPT !.pc = "search", !.op = op, !.client = c,
                                         !.path = p, !.size = s])
  BY DEF Begin
<1>5. op \in AllOps
  BY DEF WorkersAssumption
<1>6. CASE op = "readN"
  <2>1. PICK n \in ReadCount :
          Become(t, [Idle EXCEPT !.pc = "readNCount", !.op = op, !.client = c, !.n_read = n])
    BY <1>4, <1>6
  <2> DEFINE r == [Idle EXCEPT !.pc = "readNCount", !.op = op, !.client = c, !.n_read = n]
  <2>2. n \in Int /\ "readNCount" \in PC
    BY DEF WorkersAssumption, PC
  <2>3. r \in Thread /\ r.pc = "readNCount" /\ r.client = c /\ r.op = op
    BY <1>1, <1>5, <2>2 DEF Thread, Idle
  <2>4. ThreadOK(r)
    BY <2>3 DEF ThreadOK, NeedsPath
  <2> HIDE DEF r
  <2>5. Become(t, r)
    BY <2>1 DEF r
  <2> QED
    BY <1>2, <1>3, <1>4, <1>6, <2>3, <2>4, <2>5
<1>7. CASE op # "readN"
  <2>1. PICK p \in Path, s \in IF op = "append" THEN AppendSize ELSE {0} :
          Become(t, [Idle EXCEPT !.pc = "search", !.op = op, !.client = c,
                                 !.path = p, !.size = s])
    BY <1>4, <1>7
  <2> DEFINE r == [Idle EXCEPT !.pc = "search", !.op = op, !.client = c,
                               !.path = p, !.size = s]
  <2>2. s \in Nat /\ "search" \in PC
    BY DEF WorkersAssumption, PC
  <2>3. r \in Thread /\ r.pc = "search" /\ r.client = c /\ r.op = op /\ r.path = p
    BY <1>1, <1>5, <2>2 DEF Thread, Idle
  <2>4. ThreadOK(r)
    BY <2>3 DEF ThreadOK, NeedsPath
  <2> HIDE DEF r
  <2>5. Become(t, r)
    BY <2>1 DEF r
  <2> QED
    BY <1>2, <1>3, <1>4, <2>3, <2>4, <2>5
<1> QED
  BY <1>6, <1>7

\* After the answer the thread is idle.
LEMMA AnswerLemma ==
  ASSUME StorageAssumption, WorkersAssumption, NEW t \in Worker, Typed, Answer(t)
  PROVE  Keeps(t) /\ UNCHANGED storage /\ th'[t] = Idle
<1>1. ThreadOK(Idle) /\ Idle.client = NoClient
  BY IdleOK DEF Idle
<1>2. StorageTypeOK' /\ UNCHANGED storage
  BY UnchangedStorage DEF Answer, Typed
<1>3. Become(t, Idle)
  BY DEF Answer
<1> QED
  BY <1>1, <1>2, <1>3, BecomeLemma DEF Become, Typed, Keeps

(***************************************************************************)
(* All a step of a thread can do to the storage.                           *)
(***************************************************************************)
Removes(t) ==
  \E n \in live : /\ Neighbour(n) \subseteq live
                  /\ RemoveFile(n)
                  /\ Removable(n) \/ (At(t, "updReject") /\ n = th[t].file)

Inserts(t) ==
  /\ At(t, "insLink")
  /\ \E n \in FreshNode : InsertFile(n, CreateFileNode(th[t].path, th[t].client))

Opens(t) ==
  /\ th[t].file \in live
  /\ Owner(t) = NoClient
  /\ SetOwner(th[t].file, th[t].client)

Closes(t) ==
  /\ At(t, "closeTry")
  /\ th[t].file \in live
  /\ Owner(t) = th[t].client
  /\ SetOwner(th[t].file, NoClient)

Reads(t) ==
  /\ At(t, "readNFile")
  /\ th[t].cur \in live
  /\ node[th[t].cur].modified
  /\ SetOwner(th[t].cur, NoClient)

Appends(t) ==
  /\ At(t, "updApply")
  /\ th[t].file \in live
  /\ Owner(t) = th[t].client
  /\ AppendContent(th[t].file, th[t].size)

Changes(t) ==
  \/ UNCHANGED storage
  \/ Removes(t) \/ Inserts(t) \/ Opens(t) \/ Closes(t) \/ Reads(t) \/ Appends(t)

\* Every handler is type correct and changes the storage in one of these ways.
LEMMA HandlerLemma ==
  ASSUME StorageAssumption, WorkersAssumption, NEW t \in Worker, Typed,
         Safe(t), Handler(t)
  PROVE  Keeps(t) /\ th[t].client \in Client /\ Changes(t)
<1>1. th[t].client \in Client
  BY DEF Typed, ThreadOK, At, Handler, Answer, Search, Room, OuterTest, LoadLast, InnerTest,
         EvictForCreate, EvictForAppend, FinalTest, InsertLink, OpenTry, CloseTry, ReadWait,
         ReadLocked, AppendWait, AppendLocked, UpdateSize, UpdateReject, UpdateWait,
         UpdateApply, ReadNCount, ReadNHead, ReadNFile, WaitForFile
<1>2. CASE Answer(t)
  BY <1>1, <1>2, AnswerLemma DEF Changes
<1>3. CASE Search(t)
  BY <1>1, <1>3, SearchKeeps DEF Search, Changes
<1>4. CASE Room(t) \/ OuterTest(t) \/ LoadLast(t) \/ InnerTest(t) \/ FinalTest(t)
  BY <1>1, <1>4, ScanKeeps DEF Room, OuterTest, LoadLast, InnerTest, FinalTest, Changes
<1>5. CASE EvictForCreate(t) \/ EvictForAppend(t)
  BY <1>1, <1>5, EvictLemma DEF Evict, Changes, Removes
<1>6. CASE InsertLink(t)
  BY <1>1, <1>6, InsertLinkLemma DEF InsertLink, Changes, Inserts
<1>7. CASE OpenTry(t) \/ CloseTry(t)
  BY <1>1, <1>7, TryLemma DEF CloseTry, Changes, Opens, Closes
<1>8. CASE ReadWait(t) \/ AppendWait(t) \/ UpdateWait(t)
  BY <1>1, <1>8, WaitKeeps DEF ReadWait, AppendWait, UpdateWait, WaitForFile, Changes
<1>9. CASE ReadLocked(t) \/ AppendLocked(t)
  BY <1>1, <1>9, LockedKeeps DEF ReadLocked, AppendLocked, Changes
<1>10. CASE UpdateSize(t)
  BY <1>1, <1>10, UpdateSizeLemma DEF Changes
<1>11. CASE UpdateReject(t)
  BY <1>1, <1>11, UpdateRejectLemma DEF UpdateReject, Changes, Removes
<1>12. CASE UpdateApply(t)
  BY <1>1, <1>12, UpdateApplyLemma DEF UpdateApply, Changes, Appends
<1>13. CASE ReadNCount(t) \/ ReadNHead(t) \/ ReadNFile(t)
  BY <1>1, <1>13, ReadNLemma DEF ReadNFile, Changes, Reads
<1> QED
  BY <1>2, <1>3, <1>4, <1>5, <1>6, <1>7, <1>8, <1>9, <1>10, <1>11, <1>12, <1>13 DEF Handler

(***************************************************************************)
(* Where a step of a thread leads.                                         *)
(***************************************************************************)

\* The request, and after the search the file found, stay the same until
\* the answer.
SameRequest(t) ==
  \/ th'[t].pc \in {"ok", "ko", "idle"}
  \/ /\ th'[t].op = th[t].op
     /\ th'[t].client = th[t].client
     /\ At(t, "search") \/ th'[t].file = th[t].file

ReadNPC == {"readNCount", "readNHead", "readNFile"}

\* insLink is reached with a free slot in sight; UpdateFile is entered with
\* the file open for the client, and rejects only a file never written;
\* readNFiles is entered by a new request only.
Entering(t) ==
  /\ th'[t].pc = "insLink" => nfile_dispo > 0 /\ UNCHANGED storage
  /\ th'[t].pc = "updSize" => /\ AppendLocked(t)
                              /\ Owner(t) = th[t].client
                              /\ UNCHANGED storage
  /\ th'[t].pc = "updReject" => /\ UpdateSize(t)
                                /\ Oversize(t)
                                /\ ~node[th[t].file].modified
                                /\ UNCHANGED storage
  /\ InUpdateFile(t)' => \/ InUpdateFile(t) /\ ~At(t, "updReject")
                         \/ AppendLocked(t) /\ Owner(t) = th[t].client
  /\ th'[t].pc \in ReadNPC => th[t].pc \in ReadNPC

\* Every handler keeps its request and enters those steps only as said.
LEMMA EnteringLemma ==
  ASSUME StorageAssumption, WorkersAssumption, NEW t \in Worker, Typed,
         Safe(t), Handler(t)
  PROVE  SameRequest(t) /\ Entering(t)
<1> DEFINE Same == /\ th'[t].op = th[t].op
                   /\ th'[t].client = th[t].client
                   /\ th'[t].file = th[t].file
           Inside == {"updSize", "updReject", "room", "outer", "load", "inner",
                      "evict", "final", "updWait", "updApply"}
<1>1. /\ th[t] \in Thread
      /\ nfile_dispo \in Int
  BY DEF Typed, StorageTypeOK
<1>2. ASSUME NEW r, Become(t, r) PROVE th'[t] = r
  BY <1>2 DEF Become, Typed
<1>3. ASSUME NEW pc \in {"ok", "ko"}, Finish(t, pc) PROVE th'[t].pc = pc
  BY <1>2, <1>3 DEF Finish, Idle
<1>4. ASSUME NEW pc, Goto(t, pc) PROVE Same /\ th'[t].pc = pc
  <2>1. th'[t] = [th[t] EXCEPT !.pc = pc]
    BY <1>2, <1>4 DEF Goto
  <2> QED
    BY <1>1, <2>1 DEF Thread
<1>5. ASSUME th'[t].pc \in {"ok", "ko", "idle"} PROVE SameRequest(t) /\ Entering(t)
  BY <1>5 DEF SameRequest, Entering, InUpdateFile, ReadNPC
<1>6. ASSUME Same, th'[t].pc \notin {"insLink", "updSize", "updReject"},
             th'[t].pc \in Inside => th[t].pc \in Inside \ {"updReject"},
             th'[t].pc \in ReadNPC => th[t].pc \in ReadNPC
      PROVE  SameRequest(t) /\ Entering(t)
  <2>1. SameRequest(t)
    BY <1>6 DEF SameRequest
  <2>2. InUpdateFile(t)' => InUpdateFile(t) /\ ~At(t, "updReject")
    BY <1>6 DEF InUpdateFile, At
  <2> QED
    BY <1>6, <2>1, <2>2 DEF Entering, ReadNPC
<1> HIDE DEF Same
<1>7. CASE Answer(t)
  BY <1>5, <1>7, AnswerLemma DEF Idle
<1>8. CASE Search(t)
  <2> DEFINE f  == SearchFileNode(th[t].path)
             pc == IF f = NULL THEN MissingPC(th[t].op) ELSE FoundPC(th[t].op)
             r  == [th[t] EXCEPT !.pc = pc, !.file = f]
  <2>1. CASE pc = "ko"
    BY <1>3, <1>5, <1>8, <2>1 DEF Search
  <2>2. CASE pc # "ko"
    <3>1. /\ pc \in {"room", "openTry", "readWait", "appWait", "closeTry"}
          /\ pc = "room" => th[t].op # "append"
      BY <2>2 DEF MissingPC, FoundPC
    <3>2. Become(t, r) /\ At(t, "search")
      BY <1>8, <2>2 DEF Search
    <3> HIDE DEF pc, f
    <3>3. r.pc = pc /\ r.op = th[t].op /\ r.client = th[t].client
      BY <1>1 DEF Thread
    <3> QED
      BY <1>2, <3>1, <3>2, <3>3 DEF SameRequest, Entering, InUpdateFile, ReadNPC
  <2> QED
    BY <2>1, <2>2
<1>9. CASE Room(t) \/ FinalTest(t)
  <2>1. CASE Goto(t, EnoughPC(t)) /\ ~Scarce(t) /\ UNCHANGED storage
    <3>1. Same /\ th'[t].pc = EnoughPC(t)
      BY <1>4, <2>1
    <3>2. EnoughPC(t) \in {"insLink", "updWait"}
      BY DEF EnoughPC
    <3>3. EnoughPC(t) = "insLink" => nfile_dispo > 0 /\ th[t].op # "append"
      BY <1>1, <2>1 DEF EnoughPC, Scarce
    <3>4. th[t].pc \in {"room", "final"}
      BY <1>9 DEF Room, FinalTest, At
    <3> QED
      BY <2>1, <3>1, <3>2, <3>3, <3>4 DEF SameRequest, Entering, InUpdateFile, ReadNPC, Same, At
  <2>2. CASE Goto(t, "outer")
    BY <1>4, <1>6, <1>9, <2>2 DEF Room, FinalTest, At, ReadNPC
  <2>3. CASE Finish(t, "ko")
    BY <1>3, <1>5, <2>3
  <2> QED
    BY <1>9, <2>1, <2>2, <2>3 DEF Room, FinalTest
<1>10. CASE OuterTest(t)
  <2>1. ASSUME Become(t, [th[t] EXCEPT !.pc = "final", !.nxt = Uninit, !.cnt = 0])
        PROVE  Same /\ th'[t].pc = "final"
    BY <1>1, <1>2, <2>1 DEF Thread, Same
  <2>2. Same /\ th'[t].pc \in {"load", "final"} /\ th[t].pc = "outer"
    BY <1>4, <1>10, <2>1 DEF OuterTest, At
  <2> QED
    BY <1>6, <2>2 DEF ReadNPC
<1>11. CASE LoadLast(t)
  <2>1. Same /\ th'[t].pc = "inner" /\ th[t].pc = "load"
    BY <1>1, <1>2, <1>11 DEF LoadLast, Thread, Same, At
  <2> QED
    BY <1>6, <2>1 DEF ReadNPC
<1>12. CASE InnerTest(t)
  <2>1. ASSUME Become(t, [th[t] EXCEPT !.pc = "outer", !.cur = NULL, !.cnt = @ + 1])
        PROVE  Same /\ th'[t].pc = "outer"
    BY <1>1, <1>2, <2>1 DEF Thread, Same
  <2>2. Same /\ th'[t].pc \in {"evict", "outer"} /\ th[t].pc = "inner"
    BY <1>4, <1>12, <2>1 DEF InnerTest, At
  <2> QED
    BY <1>6, <2>2 DEF ReadNPC
<1>13. CASE EvictForCreate(t) \/ EvictForAppend(t)
  <2>1. ASSUME NEW r, Become(t, r), r.op = th[t].op, r.client = th[t].client,
               r.file = th[t].file, r.pc = "inner"
        PROVE  Same /\ th'[t].pc = "inner"
    BY <1>2, <2>1 DEF Same
  <2>2. Same /\ th'[t].pc = "inner"
    <3>1. CASE EvictForCreate(t)
      BY <1>1, <2>1, <3>1 DEF EvictForCreate, Thread
    <3>2. CASE EvictForAppend(t)
      BY <1>1, <2>1, <3>2 DEF EvictForAppend, Thread
    <3> QED
      BY <1>13, <3>1, <3>2
  <2>3. th[t].pc = "evict"
    BY <1>13 DEF EvictForCreate, EvictForAppend, At
  <2> QED
    BY <1>6, <2>2, <2>3 DEF ReadNPC
<1>14. CASE InsertLink(t) \/ ReadLocked(t) \/ UpdateReject(t) \/ UpdateApply(t)
  BY <1>3, <1>5, <1>14 DEF InsertLink, ReadLocked, UpdateReject, UpdateApply
<1>15. CASE OpenTry(t) \/ CloseTry(t)
  <2>1. CASE Finish(t, "ok") \/ Finish(t, "ko")
    BY <1>3, <1>5, <2>1
  <2>2. CASE Become(t, [th[t] EXCEPT !.cnt = @ + 1])
    <3>1. Same /\ th'[t].pc = th[t].pc
      BY <1>1, <1>2, <2>2 DEF Thread, Same
    <3> QED
      BY <1>6, <1>15, <3>1 DEF OpenTry, CloseTry, At, ReadNPC
  <2> QED
    BY <1>15, <2>1, <2>2 DEF OpenTry, CloseTry, Retry
<1>16. ASSUME NEW here \in {"readWait", "appWait", "updWait"},
              NEW there \in {"readLocked", "appLocked", "updApply"},
              WaitForFile(t, here, there)
       PROVE  Same /\ th[t].pc = here /\ th'[t].pc \in {here, there}
  <2>1. CASE Become(t, [th[t] EXCEPT !.cnt = @ + 1])
    BY <1>1, <1>2, <1>16, <2>1 DEF WaitForFile, Thread, Same, At
  <2>2. CASE Become(t, [th[t] EXCEPT !.pc = there, !.cnt = 0])
    BY <1>1, <1>2, <1>16, <2>2 DEF WaitForFile, Thread, Same, At
  <2> QED
    BY <1>16, <2>1, <2>2 DEF WaitForFile
<1>17. CASE ReadWait(t) \/ AppendWait(t) \/ UpdateWait(t)
  <2>1. CASE ReadWait(t)
    BY <1>6, <1>16, <2>1 DEF ReadWait, ReadNPC
  <2>2. CASE AppendWait(t)
    BY <1>6, <1>16, <2>2 DEF AppendWait, ReadNPC
  <2>3. CASE UpdateWait(t)
    BY <1>6, <1>16, <2>3 DEF UpdateWait, ReadNPC
  <2> QED
    BY <1>17, <2>1, <2>2, <2>3
<1>18. CASE AppendLocked(t)
  <2>1. CASE Owner(t) = th[t].client
    <3>1. Same /\ th'[t].pc = "updSize" /\ UNCHANGED storage
      BY <1>4, <1>18, <2>1 DEF AppendLocked
    <3> QED
      BY <1>18, <2>1, <3>1 DEF SameRequest, Entering, InUpdateFile, ReadNPC, Same, At
  <2>2. CASE Owner(t) # th[t].client
    BY <1>3, <1>5, <1>18, <2>2 DEF AppendLocked
  <2> QED
    BY <2>1, <2>2
<1>19. CASE UpdateSize(t)
  <2>1. th[t].pc = "updSize" /\ UNCHANGED storage
    BY <1>19 DEF UpdateSize, At
  <2>2. CASE Oversize(t) /\ ~node[th[t].file].modified
    <3>1. Same /\ th'[t].pc = "updReject"
      BY <1>4, <1>19, <2>2 DEF UpdateSize
    <3> QED
      BY <1>19, <2>1, <2>2, <3>1 DEF SameRequest, Entering, InUpdateFile, ReadNPC, Same, At
  <2>3. CASE ~(Oversize(t) /\ ~node[th[t].file].modified)
    <3>1. Same /\ th'[t].pc = "room"
      BY <1>4, <1>19, <2>3 DEF UpdateSize
    <3> QED
      BY <1>6, <2>1, <3>1 DEF ReadNPC
  <2> QED
    BY <2>2, <2>3
<1>20. CASE ReadNCount(t) \/ ReadNHead(t) \/ ReadNFile(t)
  <2>4. th[t].pc \in ReadNPC
    BY <1>20 DEF ReadNCount, ReadNHead, ReadNFile, ReadNPC, At
  <2>1. CASE ReadNCount(t)
    <3>1. Same /\ th'[t].pc = "readNHead"
      BY <1>1, <1>2, <2>1 DEF ReadNCount, Thread, Same
    <3> QED
      BY <1>6, <2>4, <3>1
  <2>2. CASE ReadNHead(t)
    <3>1. Same /\ th'[t].pc = "readNFile"
      BY <1>1, <1>2, <2>2 DEF ReadNHead, Thread, Same
    <3> QED
      BY <1>6, <2>4, <3>1
  <2>3. CASE ReadNFile(t)
    <3>1. \/ th'[t].pc \in {"ok", "ko"}
          \/ Same /\ th'[t].pc = "readNFile"
      <4>1. CASE Finish(t, "ok") \/ Finish(t, "ko")
        BY <1>3, <4>1
      <4>2. CASE Become(t, [th[t] EXCEPT !.cur = node[th[t].cur].son])
        BY <1>1, <1>2, <2>3, <4>2 DEF ReadNFile, Thread, Same, At
      <4>3. CASE Become(t, [th[t] EXCEPT !.cur = node[th[t].cur].son, !.n_read = @ - 1])
        <5> DEFINE r == [th[t] EXCEPT !.cur = node[th[t].cur].son, !.n_read = @ - 1]
        <5>1. /\ r.op = th[t].op /\ r.client = th[t].client /\ r.file = th[t].file
              /\ r.pc = th[t].pc
          BY <1>1 DEF Thread
        <5> HIDE DEF r
        <5>2. th'[t] = r /\ th[t].pc = "readNFile"
          BY <1>2, <2>3, <4>3 DEF ReadNFile, At, r
        <5> QED
          BY <5>1, <5>2 DEF Same
      <4> QED
        BY <2>3, <4>1, <4>2, <4>3 DEF ReadNFile
    <3> QED
      BY <1>5, <1>6, <2>4, <3>1
  <2> QED
    BY <1>20, <2>1, <2>2, <2>3
<1> QED
  BY <1>7, <1>8, <1>9, <1>10, <1>11, <1>12, <1>13, <1>14, <1>15, <1>17, <1>18, <1>19,
     <1>20 DEF Handler
==============================================================================
