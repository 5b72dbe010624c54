---------------------------- MODULE StorageWorkers ----------------------------
(***************************************************************************)
(* The worker threads of the server (threadF in includes/util_server.c)    *)
(* serving requests on the shared file storage: openFile with O_CREATE or  *)
(* O_OPEN, readFile, readNFiles, appendToFile and closeFile.               *)
(*                                                                         *)
(* A step of a thread is one critical section of storage->lock, or one     *)
(* read of shared memory the code makes without the lock.  Pointers found  *)
(* in one critical section are used in later ones.  A step that would      *)
(* dereference a pointer to a freed node (or NULL) is undefined behaviour: *)
(* the model stops there, and says so in the variable undefined.           *)
(***************************************************************************)
EXTENDS FileStorage

CONSTANTS
  Worker,      \* the worker threads, N_THREAD of them
  TIMER,       \* how often a wait loop tries before it gives up (30 in the code)
  Op,          \* the requests clients make, among AllOps
  AppendSize,  \* lengths of the contents clients append
  ReadCount,   \* the N of readNFiles
  Uninit       \* the value of a pointer nobody assigned

AllOps == {"create", "open", "read", "readN", "append", "close"}

ASSUME WorkersAssumption ==
  /\ IsFiniteSet(Worker)
  /\ TIMER \in Nat \ {0}
  /\ Op \subseteq AllOps
  /\ AppendSize \subseteq Nat
  /\ ReadCount \subseteq Nat
  /\ Uninit \notin Ptr

VARIABLES
  th,        \* th[t]: the request thread t serves and how far it got
  undefined  \* a freed or null pointer was dereferenced

vars == <<node, head, last, nfile_dispo, ram_dispo, th, undefined>>

(***************************************************************************)
(* The local state of a thread.  pc names the statement of the code:       *)
(*   search      searchFileNode                                            *)
(*   openTry     the loop that opens an existing file                      *)
(*   closeTry    the loop that closes a file                               *)
(*   readWait, readLocked      readFile                                    *)
(*   readNCount, readNHead, readNFile    readNFiles                        *)
(*   appWait, appLocked        appendToFile up to the call of UpdateFile   *)
(*   updSize, updReject, updWait, updApply    UpdateFile                   *)
(*   room, outer, load, inner, evict, final   the eviction loops, which    *)
(*                             insertCreateFile and UpdateFile each have   *)
(*   insLink     the last critical section of insertCreateFile             *)
(*   ok, ko      the answer, 0 or -1, is about to be sent                  *)
(***************************************************************************)
PC == {"idle", "search", "openTry", "closeTry", "readWait", "readLocked",
       "readNCount", "readNHead", "readNFile", "appWait", "appLocked",
       "updSize", "updReject", "updWait", "updApply",
       "room", "outer", "load", "inner", "evict", "final", "insLink", "ok", "ko"}

Thread == [pc      : PC,
           op      : AllOps \cup {"none"},
           client  : Client \cup {NoClient},
           path    : Path \cup {NULL},
           size    : Nat,                     \* size_buf
           file    : Ptr,                     \* file, file_read, file_node
           cur     : Ptr \cup {Uninit},       \* the node a scan is at
           nxt     : Ptr \cup {Uninit},       \* UpdateFile's current_file
           cnt     : 0 .. TIMER,
           n_read  : Int,
           check   : Int,
           evicted : BOOLEAN]                 \* buf_rm_path is not empty

Idle == [pc |-> "idle", op |-> "none", client |-> NoClient, path |-> NULL, size |-> 0,
         file |-> NULL, cur |-> NULL, nxt |-> Uninit, cnt |-> 0, n_read |-> 0,
         check |-> 0, evicted |-> FALSE]

TypeOK ==
  /\ StorageTypeOK
  /\ th \in [Worker -> Thread]
  /\ undefined \in BOOLEAN

Init ==
  /\ StorageInit
  /\ th = [t \in Worker |-> Idle]
  /\ undefined = FALSE

At(t, pc) == th[t].pc = pc

Owner(t) == node[th[t].file].fdClient_id

\* What a step of t does to the local state of t, and of t only.
Become(t, r) == th' = [th EXCEPT ![t] = r]

Goto(t, pc) == Become(t, [th[t] EXCEPT !.pc = pc])

\* The operation is over: only what the answer depends on is kept.
Finish(t, pc) ==
  Become(t, [Idle EXCEPT !.pc = pc, !.op = th[t].op, !.client = th[t].client,
                         !.size = th[t].size, !.evicted = th[t].evicted])

(***************************************************************************)
(* A thread pops a request.  The API is synchronous and the manager takes  *)
(* a client out of the select set until it is answered, so a client has    *)
(* one request at a time.                                                  *)
(***************************************************************************)
Waiting(c) == \E t \in Worker : th[t].client = c

Begin(t) ==
  /\ At(t, "idle")
  /\ \E op \in Op, c \in Client :
       /\ ~Waiting(c)
       /\ IF op = "readN"
          THEN \E n \in ReadCount :
                 Become(t, [Idle EXCEPT !.pc = "readNCount", !.op = op, !.client = c,
                                        !.n_read = n])
          ELSE \E p \in Path, s \in IF op = "append" THEN AppendSize ELSE {0} :
                 Become(t, [Idle EXCEPT !.pc = "search", !.op = op, !.client = c,
                                        !.path = p, !.size = s])
  /\ UNCHANGED <<storage, undefined>>

\* The answer is written and, through pipe_fd, the client is heard again.
Answer(t) ==
  /\ th[t].pc \in {"ok", "ko"}
  /\ Become(t, Idle)
  /\ UNCHANGED storage

(***************************************************************************)
(* The search every operation but readNFiles begins with.                  *)
(***************************************************************************)
\* Faulty variant: O_CREATE of a stored file creates it again.
FoundPCRecreates(op) ==
  CASE op = "create" -> "room"
    [] op = "open"   -> "openTry"
    [] op = "read"   -> "readWait"
    [] op = "append" -> "appWait"
    [] op = "close"  -> "closeTry"

FoundPC(op) ==
  CASE op = "open"   -> "openTry"
    [] op = "read"   -> "readWait"
    [] op = "append" -> "appWait"
    [] op = "close"  -> "closeTry"
    [] OTHER         -> "ko"

MissingPC(op) == IF op = "create" THEN "room" ELSE "ko"

Search(t) ==
  /\ At(t, "search")
  /\ LET f  == SearchFileNode(th[t].path)
         pc == IF f = NULL THEN MissingPC(th[t].op) ELSE FoundPC(th[t].op)
     IN IF pc = "ko" THEN Finish(t, "ko")
                     ELSE Become(t, [th[t] EXCEPT !.pc = pc, !.file = f])
  /\ UNCHANGED storage

(***************************************************************************)
(* The eviction loops of insertCreateFile and UpdateFile: the budget is    *)
(* read without the lock, each candidate is tried under it.                *)
(***************************************************************************)
\* Faulty variant: the last free slot or byte is given twice.
ScarceOffByOne(t) == IF th[t].op = "create" THEN nfile_dispo < 0
                                            ELSE ram_dispo - th[t].size < -1

Scarce(t) == IF th[t].op = "create" THEN nfile_dispo <= 0
                                    ELSE ram_dispo - th[t].size < 0

EnoughPC(t) == IF th[t].op = "create" THEN "insLink" ELSE "updWait"

Room(t) ==
  /\ At(t, "room")
  /\ Goto(t, IF Scarce(t) THEN "outer" ELSE EnoughPC(t))
  /\ UNCHANGED storage

\* Faulty variant: TIMER + 1 rounds.
OuterTestOffByOne(t) ==
  /\ At(t, "outer")
  /\ IF Scarce(t) /\ th[t].cnt <= TIMER
     THEN Goto(t, "load")
     ELSE Become(t, [th[t] EXCEPT !.pc = "final", !.nxt = Uninit, !.cnt = 0])
  /\ UNCHANGED storage

OuterTest(t) ==
  /\ At(t, "outer")
  /\ IF Scarce(t) /\ th[t].cnt < TIMER
     THEN Goto(t, "load")
     ELSE Become(t, [th[t] EXCEPT !.pc = "final", !.nxt = Uninit, !.cnt = 0])
  /\ UNCHANGED storage

LoadLast(t) ==
  /\ At(t, "load")
  /\ Become(t, [th[t] EXCEPT !.pc = "inner", !.cur = last])
  /\ UNCHANGED storage

\* Faulty variant: the rounds are not counted.
InnerTestNotCounting(t) ==
  /\ At(t, "inner")
  /\ IF th[t].cur # NULL /\ Scarce(t)
     THEN Goto(t, "evict")
     ELSE Become(t, [th[t] EXCEPT !.pc = "outer", !.cur = NULL])
  /\ UNCHANGED storage

InnerTest(t) ==
  /\ At(t, "inner")
  /\ IF th[t].cur # NULL /\ Scarce(t)
     THEN Goto(t, "evict")
     ELSE Become(t, [th[t] EXCEPT !.pc = "outer", !.cur = NULL, !.cnt = @ + 1])
  /\ UNCHANGED storage

\* insertCreateFile: on to the father, or where removeFile says.
EvictForCreate(t) ==
  LET c == th[t].cur IN
  /\ At(t, "evict")
  /\ th[t].op = "create"
  /\ \/ /\ Removable(c)
        /\ RemoveFile(c)
        /\ Become(t, [th[t] EXCEPT !.pc = "inner", !.cur = NextToScan(c), !.evicted = TRUE])
     \/ /\ ~Removable(c)
        /\ Become(t, [th[t] EXCEPT !.pc = "inner", !.cur = node[c].father])
        /\ UNCHANGED storage

\* What an unassigned pointer may hold: NULL, a node, or a wild address
\* (Uninit itself, which is never live).
Garbage == live \cup {NULL, Uninit}

\* UpdateFile: the father is overwritten by current_file, which only a
\* removal assigns.
EvictForAppend(t) ==
  LET c == th[t].cur IN
  /\ At(t, "evict")
  /\ th[t].op = "append"
  /\ \/ /\ Removable(c)
        /\ RemoveFile(c)
        /\ Become(t, [th[t] EXCEPT !.pc = "inner", !.cur = NextToScan(c),
                                   !.nxt = NextToScan(c), !.evicted = TRUE])
     \/ /\ ~Removable(c)
        /\ \E v \in IF th[t].nxt = Uninit THEN Garbage ELSE {th[t].nxt} :
             Become(t, [th[t] EXCEPT !.pc = "inner", !.cur = v, !.nxt = v])
        /\ UNCHANGED storage

FinalTest(t) ==
  /\ At(t, "final")
  /\ IF Scarce(t) THEN Finish(t, "ko") ELSE Goto(t, EnoughPC(t))
  /\ UNCHANGED storage

(***************************************************************************)
(* openFile: insertCreateFile's last critical section, or the attempts to  *)
(* open an existing file.                                                  *)
(***************************************************************************)
Named(n) ==
  \/ n \in {head, last}
  \/ \E m \in live : n \in {node[m].son, node[m].father}
  \/ \E t \in Worker : n \in {th[t].file, th[t].cur, th[t].nxt}

\* malloc: an address nothing refers to any more, so that a pointer to a
\* freed node stays recognisable.
FreshNode == {n \in NodeId \ live : ~Named(n)}

InsertLink(t) ==
  /\ At(t, "insLink")
  /\ FreshNode # {}
  /\ InsertFile(CHOOSE n \in FreshNode : TRUE, CreateFileNode(th[t].path, th[t].client))
  /\ Finish(t, "ok")

\* Faulty variant: the attempts are not counted.
RetryNotCounting(t) == UNCHANGED th

Retry(t) ==
  IF th[t].cnt + 1 < TIMER THEN Become(t, [th[t] EXCEPT !.cnt = @ + 1])
                           ELSE Finish(t, "ko")

OpenTry(t) ==
  /\ At(t, "openTry")
  /\ \/ /\ Owner(t) = NoClient
        /\ SetOwner(th[t].file, th[t].client)
        /\ Finish(t, "ok")
     \/ /\ Owner(t) # NoClient
        /\ Retry(t)
        /\ UNCHANGED storage

\* Faulty variant: anybody closes.
CloseTryAnyOwner(t) ==
  /\ At(t, "closeTry")
  /\ SetOwner(th[t].file, NoClient)
  /\ Finish(t, "ok")

CloseTry(t) ==
  /\ At(t, "closeTry")
  /\ \/ /\ Owner(t) = th[t].client
        /\ SetOwner(th[t].file, NoClient)
        /\ Finish(t, "ok")
     \/ /\ Owner(t) # th[t].client
        /\ Retry(t)
        /\ UNCHANGED storage

(***************************************************************************)
(* readFile and appendToFile wait, without the lock, for the file to be    *)
(* opened by their client, and look again under it.                        *)
(***************************************************************************)
WaitForFile(t, here, there) ==
  /\ At(t, here)
  /\ IF Owner(t) # th[t].client /\ th[t].cnt < TIMER
     THEN Become(t, [th[t] EXCEPT !.cnt = @ + 1])
     ELSE Become(t, [th[t] EXCEPT !.pc = there, !.cnt = 0])
  /\ UNCHANGED storage

ReadWait(t) == WaitForFile(t, "readWait", "readLocked")

ReadLocked(t) ==
  /\ At(t, "readLocked")
  /\ Finish(t, IF Owner(t) = th[t].client THEN "ok" ELSE "ko")
  /\ UNCHANGED storage

AppendWait(t) == WaitForFile(t, "appWait", "appLocked")

AppendLocked(t) ==
  /\ At(t, "appLocked")
  /\ IF Owner(t) = th[t].client THEN Goto(t, "updSize") ELSE Finish(t, "ko")
  /\ UNCHANGED storage

(***************************************************************************)
(* UpdateFile around its eviction loop.  A first content larger than the   *)
(* whole storage removes the file it was meant for.                        *)
(***************************************************************************)
Oversize(t) == MEM_SIZE - th[t].size < 0

UpdateSize(t) ==
  /\ At(t, "updSize")
  /\ Goto(t, IF Oversize(t) /\ ~node[th[t].file].modified THEN "updReject" ELSE "room")
  /\ UNCHANGED storage

UpdateReject(t) ==
  /\ At(t, "updReject")
  /\ RemoveFile(th[t].file)
  /\ Finish(t, "ko")

UpdateWait(t) == WaitForFile(t, "updWait", "updApply")

UpdateApply(t) ==
  /\ At(t, "updApply")
  /\ \/ /\ Owner(t) = th[t].client
        /\ AppendContent(th[t].file, th[t].size)
        /\ Finish(t, "ok")
     \/ /\ Owner(t) # th[t].client
        /\ Finish(t, "ko")
        /\ UNCHANGED storage

(***************************************************************************)
(* readNFiles: a scan from head, one critical section per file.            *)
(***************************************************************************)
ReadNCount(t) ==
  /\ At(t, "readNCount")
  /\ LET n == IF th[t].n_read = 0 THEN nfile_dispo ELSE th[t].n_read IN
       Become(t, [th[t] EXCEPT !.pc = "readNHead", !.n_read = n, !.check = n])
  /\ UNCHANGED storage

ReadNHead(t) ==
  /\ At(t, "readNHead")
  /\ Become(t, [th[t] EXCEPT !.pc = "readNFile", !.cur = head])
  /\ UNCHANGED storage

ReadNFile(t) ==
  LET c == th[t].cur IN
  /\ At(t, "readNFile")
  /\ \/ /\ c = NULL \/ th[t].n_read <= 0
        /\ Finish(t, IF th[t].n_read = th[t].check THEN "ko" ELSE "ok")
        /\ UNCHANGED storage
     \/ /\ c # NULL /\ th[t].n_read > 0
        /\ ~node[c].modified
        /\ Become(t, [th[t] EXCEPT !.cur = node[c].son])
        /\ UNCHANGED storage
     \/ /\ c # NULL /\ th[t].n_read > 0
        /\ node[c].modified
        /\ SetOwner(c, NoClient)
        /\ Become(t, [th[t] EXCEPT !.cur = node[c].son, !.n_read = @ - 1])

(***************************************************************************)
(* What the next step of t dereferences.                                   *)
(***************************************************************************)
WithNeighbour(n) == {n} \cup IF n \in live THEN Neighbour(n) ELSE {}

Touched(t) ==
  CASE At(t, "search") -> Scanned(th[t].path)
    [] At(t, "insLink") -> OldHead
    [] At(t, "evict") -> IF th[t].cur \in live /\ ~Removable(th[t].cur)
                         THEN {} ELSE WithNeighbour(th[t].cur)
    [] At(t, "updReject") -> WithNeighbour(th[t].file)
    [] At(t, "updSize") -> IF Oversize(t) THEN {th[t].file} ELSE {}
    [] At(t, "readNFile") -> IF th[t].cur # NULL /\ th[t].n_read > 0
                             THEN {th[t].cur} ELSE {}
    [] th[t].pc \in {"openTry", "closeTry", "readWait", "readLocked", "appWait",
                     "appLocked", "updWait", "updApply"} -> {th[t].file}
    [] OTHER -> {}

Safe(t) == Touched(t) \subseteq live

Handler(t) ==
  \/ Answer(t) \/ Search(t)
  \/ Room(t) \/ OuterTest(t) \/ LoadLast(t) \/ InnerTest(t)
  \/ EvictForCreate(t) \/ EvictForAppend(t) \/ FinalTest(t)
  \/ InsertLink(t) \/ OpenTry(t) \/ CloseTry(t)
  \/ ReadWait(t) \/ ReadLocked(t)
  \/ AppendWait(t) \/ AppendLocked(t)
  \/ UpdateSize(t) \/ UpdateReject(t) \/ UpdateWait(t) \/ UpdateApply(t)
  \/ ReadNCount(t) \/ ReadNHead(t) \/ ReadNFile(t)

Crash(t) ==
  /\ ~Safe(t)
  /\ undefined' = TRUE
  /\ UNCHANGED <<storage, th>>

\* One step of a thread that is serving a request.
Step(t) ==
  /\ ~undefined
  /\ \/ Safe(t) /\ Handler(t) /\ UNCHANGED undefined
     \/ Crash(t)

Stopped == undefined /\ UNCHANGED vars

Next ==
  \/ \E t \in Worker : Step(t)
  \/ \E t \in Worker : ~undefined /\ Begin(t)
  \/ Stopped

\* The scheduler and the mutexes are assumed fair to every thread that is
\* serving a request; no client has to make one.
Fairness == \A t \in Worker : WF_vars(Step(t))

Spec == Init /\ [][Next]_vars /\ Fairness
==============================================================================
