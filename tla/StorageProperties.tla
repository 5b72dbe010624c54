-------------------------- MODULE StorageProperties --------------------------
(***************************************************************************)
(* What the storage owes its users, stated over StorageWorkers.  The first *)
(* part holds of the code; the second states what comments, help texts and *)
(* headers of the repository say, which the code does not do.              *)
(***************************************************************************)
EXTENDS StorageWorkers, FiniteSetsExt

LargestFitting == Max({0} \cup {s \in AppendSize : s <= MEM_SIZE})

(***************************************************************************)
(* The budgets.                                                            *)
(***************************************************************************)

\* Through every creation, eviction and rejection, by any number of
\* threads, the slots in use are the files stored (nfile_dispo changes at
\* file_storage.c:103 and 184, the list elsewhere).
CountMatches == Cardinality(live) = N_FILE - nfile_dispo

\* The bytes in use are the sum of the sizes of the stored files, whoever
\* appends and evicts (file_storage.c:102 and 248-249).
RamMatches ==
  MapThenSumSet(LAMBDA n : node[n].file_sz, live) = MEM_SIZE - ram_dispo

\* insertCreateFile tests nfile_dispo without the lock and links under it
\* without looking again: the limit can be passed, by at most one file for
\* every thread but one.  With one thread it is never passed.
FileOvercommitBound == nfile_dispo >= 1 - Cardinality(Worker)

\* configuration.h:8: N_FILE is the "max number of possible file in storage".
\* So it is with one thread; two can pass it (FileOvercommitBound).
WithinFileLimit == Cardinality(live) <= N_FILE

\* UpdateFile does the same with ram_dispo: the memory can be overdrawn by
\* at most one content (that fits the storage) for every thread but one.
MemoryOvercommitBound == ram_dispo >= (1 - Cardinality(Worker)) * LargestFitting

(***************************************************************************)
(* The list.                                                               *)
(***************************************************************************)

\* Some stored file points at one that has been freed.
Torn == \E n \in live : ~({node[n].son, node[n].father} \subseteq live \cup {NULL})

WellFormed ==
  LET size == Cardinality(live) IN
  /\ {Chain[k] : k \in 0 .. size - 1} = live
  /\ Chain[size] = NULL
  /\ last = IF size = 0 THEN NULL ELSE Chain[size - 1]
  /\ \A n \in live : IF n = head THEN node[n].father = NULL
                                 ELSE /\ node[n].father \in live
                                      /\ node[node[n].father].son = n

\* head, last, son and father describe one doubly linked list of exactly
\* the stored files, under all insertions and removals at either end by
\* several threads; only the removal of a file in the middle breaks it
\* (file_storage.c:90-95), and then it stays broken.
ListShape == Torn \/ WellFormed

\* One thread alone dereferences a freed pointer for two reasons only: the
\* torn list, and the current_file UpdateFile reads before it assigns it.
\* No result of searchFileNode dangles.
UndefinedOnlyByListOrUninit ==
  undefined =>
    \/ Torn
    \/ \E t \in Worker : At(t, "evict") /\ th[t].op = "append" /\ ~th[t].evicted

(***************************************************************************)
(* Who may touch an open file.                                             *)
(***************************************************************************)

\* A file leaves the storage only closed and written, or because the one
\* client that has it open appended more than the storage can ever hold.
\* The test of appendToFile and the removal in UpdateFile are two critical
\* sections: no step of another thread between them changes this.
RemovalRespectsHolder ==
  [][\A n \in live \ live' :
       \/ node[n].fdClient_id = NoClient /\ node[n].modified
       \/ \E t \in Worker : /\ At(t, "updReject")
                            /\ th[t].file = n
                            /\ th[t].client = node[n].fdClient_id]_vars

\* An open file is let go by a closeFile of its own client or by a
\* readNFiles, and never passes from one client to another directly.
ReleasedByCloseOrReadN ==
  [][\A n \in live \cap live' :
       LET c == node[n].fdClient_id IN
       c # NoClient /\ node'[n].fdClient_id # c =>
         /\ node'[n].fdClient_id = NoClient
         /\ \E t \in Worker : \/ At(t, "closeTry") /\ th[t].client = c
                              \/ At(t, "readNFile") /\ th[t].cur = n]_vars

InUpdateFile(t) ==
  /\ th[t].op = "append"
  /\ th[t].pc \in {"updSize", "updReject", "room", "outer", "load", "inner",
                   "evict", "final", "updWait", "updApply"}

\* While UpdateFile makes room, without the lock, its own file is neither
\* evicted nor closed by the other threads, as long as nobody calls
\* readNFiles.
AppendTargetHeld ==
  \A t \in Worker : InUpdateFile(t) /\ ~undefined =>
    /\ th[t].file \in live
    /\ Owner(t) = th[t].client

\* No two stored files have the same name.  With one thread searchFileNode
\* and insertCreateFile cannot be separated by another creation.
UniquePaths ==
  \A m, n \in live : node[m].pathname = node[n].pathname => m = n

(***************************************************************************)
(* The table the clients see.                                              *)
(***************************************************************************)
ServedBy(c) == CHOOSE t \in Worker : th[t].client = c

\* The storage without its list.
AbstractFiles ==
  [n \in live |-> [path |-> node[n].pathname, owner |-> node[n].fdClient_id,
                   size |-> node[n].file_sz, written |-> node[n].modified]]

\* A request, its statement abstracted to whether it has been answered.
AbstractAsk(r) ==
  IF r.pc \in {"ok", "ko"}
  THEN [op |-> r.op, path |-> NULL, size |-> 0, state |-> r.pc,
        evicted |-> r.evicted, sent |-> FALSE]
  ELSE [op |-> r.op, path |-> r.path, size |-> r.size, state |-> "pending",
        evicted |-> r.evicted, sent |-> r.n_read < r.check]

NoRequest == [op |-> "none", path |-> NULL, size |-> 0, state |-> "none",
              evicted |-> FALSE, sent |-> FALSE]

AbstractAsks ==
  [c \in Client |-> IF Waiting(c) THEN AbstractAsk(th[ServedBy(c)]) ELSE NoRequest]

Table == INSTANCE FileTable WITH
           FileId <- NodeId, Size <- AppendSize \cup {0},
           files <- AbstractFiles, asks <- AbstractAsks

\* Threads, locks and evictions between two critical sections included,
\* every answer a client gets is one the table of module FileTable gives:
\* an answer 0 stands for one step on one file its path means, that the
\* client had open where it must.
ImplementsTable == Table!TableSpec

(***************************************************************************)
(* Progress.                                                               *)
(***************************************************************************)
Answered(t, ops) ==
  th[t].op \in ops ~> (At(t, "idle") \/ undefined)

\* openFile of an existing file, readFile and closeFile are answered by a
\* thread that is scheduled: the attempts to get the file, or to find it
\* open, end after TIMER rounds, however the other threads open and close
\* the file between two of them.
WaitsGiveUp == \A t \in Worker : Answered(t, {"open", "read", "close"})

\* With one thread the scans of the list come to an end: the nested eviction
\* loops of an openFile that creates, of which only the outer is counted,
\* and the one of readNFiles.
ScansEnd == \A t \in Worker : Answered(t, {"create", "readN"})

(***************************************************************************)
(* What the repository says and the code does not do.                      *)
(***************************************************************************)

\* file_storage.c:59: removeFile "removes the file from storage and updates
\* the storage": no stored file goes on pointing at a removed one.
RemovedIsUnlinked == ~Torn

\* file_storage.c:216: "'cnt' is necessary to prevent the cycle from going
\* to infinity": the eviction cycle of UpdateFile ends.  Only a cycle that
\* has removed a file is asked to, so that current_file is initialised.
EvictionCycleEnds ==
  \A t \in Worker : (InUpdateFile(t) /\ At(t, "evict") /\ th[t].evicted)
                      ~> (th[t].pc \notin {"inner", "evict"} \/ undefined)

\* file_storage.h:11: pathname is the "absolute path of file, key id": the
\* file searchFileNode finds is the one asked for.
SearchFindsKey ==
  \A t \in Worker : th[t].file \in live => node[th[t].file].pathname = th[t].path
==============================================================================
