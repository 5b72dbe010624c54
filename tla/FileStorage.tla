----------------------------- MODULE FileStorage -----------------------------
(***************************************************************************)
(* The file storage of the server (includes/file_storage.c and .h): a heap *)
(* of file nodes, the doubly linked list that holds the stored files       *)
(* (newest at head, eviction starts at last), and the two budgets the      *)
(* configuration gives it, a number of files and a number of bytes.        *)
(*                                                                         *)
(* This module has the state and what each critical section of             *)
(* storage->lock does to it; StorageWorkers has the threads that run them. *)
(*                                                                         *)
(* The heap is a function whose domain is the set of nodes that are        *)
(* malloc'ed, linked and not yet freed.  A pointer is a node name or NULL; *)
(* it may be dereferenced only while it is in that domain.                 *)
(***************************************************************************)
EXTENDS Integers, FiniteSets

CONSTANTS
  NodeId,    \* addresses malloc may return for a struct node
  Client,    \* file descriptors of connected clients
  Path,      \* absolute paths
  Matches,   \* the <<stored, asked>> pairs where asked is a prefix of stored
  N_FILE,    \* nfile_tot: files the configuration allows
  MEM_SIZE,  \* ram_tot: bytes the configuration allows
  NULL,      \* the null pointer (and no path)
  NoClient   \* fdClient_id = -1: the file is closed

ASSUME StorageAssumption ==
  /\ IsFiniteSet(NodeId)
  /\ NULL \notin NodeId \cup Path
  /\ NoClient \notin Client
  /\ Matches \subseteq Path \X Path
  /\ N_FILE \in Nat \ {0}
  /\ MEM_SIZE \in Nat \ {0}

VARIABLES
  node,         \* the live nodes: DOMAIN node -> Node
  head,         \* first file of the list, NULL when empty
  last,         \* last file of the list, NULL when empty
  nfile_dispo,  \* file slots still free
  ram_dispo     \* bytes still free

storage == <<node, head, last, nfile_dispo, ram_dispo>>

live == DOMAIN node

Ptr == NodeId \cup {NULL}

\* struct node, its content abstracted to its length.
Node == [pathname    : Path,
         file_sz     : Nat,
         fdClient_id : Client \cup {NoClient},
         modified    : BOOLEAN,
         son         : Ptr,
         father      : Ptr]

StorageTypeOK ==
  /\ live \subseteq NodeId
  /\ node \in [live -> Node]
  /\ head \in Ptr
  /\ last \in Ptr
  /\ nfile_dispo \in Int
  /\ ram_dispo \in Int

\* createStorage
StorageInit ==
  /\ node = [n \in {} |-> NULL]
  /\ head = NULL
  /\ last = NULL
  /\ nfile_dispo = N_FILE
  /\ ram_dispo = MEM_SIZE

(***************************************************************************)
(* searchFileNode: from head, follow son for as many nodes as the counters *)
(* say are stored; the first whose pathname starts with the asked one is   *)
(* the answer.                                                             *)
(***************************************************************************)
Chain[k \in Nat] ==
  IF k = 0 THEN head
  ELSE LET n == Chain[k - 1] IN IF n \in live THEN node[n].son ELSE NULL

\* Faulty variant: one node too many.
PositionsOneTooMany == 0 .. N_FILE - nfile_dispo

Positions == 0 .. N_FILE - nfile_dispo - 1

Hits(p) == {k \in Positions : /\ Chain[k] \in live
                              /\ <<node[Chain[k]].pathname, p>> \in Matches}

\* The nodes the scan reads: it stops at the first hit.
Scanned(p) == {Chain[k] : k \in {i \in Positions : \A h \in Hits(p) : i <= h}}

\* The first of them: a singleton, or empty when nothing is found.
FirstHit(p) == {Chain[k] : k \in {i \in Hits(p) : \A h \in Hits(p) : i <= h}}

SearchFileNode(p) ==
  IF FirstHit(p) = {} THEN NULL ELSE CHOOSE n \in FirstHit(p) : TRUE

(***************************************************************************)
(* createFileNode and the linking half of insertCreateFile.                *)
(***************************************************************************)
CreateFileNode(p, c) ==
  [pathname |-> p, file_sz |-> 0, fdClient_id |-> c, modified |-> FALSE,
   son |-> NULL, father |-> NULL]

\* The old head, whose father pointer the new node is written into.
OldHead == IF head = NULL /\ last = NULL THEN {} ELSE {head}

\* Faulty variant: the old head does not learn of its new father.
LinkAtHeadOneWay(n, new) ==
  node' = [m \in live \cup {n} |-> IF m = n THEN [new EXCEPT !.son = head] ELSE node[m]]

LinkAtHead(n, new) ==
  node' = [m \in live \cup {n} |->
             IF m = n THEN [new EXCEPT !.son = head]
             ELSE IF m = head THEN [node[m] EXCEPT !.father = n]
             ELSE node[m]]

InsertFile(n, new) ==
  /\ LinkAtHead(n, new)
  /\ head' = n
  /\ last' = IF head = NULL /\ last = NULL THEN n ELSE last
  /\ nfile_dispo' = nfile_dispo - 1
  /\ UNCHANGED ram_dispo

(***************************************************************************)
(* removeFile: only a closed file that has been written may go.  A node in *)
(* the middle of the list has its own two pointers overwritten, and its    *)
(* neighbours keep pointing at it.                                         *)
(***************************************************************************)
\* Faulty variant: an open file may go.
RemovableEvenIfOpen(n) == node[n].modified

Removable(n) ==
  /\ node[n].fdClient_id = NoClient
  /\ node[n].modified

IsLast(n) == node[n].son = NULL
IsHead(n) == node[n].father = NULL

\* The neighbour removeFile writes into.
Neighbour(n) ==
  CASE IsLast(n) /\ ~IsHead(n) -> {node[n].father}
    [] IsHead(n) /\ ~IsLast(n) -> {node[n].son}
    [] OTHER                   -> {}

\* *current_file after a removal: where the caller's scan goes on.
NextToScan(n) ==
  CASE IsLast(n) -> node[n].father
    [] IsHead(n) -> NULL
    [] OTHER     -> node[n].son

\* Faulty variant: last is not moved.
UnlinkKeepsLast(n) ==
  /\ node' = [m \in live \ {n} |->
                CASE IsLast(n) /\ m = node[n].father -> [node[m] EXCEPT !.son = NULL]
                  [] IsHead(n) /\ m = node[n].son    -> [node[m] EXCEPT !.father = NULL]
                  [] OTHER                           -> node[m]]
  /\ head' = IF IsHead(n) THEN node[n].son ELSE head
  /\ UNCHANGED last

Unlink(n) ==
  /\ node' = [m \in live \ {n} |->
                CASE IsLast(n) /\ m = node[n].father -> [node[m] EXCEPT !.son = NULL]
                  [] IsHead(n) /\ m = node[n].son    -> [node[m] EXCEPT !.father = NULL]
                  [] OTHER                           -> node[m]]
  /\ head' = IF IsHead(n) THEN node[n].son ELSE head
  /\ last' = IF IsLast(n) THEN node[n].father ELSE last

\* Faulty variants: one budget is not given back.
ReleaseForgetsSlot(n) ==
  /\ ram_dispo' = ram_dispo + node[n].file_sz
  /\ UNCHANGED nfile_dispo

ReleaseForgetsBytes(n) ==
  /\ nfile_dispo' = nfile_dispo + 1
  /\ UNCHANGED ram_dispo

Release(n) ==
  /\ ram_dispo' = ram_dispo + node[n].file_sz
  /\ nfile_dispo' = nfile_dispo + 1

RemoveFile(n) == Unlink(n) /\ Release(n)

\* Assignment to one field of a live node, under the lock or not.
SetOwner(n, c) ==
  /\ node' = [node EXCEPT ![n].fdClient_id = c]
  /\ UNCHANGED <<head, last, nfile_dispo, ram_dispo>>

\* The write at the end of UpdateFile.
AppendContent(n, size) ==
  /\ node' = [node EXCEPT ![n] = [node[n] EXCEPT !.file_sz = @ + size, !.modified = TRUE]]
  /\ ram_dispo' = ram_dispo - size
  /\ UNCHANGED <<head, last, nfile_dispo>>
==============================================================================
