---------------------------- MODULE StorageProofs ----------------------------
(***************************************************************************)
(* What is proved of the storage and its worker threads for every number   *)
(* of threads, clients, files and bytes.                                   *)
(***************************************************************************)
EXTENDS StorageLemmas, WellFoundedInduction

(***************************************************************************)
(* Type correctness.                                                       *)
(***************************************************************************)
TypeInv == Typed /\ undefined \in BOOLEAN

\* A step of the specification is a handler of a thread, a crash, a new
\* request, or nothing.
LEMMA NextCases ==
  ASSUME [Next]_vars
  PROVE  \/ \E t \in Worker : Safe(t) /\ Handler(t) /\ UNCHANGED undefined
         \/ \E t \in Worker : Begin(t)
         \/ UNCHANGED <<storage, th>> /\ undefined' \in {undefined, TRUE}
BY DEF Next, Step, Crash, Stopped, vars, storage

\* The server starts well typed.
LEMMA TypeInit == ASSUME StorageAssumption, WorkersAssumption, Init PROVE TypeInv
<1>1. StorageTypeOK
  BY DEF Init, StorageInit, StorageTypeOK, StorageAssumption, live, Ptr
<1>2. ThreadOK(Idle)
  BY IdleOK
<1> QED
  BY <1>1, <1>2 DEF Init, TypeInv, Typed, ThreadOK

\* Every step keeps the types.
LEMMA TypeNext ==
  ASSUME StorageAssumption, WorkersAssumption, TypeInv, [Next]_vars
  PROVE  TypeInv'
<1> USE DEF TypeInv, Typed
<1>1. CASE \E t \in Worker : Safe(t) /\ Handler(t) /\ UNCHANGED undefined
  <2>1. PICK t \in Worker : Safe(t) /\ Handler(t) /\ UNCHANGED undefined
    BY <1>1
  <2>2. StorageTypeOK' /\ Local(t)
    BY <2>1, HandlerLemma DEF Keeps
  <2> QED
    BY <2>1, <2>2 DEF Local, ThreadOK
<1>2. CASE \E t \in Worker : Begin(t)
  <2>1. PICK t \in Worker : Begin(t)
    BY <1>2
  <2> QED
    BY <2>1, BeginLemma DEF ThreadOK
<1>3. CASE UNCHANGED <<storage, th>> /\ undefined' \in {undefined, TRUE}
  BY <1>3, UnchangedStorage DEF ThreadOK
<1> QED
  BY <1>1, <1>2, <1>3, NextCases

\* TypeOK and what makes it inductive.
LEMMA TypeInvariant == Spec => []TypeInv
<1>1. Init => TypeInv
  BY TypeInit, StorageAssumption, WorkersAssumption
<1>2. TypeInv /\ [Next]_vars => TypeInv'
  BY TypeNext, StorageAssumption, WorkersAssumption
<1> QED
  BY <1>1, <1>2, PTL DEF Spec

\* Every reachable state is well typed: the pointers of the list and of the
\* threads are node names or NULL, an attempt counter never passes TIMER
\* (file_storage.c:153, 218; util_server.c:206, 246, 324, 374), and a thread
\* that serves a request has a client.
THEOREM TypeCorrect == Spec => []TypeOK
<1>1. TypeInv => TypeOK
  BY DEF TypeInv, Typed, TypeOK
<1> QED
  BY <1>1, TypeInvariant, PTL

(***************************************************************************)
(* The number of files.                                                    *)
(***************************************************************************)

\* What a handler does to the set of files and to the free slots.
LEMMA FilesLemma ==
  ASSUME StorageAssumption, StorageTypeOK, NEW t \in Worker, ThreadOK(th[t]), Changes(t)
  PROVE  \/ live' = live /\ nfile_dispo' = nfile_dispo
         \/ \E n \in live : live' = live \ {n} /\ nfile_dispo' = nfile_dispo + 1
         \/ /\ At(t, "insLink")
            /\ \E n \in NodeId \ live : live' = live \cup {n} /\ nfile_dispo' = nfile_dispo - 1
<1>1. CASE UNCHANGED storage
  BY <1>1, UnchangedStorage
<1>2. CASE Removes(t)
  BY <1>2, RemoveFileLemma DEF Removes
<1>3. CASE Inserts(t)
  <2>1. th[t].client \in Client /\ th[t].path \in Path
    BY <1>3 DEF Inserts, At, ThreadOK, NeedsPath
  <2>2. FreshNode \subseteq NodeId \ live
    BY DEF FreshNode
  <2> QED
    BY <1>3, <2>1, <2>2, InsertFileLemma DEF Inserts
<1>4. CASE Opens(t) \/ Closes(t) \/ Reads(t)
  <2>1. PICK n \in live, c \in Client \cup {NoClient} : SetOwner(n, c)
    BY <1>4 DEF Opens, Closes, Reads, ThreadOK, Thread
  <2> QED
    BY <2>1, SetOwnerLemma
<1>5. CASE Appends(t)
  <2>1. th[t].size \in Nat
    BY DEF ThreadOK, Thread
  <2> QED
    BY <1>5, <2>1, AppendContentLemma DEF Appends
<1> QED
  BY <1>1, <1>2, <1>3, <1>4, <1>5 DEF Changes

\* Every step keeps the files and the free slots in balance.
LEMMA CountNext ==
  ASSUME StorageAssumption, WorkersAssumption, TypeInv, CountMatches, [Next]_vars
  PROVE  CountMatches'
<1> USE DEF TypeInv, Typed
<1>1. IsFiniteSet(live) /\ Cardinality(live) \in Nat /\ nfile_dispo \in Int /\ N_FILE \in Nat
  BY FS_Subset, FS_CardinalityType DEF StorageTypeOK, StorageAssumption
<1>2. CASE \E t \in Worker : Safe(t) /\ Handler(t) /\ UNCHANGED undefined
  <2>1. PICK t \in Worker : Changes(t)
    BY <1>2, HandlerLemma
  <2>2. CASE live' = live /\ nfile_dispo' = nfile_dispo
    BY <2>2 DEF CountMatches
  <2>3. CASE \E n \in live : live' = live \ {n} /\ nfile_dispo' = nfile_dispo + 1
    <3>1. PICK n \in live : live' = live \ {n} /\ nfile_dispo' = nfile_dispo + 1
      BY <2>3
    <3>2. Cardinality(live') = Cardinality(live) - 1
      BY <1>1, <3>1, FS_RemoveElement
    <3> QED
      BY <1>1, <3>1, <3>2 DEF CountMatches
  <2>4. CASE \E n \in NodeId \ live : live' = live \cup {n} /\ nfile_dispo' = nfile_dispo - 1
    <3>1. PICK n \in NodeId \ live : live' = live \cup {n} /\ nfile_dispo' = nfile_dispo - 1
      BY <2>4
    <3>2. Cardinality(live') = Cardinality(live) + 1
      BY <1>1, <3>1, FS_AddElement
    <3> QED
      BY <1>1, <3>1, <3>2 DEF CountMatches
  <2> QED
    BY <2>1, <2>2, <2>3, <2>4, FilesLemma
<1>3. CASE UNCHANGED storage
  BY <1>3, UnchangedStorage DEF CountMatches
<1>4. CASE \E t \in Worker : Begin(t)
  BY <1>3, <1>4 DEF Begin
<1> QED
  BY <1>2, <1>3, <1>4, NextCases

\* The free slots and the stored files always add up to the configured
\* number of files, through every insertion, eviction and rejection by any
\* number of threads (file_storage.c:103 and 184).
THEOREM CountCorrect == Spec => []CountMatches
<1>1. Init => CountMatches
  BY StorageAssumption, FS_EmptySet DEF Init, StorageInit, CountMatches, live, StorageAssumption
<1>2. TypeInv /\ CountMatches /\ [Next]_vars => CountMatches'
  BY CountNext, StorageAssumption, WorkersAssumption
<1> QED
  BY <1>1, <1>2, TypeInvariant, PTL DEF Spec

(***************************************************************************)
(* The limit on the number of files.  A thread at insLink has seen a free  *)
(* slot that another thread may have taken since: the bound on the         *)
(* overcommitment is inductive when the threads at insLink are counted in. *)
(***************************************************************************)
Linking == {t \in Worker : At(t, "insLink")}

FileBoundInv == nfile_dispo >= 1 - Cardinality(Worker) + Cardinality(Linking)

\* The threads at insLink after a step, when those before are known.
LEMMA LinkingLemma ==
  ASSUME WorkersAssumption
  PROVE  /\ Cardinality(Worker) \in Nat
         /\ Cardinality(Linking) \in Nat /\ Cardinality(Linking) <= Cardinality(Worker)
         /\ Cardinality(Linking') \in Nat /\ Cardinality(Linking') <= Cardinality(Worker)
         /\ Linking' \subseteq Linking => Cardinality(Linking') <= Cardinality(Linking)
         /\ \A t \in Linking : Linking' = Linking \ {t} =>
              Cardinality(Linking') = Cardinality(Linking) - 1
<1>1. Linking \subseteq Worker /\ Linking' \subseteq Worker /\ IsFiniteSet(Worker)
  BY DEF Linking, WorkersAssumption
<1>2. IsFiniteSet(Linking) /\ IsFiniteSet(Linking')
  BY <1>1, FS_Subset
<1>3. \A t \in Linking : Cardinality(Linking \ {t}) = Cardinality(Linking) - 1
  BY <1>2, FS_RemoveElement
<1> QED
  BY <1>1, <1>2, <1>3, FS_Subset, FS_CardinalityType

\* Every step keeps the bound.
LEMMA FileBoundNext ==
  ASSUME StorageAssumption, WorkersAssumption, TypeInv, FileBoundInv, [Next]_vars
  PROVE  FileBoundInv'
<1> USE DEF TypeInv, Typed
<1>1. nfile_dispo \in Int
  BY DEF StorageTypeOK
<1>2. CASE \E t \in Worker : Safe(t) /\ Handler(t) /\ UNCHANGED undefined
  <2>1. PICK t \in Worker : Safe(t) /\ Handler(t)
    BY <1>2
  <2>2. Keeps(t) /\ Changes(t) /\ Entering(t)
    BY <2>1, HandlerLemma, EnteringLemma
  <2>3. \A u \in Worker \ {t} : th'[u] = th[u]
    BY <2>2 DEF Keeps, Local
  <2>4. CASE th'[t].pc = "insLink"
    <3>1. nfile_dispo > 0 /\ nfile_dispo' = nfile_dispo
      BY <2>2, <2>4 DEF Entering, storage
    <3> QED
      BY <1>1, <3>1, LinkingLemma DEF FileBoundInv
  <2>5. CASE th'[t].pc # "insLink"
    <3>1. Linking' = Linking \ {t}
      BY <2>3, <2>5 DEF Linking, At
    <3>2. nfile_dispo' >= nfile_dispo \/ (nfile_dispo' = nfile_dispo - 1 /\ t \in Linking)
      BY <1>1, <2>2, FilesLemma DEF Linking
    <3>3. CASE nfile_dispo' >= nfile_dispo /\ nfile_dispo' \in Int
      <4>1. Linking' \subseteq Linking
        BY <3>1
      <4> QED
        BY <1>1, <3>3, <4>1, LinkingLemma DEF FileBoundInv
    <3>4. CASE nfile_dispo' = nfile_dispo - 1 /\ t \in Linking
      <4>1. Cardinality(Linking') = Cardinality(Linking) - 1
        BY <3>1, <3>4, LinkingLemma
      <4> QED
        BY <1>1, <3>4, <4>1, LinkingLemma DEF FileBoundInv
    <3>5. nfile_dispo' \in Int
      BY <2>2 DEF Keeps, StorageTypeOK
    <3> QED
      BY <3>2, <3>3, <3>4, <3>5
  <2> QED
    BY <2>4, <2>5
<1>3. CASE \E t \in Worker : Begin(t)
  <2>1. PICK t \in Worker : Begin(t)
    BY <1>3
  <2>2. /\ nfile_dispo' = nfile_dispo
        /\ th'[t].pc # "insLink"
        /\ \A u \in Worker \ {t} : th'[u] = th[u]
    BY <2>1, BeginLemma DEF storage
  <2>3. Linking' \subseteq Linking
    BY <2>2 DEF Linking, At
  <2> QED
    BY <1>1, <2>2, <2>3, LinkingLemma DEF FileBoundInv
<1>4. CASE UNCHANGED <<storage, th>>
  BY <1>4 DEF FileBoundInv, Linking, At, storage
<1> QED
  BY <1>2, <1>3, <1>4, NextCases

\* The server starts within the bound.
LEMMA FileBoundInit == ASSUME StorageAssumption, WorkersAssumption, Init PROVE FileBoundInv
<1>1. nfile_dispo \in Nat \ {0}
  BY DEF Init, StorageInit, StorageAssumption
<1>2. Linking = {}
  BY DEF Init, Linking, At, Idle
<1>3. Cardinality(Linking) = 0
  BY <1>2, FS_EmptySet
<1> QED
  BY <1>1, <1>3, LinkingLemma DEF FileBoundInv

\* The configured number of files is passed by at most one file for every
\* thread but one, although insertCreateFile tests nfile_dispo without the
\* lock and links without testing again (file_storage.c:147-185).
THEOREM FileBoundCorrect == Spec => []FileOvercommitBound
<1>1. Init => FileBoundInv
  BY FileBoundInit, StorageAssumption, WorkersAssumption
<1>2. TypeInv /\ FileBoundInv /\ [Next]_vars => FileBoundInv'
  BY FileBoundNext, StorageAssumption, WorkersAssumption
<1>3. TypeInv /\ FileBoundInv => FileOvercommitBound
  BY LinkingLemma, WorkersAssumption DEF TypeInv, Typed, StorageTypeOK, FileBoundInv,
     FileOvercommitBound
<1> QED
  BY <1>1, <1>2, <1>3, TypeInvariant, PTL DEF Spec

\* With one worker thread, as in config.txt, the limit is kept.
THEOREM OneThreadKeepsFileLimit ==
  ASSUME Cardinality(Worker) = 1
  PROVE  Spec => []WithinFileLimit
<1>1. TypeInv /\ CountMatches /\ FileOvercommitBound => WithinFileLimit
  <2> SUFFICES ASSUME TypeInv, CountMatches, FileOvercommitBound PROVE WithinFileLimit
    OBVIOUS
  <2>1. nfile_dispo \in Int /\ N_FILE \in Nat
    BY StorageAssumption DEF StorageAssumption, TypeInv, Typed, StorageTypeOK
  <2> QED
    BY <2>1 DEF CountMatches, FileOvercommitBound, WithinFileLimit
<1> QED
  BY <1>1, TypeInvariant, CountCorrect, FileBoundCorrect, PTL

(***************************************************************************)
(* Who may touch an open file.  A client has one request at a time, and    *)
(* UpdateFile, which appendToFile calls after it has released the lock,    *)
(* still finds a file nobody wrote to in the hands of its client.          *)
(***************************************************************************)
OneRequest ==
  \A t, u \in Worker : t # u /\ th[t].client = th[u].client => th[t].client = NoClient

Hold(t) ==
  /\ At(t, "updSize") /\ th[t].file \in live /\ ~node[th[t].file].modified
       => Owner(t) = th[t].client
  /\ At(t, "updReject") /\ th[t].file \in live
       => Owner(t) = th[t].client /\ ~node[th[t].file].modified

HolderInv == OneRequest /\ \A t \in Worker : Hold(t)

\* What a handler leaves of the fields of the other files.
LEMMA FieldsLemma ==
  ASSUME StorageAssumption, StorageTypeOK, NEW t \in Worker, ThreadOK(th[t]), Changes(t)
  PROVE  \A m \in live \cap live' :
           \/ /\ node'[m].fdClient_id = node[m].fdClient_id
              /\ node'[m].modified = node[m].modified
           \/ /\ node[m].fdClient_id = NoClient
              /\ node'[m].modified = node[m].modified
              /\ Opens(t)
           \/ /\ node[m].fdClient_id = th[t].client
              /\ node'[m].fdClient_id = NoClient
              /\ node'[m].modified = node[m].modified
              /\ At(t, "closeTry")
           \/ /\ node[m].modified /\ node'[m].modified
              /\ node'[m].fdClient_id = NoClient
              /\ At(t, "readNFile") /\ th[t].cur = m
           \/ /\ node[m].fdClient_id = th[t].client
              /\ node'[m].fdClient_id = th[t].client
              /\ node'[m].modified
<1>1. CASE UNCHANGED storage
  BY <1>1, UnchangedStorage
<1>2. CASE Removes(t)
  BY <1>2, RemoveFileLemma DEF Removes
<1>3. CASE Inserts(t)
  <2>1. th[t].client \in Client /\ th[t].path \in Path
    BY <1>3 DEF Inserts, At, ThreadOK, NeedsPath
  <2>2. FreshNode \subseteq NodeId \ live
    BY DEF FreshNode
  <2> QED
    BY <1>3, <2>1, <2>2, InsertFileLemma DEF Inserts
<1>4. CASE Opens(t)
  <2>1. th[t].client \in Client \cup {NoClient}
    BY DEF ThreadOK, Thread
  <2> QED
    BY <1>4, <2>1, SetOwnerLemma DEF Opens, Owner
<1>5. CASE Closes(t)
  BY <1>5, SetOwnerLemma DEF Closes, Owner
<1>6. CASE Reads(t)
  BY <1>6, SetOwnerLemma DEF Reads
<1>7. CASE Appends(t)
  <2>1. th[t].size \in Nat
    BY DEF ThreadOK, Thread
  <2> QED
    BY <1>7, <2>1, AppendContentLemma DEF Appends, Owner
<1> QED
  BY <1>1, <1>2, <1>3, <1>4, <1>5, <1>6, <1>7 DEF Changes

\* A handler of t brings no file to life under the pointer of another thread.
LEMMA FreshLemma ==
  ASSUME StorageAssumption, StorageTypeOK, NEW t \in Worker, ThreadOK(th[t]), Changes(t),
         NEW u \in Worker, th[u].file \in live'
  PROVE  th[u].file \in live
<1>1. CASE Inserts(t)
  <2>1. th[t].client \in Client /\ th[t].path \in Path
    BY <1>1 DEF Inserts, At, ThreadOK, NeedsPath
  <2>2. PICK n \in FreshNode : InsertFile(n, CreateFileNode(th[t].path, th[t].client))
    BY <1>1 DEF Inserts
  <2>3. n \in NodeId \ live /\ n # th[u].file
    BY DEF FreshNode, Named
  <2> QED
    BY <2>1, <2>2, <2>3, InsertFileLemma
<1>2. CASE Removes(t)
  BY <1>2, RemoveFileLemma DEF Removes
<1>3. CASE UNCHANGED storage
  BY <1>3, UnchangedStorage
<1>4. CASE Opens(t) \/ Closes(t) \/ Reads(t)
  <2>1. PICK n \in live, c \in Client \cup {NoClient} : SetOwner(n, c)
    BY <1>4 DEF Opens, Closes, Reads, ThreadOK, Thread
  <2> QED
    BY <2>1, SetOwnerLemma
<1>5. CASE Appends(t)
  <2>1. th[t].size \in Nat
    BY DEF ThreadOK, Thread
  <2> QED
    BY <1>5, <2>1, AppendContentLemma DEF Appends
<1> QED
  BY <1>1, <1>2, <1>3, <1>4, <1>5 DEF Changes

\* Every step leaves a client with one request.
LEMMA OneRequestNext ==
  ASSUME StorageAssumption, WorkersAssumption, TypeInv, OneRequest, [Next]_vars
  PROVE  OneRequest'
<1>1. CASE \E t \in Worker : Safe(t) /\ Handler(t) /\ UNCHANGED undefined
  BY <1>1, HandlerLemma DEF Keeps, Local, OneRequest, TypeInv
<1>2. CASE \E t \in Worker : Begin(t)
  BY <1>2, BeginLemma DEF OneRequest, TypeInv, Waiting
<1>3. CASE UNCHANGED th
  BY <1>3 DEF OneRequest
<1> QED
  BY <1>1, <1>2, <1>3, NextCases

\* Every step leaves an unwritten file to the client whose UpdateFile runs.
LEMMA HoldNext ==
  ASSUME StorageAssumption, WorkersAssumption, TypeInv, HolderInv, [Next]_vars,
         NEW u \in Worker
  PROVE  Hold(u)'
<1> USE DEF TypeInv, Typed
<1>1. Hold(u) /\ OneRequest
  BY DEF HolderInv
<1>2. ASSUME NEW t \in Worker, t # u, Safe(t), Handler(t)
      PROVE  Hold(u)'
  <2>1. Changes(t) /\ th[t].client \in Client /\ th'[u] = th[u]
    BY <1>2, HandlerLemma DEF Keeps, Local
  <2> SUFFICES ASSUME th[u].file \in live', th[u].pc \in {"updSize", "updReject"}
               PROVE  Hold(u)'
    BY <2>1 DEF Hold, At
  <2>2. th[u].file \in live
    BY <2>1, FreshLemma
  <2>3. th[u].client \in Client /\ th[u].client # th[t].client /\ NoClient \notin Client
    BY <1>1, <1>2, <2>1 DEF OneRequest, StorageAssumption, ThreadOK
  <2> QED
    BY <1>1, <2>1, <2>2, <2>3, FieldsLemma DEF Hold, At, Owner
<1>3. CASE Safe(u) /\ Handler(u)
  <2>1. SameRequest(u) /\ Entering(u)
    BY <1>3, EnteringLemma
  <2>2. CASE th'[u].pc = "updSize"
    <3>1. AppendLocked(u) /\ Owner(u) = th[u].client /\ UNCHANGED storage
      BY <2>1, <2>2 DEF Entering
    <3>2. th'[u].client = th[u].client /\ th'[u].file = th[u].file
      BY <2>1, <2>2, <3>1 DEF SameRequest, AppendLocked, At
    <3> QED
      BY <2>2, <3>1, <3>2 DEF Hold, At, Owner, storage
  <2>3. CASE th'[u].pc = "updReject"
    <3>1. UpdateSize(u) /\ ~node[th[u].file].modified /\ UNCHANGED storage
      BY <2>1, <2>3 DEF Entering
    <3>2. th'[u].client = th[u].client /\ th'[u].file = th[u].file /\ At(u, "updSize")
      BY <2>1, <2>3, <3>1 DEF SameRequest, UpdateSize, At
    <3> QED
      BY <1>1, <2>3, <3>1, <3>2, UnchangedStorage DEF Hold, At, Owner
  <2> QED
    BY <2>2, <2>3 DEF Hold, At
<1>4. ASSUME NEW t \in Worker, Begin(t) PROVE Hold(u)'
  <2>1. CASE t = u
    BY <1>4, <2>1, BeginLemma DEF Hold, At
  <2>2. CASE t # u
    <3>1. th'[u] = th[u] /\ UNCHANGED storage
      BY <1>4, <2>2, BeginLemma
    <3> QED
      BY <1>1, <3>1, UnchangedStorage DEF Hold, At, Owner
  <2> QED
    BY <2>1, <2>2
<1>5. CASE UNCHANGED <<storage, th>>
  BY <1>1, <1>5, UnchangedStorage DEF Hold, At, Owner
<1> QED
  BY <1>2, <1>3, <1>4, <1>5, NextCases

\* The server starts with no request.
LEMMA HolderInit == ASSUME Init PROVE HolderInv
BY DEF Init, HolderInv, OneRequest, Hold, At, Idle

\* Requests and the files they hold, in every reachable state.
LEMMA HolderInvariant == Spec => []HolderInv
<1>1. Init => HolderInv
  BY HolderInit
<1>2. TypeInv /\ HolderInv /\ [Next]_vars => HolderInv'
  BY OneRequestNext, HoldNext, StorageAssumption, WorkersAssumption DEF HolderInv
<1> QED
  BY <1>1, <1>2, TypeInvariant, PTL DEF Spec

\* A step that is not undefined behaviour and removes or lets go of a file
\* is a handler's.
LEMMA StorageStep ==
  ASSUME [Next]_vars
  PROVE  (\E t \in Worker : Safe(t) /\ Handler(t)) \/ UNCHANGED storage
BY NextCases DEF Begin

RemovalStep ==
  \A n \in live \ live' :
    \/ node[n].fdClient_id = NoClient /\ node[n].modified
    \/ \E t \in Worker : /\ At(t, "updReject")
                         /\ th[t].file = n
                         /\ th[t].client = node[n].fdClient_id

ReleaseStep ==
  \A n \in live \cap live' :
    LET c == node[n].fdClient_id IN
    c # NoClient /\ node'[n].fdClient_id # c =>
      /\ node'[n].fdClient_id = NoClient
      /\ \E t \in Worker : \/ At(t, "closeTry") /\ th[t].client = c
                           \/ At(t, "readNFile") /\ th[t].cur = n

\* A handler removes one file, closed and written or the one it rejects.
LEMMA RemovedLemma ==
  ASSUME StorageAssumption, StorageTypeOK, NEW t \in Worker, ThreadOK(th[t]), Changes(t),
         NEW n \in live \ live'
  PROVE  Removable(n) \/ (At(t, "updReject") /\ n = th[t].file)
<1>1. CASE Removes(t)
  <2>1. PICK m \in live : /\ Neighbour(m) \subseteq live
                          /\ RemoveFile(m)
                          /\ Removable(m) \/ (At(t, "updReject") /\ m = th[t].file)
    BY <1>1 DEF Removes
  <2>2. live \ live' = {m}
    BY <2>1, RemoveFileLemma
  <2> QED
    BY <2>1, <2>2
<1>2. CASE Inserts(t)
  <2>1. th[t].client \in Client /\ th[t].path \in Path
    BY <1>2 DEF Inserts, At, ThreadOK, NeedsPath
  <2>2. FreshNode \subseteq NodeId \ live
    BY DEF FreshNode
  <2> QED
    BY <1>2, <2>1, <2>2, InsertFileLemma DEF Inserts
<1>3. CASE UNCHANGED storage
  BY <1>3, UnchangedStorage
<1>4. CASE Opens(t) \/ Closes(t) \/ Reads(t) \/ Appends(t)
  BY <1>4 DEF Opens, Closes, Reads, Appends, SetOwner, AppendContent, live
<1> QED
  BY <1>1, <1>2, <1>3, <1>4 DEF Changes

\* What a step removes.
LEMMA RemovalLemma ==
  ASSUME StorageAssumption, WorkersAssumption, TypeInv, HolderInv, [Next]_vars
  PROVE  RemovalStep
<1> USE DEF TypeInv, Typed
<1>1. CASE UNCHANGED storage
  BY <1>1, UnchangedStorage DEF RemovalStep
<1>2. ASSUME NEW t \in Worker, Safe(t), Handler(t) PROVE RemovalStep
  <2>1. Changes(t) /\ Hold(t)
    BY <1>2, HandlerLemma DEF HolderInv
  <2> QED
    BY <2>1, RemovedLemma DEF RemovalStep, Removable, Hold, Owner
<1> QED
  BY <1>1, <1>2, StorageStep

\* A file leaves the storage only closed and written, or rejected by the one
\* client that has it open, although the test in appendToFile
\* (util_server.c:328) and the removal (file_storage.c:203) are two critical
\* sections.
THEOREM RemovalCorrect == Spec => RemovalRespectsHolder
<1>1. TypeInv /\ HolderInv /\ [Next]_vars => [RemovalStep]_vars
  BY RemovalLemma, StorageAssumption, WorkersAssumption
<1> QED
  BY <1>1, TypeInvariant, HolderInvariant, PTL
     DEF Spec, RemovalRespectsHolder, RemovalStep

\* What a step lets go of.
LEMMA ReleaseLemma ==
  ASSUME StorageAssumption, WorkersAssumption, TypeInv, [Next]_vars
  PROVE  ReleaseStep
<1> USE DEF TypeInv, Typed
<1>1. CASE UNCHANGED storage
  BY <1>1, UnchangedStorage DEF ReleaseStep
<1>2. ASSUME NEW t \in Worker, Safe(t), Handler(t) PROVE ReleaseStep
  <2>1. Changes(t) /\ th[t].client \in Client
    BY <1>2, HandlerLemma
  <2> QED
    BY <2>1, FieldsLemma DEF ReleaseStep, StorageAssumption
<1> QED
  BY <1>1, <1>2, StorageStep

\* An open file is let go by a closeFile of its own client or by a
\* readNFiles, and never passes from one client to another directly
\* (util_server.c:208, 288 and 376).
THEOREM ReleaseCorrect == Spec => ReleasedByCloseOrReadN
<1>1. TypeInv /\ [Next]_vars => [ReleaseStep]_vars
  BY ReleaseLemma, StorageAssumption, WorkersAssumption
<1> QED
  BY <1>1, TypeInvariant, PTL DEF Spec, ReleasedByCloseOrReadN, ReleaseStep

(***************************************************************************)
(* The file UpdateFile works on, as long as nobody calls readNFiles.       *)
(***************************************************************************)
NoReadN == \A t \in Worker : th[t].pc \notin ReadNPC

Held(t) == InUpdateFile(t) => th[t].file \in live /\ Owner(t) = th[t].client

HeldInv == NoReadN /\ \A t \in Worker : Held(t)

\* A readNFiles starts only as a request.
LEMMA NoReadNNext ==
  ASSUME StorageAssumption, WorkersAssumption, "readN" \notin Op, TypeInv, NoReadN,
         [Next]_vars
  PROVE  NoReadN'
<1>1. ASSUME NEW t \in Worker, Safe(t), Handler(t) PROVE NoReadN'
  <2>1. \A u \in Worker \ {t} : th'[u] = th[u]
    BY <1>1, HandlerLemma DEF TypeInv, Keeps, Local
  <2>2. th'[t].pc \notin ReadNPC
    BY <1>1, EnteringLemma DEF TypeInv, Entering, NoReadN
  <2> QED
    BY <2>1, <2>2 DEF NoReadN
<1>2. ASSUME NEW t \in Worker, Begin(t) PROVE NoReadN'
  <2>1. /\ th'[t].pc = "search"
        /\ \A u \in Worker \ {t} : th'[u] = th[u]
    BY <1>2, BeginLemma DEF TypeInv
  <2> QED
    BY <2>1 DEF NoReadN, ReadNPC
<1>3. CASE UNCHANGED th
  BY <1>3 DEF NoReadN
<1> QED
  BY <1>1, <1>2, <1>3, NextCases

\* Neither another thread nor its own steps take the file from UpdateFile.
LEMMA HeldNext ==
  ASSUME StorageAssumption, WorkersAssumption, TypeInv, HolderInv, HeldInv, [Next]_vars,
         NEW u \in Worker
  PROVE  Held(u)'
<1> USE DEF TypeInv, Typed
<1>1. Held(u) /\ OneRequest /\ NoReadN
  BY DEF HolderInv, HeldInv
<1>2. NoClient \notin Client /\ (InUpdateFile(u) => th[u].client \in Client)
  BY DEF StorageAssumption, InUpdateFile, ThreadOK
<1>3. ASSUME NEW t \in Worker, Safe(t), Handler(t), InUpdateFile(u),
             t = u => ~At(u, "updReject")
      PROVE  th[u].file \in live' /\ node'[th[u].file].fdClient_id = th[u].client
  <2>1. Changes(t) /\ th[t].client \in Client
    BY <1>3, HandlerLemma
  <2>2. th[u].file \in live /\ node[th[u].file].fdClient_id = th[u].client
    BY <1>1, <1>3 DEF Held, Owner
  <2>3. t # u => th[t].client # th[u].client
    BY <1>1, <1>2, <1>3 DEF OneRequest
  <2>4. th[u].file \in live'
    <3> SUFFICES ASSUME th[u].file \in live \ live' PROVE FALSE
      BY <2>2
    <3>1. ~Removable(th[u].file)
      BY <1>2, <1>3, <2>2 DEF Removable
    <3>2. At(t, "updReject") /\ th[u].file = th[t].file
      BY <2>1, <3>1, RemovedLemma
    <3>3. th[t].client = th[u].client
      BY <2>2, <3>2 DEF HolderInv, Hold, Owner
    <3> QED
      BY <1>3, <2>3, <3>2, <3>3
  <2>5. ~At(t, "readNFile") /\ (t = u => ~At(t, "closeTry"))
    BY <1>1, <1>3 DEF NoReadN, ReadNPC, At, InUpdateFile
  <2> QED
    BY <1>2, <1>3, <2>1, <2>2, <2>3, <2>4, <2>5, FieldsLemma
<1>4. ASSUME NEW t \in Worker, Safe(t), Handler(t) PROVE Held(u)'
  <2>1. CASE t # u
    <3>1. th'[u] = th[u]
      BY <1>4, <2>1, HandlerLemma DEF Keeps, Local
    <3> QED
      BY <1>3, <1>4, <2>1, <3>1 DEF Held, InUpdateFile, Owner
  <2>2. CASE t = u
    <3> SUFFICES ASSUME InUpdateFile(u)' PROVE Held(u)'
      BY DEF Held
    <3>1. SameRequest(u) /\ Entering(u)
      BY <1>4, <2>2, EnteringLemma
    <3>2. CASE InUpdateFile(u) /\ ~At(u, "updReject")
      <4>1. th'[u].file = th[u].file /\ th'[u].client = th[u].client
        BY <3>1, <3>2 DEF SameRequest, InUpdateFile, At
      <4> QED
        BY <1>3, <1>4, <2>2, <3>2, <4>1 DEF Held, Owner
    <3>3. CASE AppendLocked(u) /\ Owner(u) = th[u].client
      <4>1. th'[u].file = th[u].file /\ th'[u].client = th[u].client
        BY <3>1, <3>3 DEF SameRequest, InUpdateFile, AppendLocked, At
      <4>2. UNCHANGED storage /\ th[u].file \in live
        BY <1>4, <2>2, <3>3, SafeLemma DEF AppendLocked, At
      <4> QED
        BY <3>3, <4>1, <4>2, UnchangedStorage DEF Held, Owner
    <3> QED
      BY <3>1, <3>2, <3>3 DEF Entering
  <2> QED
    BY <2>1, <2>2
<1>5. ASSUME NEW t \in Worker, Begin(t) PROVE Held(u)'
  <2>1. CASE t = u
    BY <1>5, <2>1, BeginLemma DEF Held, InUpdateFile
  <2>2. CASE t # u
    <3>1. th'[u] = th[u] /\ UNCHANGED storage
      BY <1>5, <2>2, BeginLemma
    <3> QED
      BY <1>1, <3>1, UnchangedStorage DEF Held, InUpdateFile, Owner
  <2> QED
    BY <2>1, <2>2
<1>6. CASE UNCHANGED <<storage, th>>
  BY <1>1, <1>6, UnchangedStorage DEF Held, InUpdateFile, Owner
<1> QED
  BY <1>4, <1>5, <1>6, NextCases

\* The server starts outside UpdateFile.
LEMMA HeldInit == ASSUME Init PROVE HeldInv
BY DEF Init, HeldInv, NoReadN, Held, InUpdateFile, ReadNPC, Idle

\* While UpdateFile makes room without the lock (file_storage.c:218-240),
\* its own file is neither evicted nor closed by the other threads, if no
\* client calls readNFiles.
THEOREM AppendTargetCorrect ==
  ASSUME "readN" \notin Op
  PROVE  Spec => []AppendTargetHeld
<1>1. Init => HeldInv
  BY HeldInit
<1>2. TypeInv /\ HolderInv /\ HeldInv /\ [Next]_vars => HeldInv'
  <2> SUFFICES ASSUME TypeInv, HolderInv, HeldInv, [Next]_vars PROVE HeldInv'
    OBVIOUS
  <2>1. NoReadN'
    BY NoReadNNext, StorageAssumption, WorkersAssumption DEF HeldInv
  <2>2. \A t \in Worker : Held(t)'
    BY HeldNext, StorageAssumption, WorkersAssumption
  <2> QED
    BY <2>1, <2>2 DEF HeldInv
<1>3. HeldInv => AppendTargetHeld
  BY DEF HeldInv, Held, AppendTargetHeld
<1> QED
  BY <1>1, <1>2, <1>3, TypeInvariant, HolderInvariant, PTL DEF Spec

(***************************************************************************)
(* Sums of sizes.  MapThenSumSet adds the sizes up in the order CHOOSE     *)
(* takes the files; the lemmas give the sum its meaning.  Each is proved   *)
(* by looking at a smallest set of files it would not hold of.             *)
(***************************************************************************)
\* The file MapThenSumSet takes next.
First(s) == CHOOSE x \in s : TRUE

\* The sizes of the files S in the heap f, added up.
Bytes(f, S) == MapThenSumSet(LAMBDA n : f[n].file_sz, S)

\* g[s] is the sum of the sizes of s, for the subsets s of S.
Sums(g, f, S) ==
  g = [s \in SUBSET S |-> IF s = {} THEN 0 ELSE f[First(s)].file_sz + g[s \ {First(s)}]]

\* Among subsets of a finite set some is minimal.
LEMMA SubsetMin ==
  ASSUME NEW S, IsFiniteSet(S), NEW B, B \subseteq SUBSET S, B # {}
  PROVE  \E x \in B : \A y \in B : ~ (y \subseteq x /\ y # x)
<1>1. FiniteSubsetsOf(S) = SUBSET S
  BY FS_FiniteSubsetsOfFinite
<1>2. IsWellFoundedOn(StrictSubsetOrdering(S), SUBSET S)
  BY <1>1, FS_StrictSubsetOrderingWellFounded
<1>3. PICK x \in B : \A y \in B : ~ (<<y, x>> \in StrictSubsetOrdering(S))
  BY <1>2, WFMin
<1> QED
  BY <1>3 DEF StrictSubsetOrdering

\* The sum is a value of such a function.
LEMMA BytesDef ==
  ASSUME NEW f, NEW S
  PROVE  Bytes(f, S) = (CHOOSE g : Sums(g, f, S))[S]
BY DEF Bytes, MapThenSumSet, MapThenFoldSet, Sums, First

\* At most one function satisfies the recursion, and on fewer sets it is
\* the same function.
LEMMA SumsUnique ==
  ASSUME NEW f, NEW S, IsFiniteSet(S), NEW R, R \subseteq S,
         NEW g, NEW h, Sums(g, f, S), Sums(h, f, R)
  PROVE  \A s \in SUBSET R : g[s] = h[s]
<1> DEFINE B == {s \in SUBSET R : g[s] # h[s]}
<1>1. SUFFICES ASSUME B # {} PROVE FALSE
  OBVIOUS
<1>2. B \subseteq SUBSET S
  OBVIOUS
<1>3. PICK s \in B : \A y \in B : ~ (y \subseteq s /\ y # s)
  <2> HIDE DEF B
  <2> QED
    BY <1>1, <1>2, SubsetMin
<1>4. s # {}
  BY DEF Sums
<1>5. First(s) \in s
  BY <1>4 DEF First
<1>6. s \ {First(s)} \subseteq s /\ s \ {First(s)} # s
  BY <1>5
<1>7. g[s \ {First(s)}] = h[s \ {First(s)}]
  BY <1>3, <1>6
<1>8. s \in SUBSET S /\ s \in SUBSET R
  OBVIOUS
<1>9. g[s] = f[First(s)].file_sz + g[s \ {First(s)}]
  BY <1>4, <1>8, Zenon DEF Sums
<1>10. h[s] = f[First(s)].file_sz + h[s \ {First(s)}]
  BY <1>4, <1>8, Zenon DEF Sums
<1> QED
  BY <1>7, <1>9, <1>10

\* There is one.
LEMMA SumsExist ==
  ASSUME NEW f, NEW S, IsFiniteSet(S)
  PROVE  \E g : Sums(g, f, S)
<1> DEFINE B == {s \in SUBSET S : ~ \E g : Sums(g, f, s)}
<1>1. SUFFICES ASSUME B # {} PROVE FALSE
  OBVIOUS
<1>2. B \subseteq SUBSET S
  OBVIOUS
<1>3. PICK r \in B : \A y \in B : ~ (y \subseteq r /\ y # r)
  <2> HIDE DEF B
  <2> QED
    BY <1>1, <1>2, SubsetMin
<1> DEFINE H(s) == CHOOSE g : Sums(g, f, s)
<1>4. \A s \in SUBSET r : s # r => Sums(H(s), f, s)
  BY <1>3
<1>5. r \subseteq S /\ \A s \in SUBSET r : IsFiniteSet(s)
  BY FS_Subset
<1> DEFINE Rest(s) == s \ {First(s)}
<1>6. \A s \in SUBSET r : s # {} => Rest(s) \in SUBSET r /\ Rest(s) \subseteq s /\ Rest(s) # r /\ First(s) \in s
  BY DEF First
<1> DEFINE T(s) == IF s = {} THEN 0 ELSE f[First(s)].file_sz + H(Rest(s))[Rest(s)]
           G == [s \in SUBSET r |-> T(s)]
<1> HIDE DEF H
<1>7. \A s \in SUBSET r : s # r => H(s)[s] = T(s)
  <2> TAKE s \in SUBSET r
  <2>1. SUFFICES ASSUME s # r PROVE H(s)[s] = T(s)
    OBVIOUS
  <2>2. Sums(H(s), f, s)
    BY <1>4, <2>1
  <2>3. s \in SUBSET s
    OBVIOUS
  <2>4. H(s)[s] = IF s = {} THEN 0 ELSE f[First(s)].file_sz + H(s)[Rest(s)]
    BY <2>2, <2>3, Zenon DEF Sums
  <2>5. CASE s = {}
    BY <2>4, <2>5
  <2>6. CASE s # {}
    <3>1. Rest(s) \in SUBSET r /\ Rest(s) \subseteq s /\ Rest(s) # r
      BY <1>6, <2>6
    <3>2. Sums(H(Rest(s)), f, Rest(s))
      BY <1>4, <3>1
    <3> HIDE DEF Rest
    <3>3. Rest(s) \in SUBSET Rest(s)
      OBVIOUS
    <3>4. H(s)[Rest(s)] = H(Rest(s))[Rest(s)]
      <4>1. IsFiniteSet(s)
        BY <1>5
      <4>2. \A w \in SUBSET Rest(s) : H(s)[w] = H(Rest(s))[w]
        <5>1. PICK a, b, q : a = H(s) /\ b = H(Rest(s)) /\ q = Rest(s)
          OBVIOUS
        <5>2. Sums(a, f, s) /\ Sums(b, f, q) /\ q \subseteq s
          BY <2>2, <3>1, <3>2, <5>1
        <5>3. \A w \in SUBSET q : a[w] = b[w]
          BY <4>1, <5>2, SumsUnique
        <5> QED
          BY <5>1, <5>3
      <4> QED
        BY <4>2, <3>3
    <3> QED
      BY <2>4, <2>6, <3>4
  <2> QED
    BY <2>5, <2>6
<1>8. \A s \in SUBSET r : s # {} => G[Rest(s)] = H(Rest(s))[Rest(s)]
  <2> TAKE s \in SUBSET r
  <2>1. SUFFICES ASSUME s # {} PROVE G[Rest(s)] = H(Rest(s))[Rest(s)]
    OBVIOUS
  <2>2. Rest(s) \in SUBSET r /\ Rest(s) # r
    BY <1>6, <2>1
  <2>3. H(Rest(s))[Rest(s)] = T(Rest(s))
    BY <1>7, <2>2
  <2>4. G[Rest(s)] = T(Rest(s))
    <3> HIDE DEF T, Rest
    <3> QED
      BY <2>2
  <2> QED
    BY <2>3, <2>4
<1>9. \A s \in SUBSET r : T(s) = IF s = {} THEN 0 ELSE f[First(s)].file_sz + G[Rest(s)]
  <2> HIDE DEF G
  <2> QED
    BY <1>8
<1>10. G = [s \in SUBSET r |-> IF s = {} THEN 0 ELSE f[First(s)].file_sz + G[Rest(s)]]
  <2> DEFINE E(s) == IF s = {} THEN 0 ELSE f[First(s)].file_sz + G[Rest(s)]
  <2>1. \A s \in SUBSET r : T(s) = E(s)
    BY <1>9
  <2> HIDE DEF T, E
  <2>2. G = [s \in SUBSET r |-> E(s)]
    BY <2>1
  <2> QED
    BY <2>2 DEF E
<1>11. Sums(G, f, r)
  <2> HIDE DEF G, T
  <2> QED
    BY <1>10 DEF Sums
<1> QED
  BY <1>3, <1>11

\* The sum of no sizes, and of some.
LEMMA BytesUnfold ==
  ASSUME NEW f, NEW S, IsFiniteSet(S)
  PROVE  Bytes(f, S) = IF S = {} THEN 0
                       ELSE f[First(S)].file_sz + Bytes(f, S \ {First(S)})
<1> DEFINE g == CHOOSE g : Sums(g, f, S)
<1>1. Sums(g, f, S)
  BY SumsExist
<1>2. Bytes(f, S) = g[S]
  BY BytesDef
<1> DEFINE R == S \ {First(S)}
           h == CHOOSE h : Sums(h, f, R)
<1>3. IsFiniteSet(R) /\ R \subseteq S
  BY FS_Subset
<1>4. Sums(h, f, R)
  BY <1>3, SumsExist
<1>5. Bytes(f, R) = h[R]
  BY BytesDef
<1> HIDE DEF g, h
<1>6. g[S] = IF S = {} THEN 0 ELSE f[First(S)].file_sz + g[R]
  <2>1. S \in SUBSET S
    OBVIOUS
  <2> QED
    BY <1>1, <2>1, Zenon DEF Sums
<1>7. g[R] = h[R]
  <2> HIDE DEF R
  <2>1. R \in SUBSET R
    OBVIOUS
  <2> QED
    BY <1>1, <1>3, <1>4, <2>1, SumsUnique
<1> QED
  BY <1>2, <1>5, <1>6, <1>7

\* A sum of sizes is a number, 0 or more.
LEMMA BytesType ==
  ASSUME NEW f, NEW S, IsFiniteSet(S), \A x \in S : f[x].file_sz \in Nat
  PROVE  Bytes(f, S) \in Nat
<1> DEFINE B == {s \in SUBSET S : Bytes(f, s) \notin Nat}
<1>1. SUFFICES ASSUME B # {} PROVE FALSE
  OBVIOUS
<1>2. B \subseteq SUBSET S
  OBVIOUS
<1>3. PICK s \in B : \A y \in B : ~ (y \subseteq s /\ y # s)
  <2> HIDE DEF B
  <2> QED
    BY <1>1, <1>2, SubsetMin
<1>4. IsFiniteSet(s)
  BY FS_Subset
<1>5. s # {}
  <2>1. s = {} => Bytes(f, s) = 0
    BY <1>4, BytesUnfold
  <2> QED
    BY <2>1
<1>6. First(s) \in s
  BY <1>5 DEF First
<1>7. Bytes(f, s \ {First(s)}) \in Nat
  BY <1>3, <1>6
<1>8. f[First(s)].file_sz \in Nat
  BY <1>6
<1>9. Bytes(f, s) = f[First(s)].file_sz + Bytes(f, s \ {First(s)})
  BY <1>4, <1>5, BytesUnfold
<1> QED
  BY <1>7, <1>8, <1>9

\* Any one of the files may be counted last.
LEMMA BytesRemove ==
  ASSUME NEW f, NEW S, IsFiniteSet(S), \A x \in S : f[x].file_sz \in Nat, NEW e \in S
  PROVE  Bytes(f, S) = f[e].file_sz + Bytes(f, S \ {e})
<1> DEFINE B == {s \in SUBSET S : \E x \in s : Bytes(f, s) # f[x].file_sz + Bytes(f, s \ {x})}
<1>1. SUFFICES ASSUME B # {} PROVE FALSE
  OBVIOUS
<1>2. B \subseteq SUBSET S
  OBVIOUS
<1>3. PICK s \in B : \A y \in B : ~ (y \subseteq s /\ y # s)
  <2> HIDE DEF B
  <2> QED
    BY <1>1, <1>2, SubsetMin
<1>4. PICK x \in s : Bytes(f, s) # f[x].file_sz + Bytes(f, s \ {x})
  OBVIOUS
<1>5. PICK c : c = First(s)
  OBVIOUS
<1>6. c \in s
  BY <1>4, <1>5 DEF First
<1>7. Bytes(f, s) = f[c].file_sz + Bytes(f, s \ {c})
  BY <1>5, <1>6, BytesUnfold, FS_Subset
<1>8. x # c
  BY <1>4, <1>7
<1>9. x \in s \ {c} /\ c \in s \ {x} /\ s \ {c} \in SUBSET S /\ s \ {x} \in SUBSET S
  BY <1>6, <1>8
<1>10. s \ {c} \notin B /\ s \ {x} \notin B
  BY <1>3, <1>4, <1>6
<1>11. Bytes(f, s \ {c}) = f[x].file_sz + Bytes(f, (s \ {c}) \ {x})
  BY <1>9, <1>10
<1>12. Bytes(f, s \ {x}) = f[c].file_sz + Bytes(f, (s \ {x}) \ {c})
  BY <1>9, <1>10
<1>13. (s \ {x}) \ {c} = (s \ {c}) \ {x}
  OBVIOUS
<1>14. f[x].file_sz \in Nat /\ f[c].file_sz \in Nat
  BY <1>4, <1>6
<1>15. Bytes(f, (s \ {c}) \ {x}) \in Nat
  <2>1. IsFiniteSet((s \ {c}) \ {x}) /\ \A y \in (s \ {c}) \ {x} : f[y].file_sz \in Nat
    BY FS_Subset
  <2> QED
    BY <2>1, BytesType
<1>16. Bytes(f, s) = f[x].file_sz + Bytes(f, s \ {x})
  <2>1. PICK k \in Nat, a \in Nat, b \in Nat :
          k = Bytes(f, (s \ {c}) \ {x}) /\ a = f[x].file_sz /\ b = f[c].file_sz
    BY <1>14, <1>15
  <2>2. Bytes(f, s) = b + (a + k)
    BY <1>7, <1>11, <2>1
  <2>3. Bytes(f, s \ {x}) = b + k
    BY <1>12, <1>13, <2>1
  <2>4. b + (a + k) = a + (b + k)
    OBVIOUS
  <2> QED
    BY <2>1, <2>2, <2>3, <2>4
<1> QED
  BY <1>4, <1>16

\* Only the sizes matter.
LEMMA BytesSame ==
  ASSUME NEW f, NEW h, NEW S, IsFiniteSet(S), \A x \in S : f[x].file_sz = h[x].file_sz
  PROVE  Bytes(f, S) = Bytes(h, S)
<1> DEFINE B == {s \in SUBSET S : Bytes(f, s) # Bytes(h, s)}
<1>1. SUFFICES ASSUME B # {} PROVE FALSE
  OBVIOUS
<1>2. B \subseteq SUBSET S
  OBVIOUS
<1>3. PICK s \in B : \A y \in B : ~ (y \subseteq s /\ y # s)
  <2> HIDE DEF B
  <2> QED
    BY <1>1, <1>2, SubsetMin
<1>4. IsFiniteSet(s)
  BY FS_Subset
<1>5. s # {}
  BY <1>4, BytesUnfold
<1>6. First(s) \in s
  BY <1>5 DEF First
<1>7. Bytes(f, s \ {First(s)}) = Bytes(h, s \ {First(s)})
  BY <1>3, <1>6
<1>8. f[First(s)].file_sz = h[First(s)].file_sz
  BY <1>6
<1>9. Bytes(f, s) = f[First(s)].file_sz + Bytes(f, s \ {First(s)})
  BY <1>4, <1>5, BytesUnfold
<1>10. Bytes(h, s) = h[First(s)].file_sz + Bytes(h, s \ {First(s)})
  BY <1>4, <1>5, BytesUnfold
<1> QED
  BY <1>7, <1>8, <1>9, <1>10

(***************************************************************************)
(* The bytes.                                                              *)
(***************************************************************************)

\* What a handler does to the sizes of the files and to the free bytes.
SizesKept == live' = live /\ ram_dispo' = ram_dispo /\ \A m \in live : node'[m].file_sz = node[m].file_sz

SizeGivenBack ==
  \E n \in live : /\ live' = live \ {n}
                  /\ ram_dispo' = ram_dispo + node[n].file_sz
                  /\ \A m \in live' : node'[m].file_sz = node[m].file_sz

EmptyFileAdded ==
  \E n \in NodeId \ live : /\ live' = live \cup {n}
                           /\ ram_dispo' = ram_dispo
                           /\ node'[n].file_sz = 0
                           /\ \A m \in live : node'[m].file_sz = node[m].file_sz

SizeGrows(t) ==
  /\ At(t, "updApply")
  /\ th[t].file \in live
  /\ live' = live
  /\ ram_dispo' = ram_dispo - th[t].size
  /\ node'[th[t].file].file_sz = node[th[t].file].file_sz + th[t].size
  /\ \A m \in live \ {th[t].file} : node'[m].file_sz = node[m].file_sz

\* A handler keeps the sizes, frees one file with its bytes, adds an empty
\* file or lets one file grow.
LEMMA SizesLemma ==
  ASSUME StorageAssumption, StorageTypeOK, NEW t \in Worker, ThreadOK(th[t]), Changes(t)
  PROVE  SizesKept \/ SizeGivenBack \/ EmptyFileAdded \/ SizeGrows(t)
<1>1. \A m \in live : node[m] \in Node
  BY DEF StorageTypeOK
<1>2. CASE UNCHANGED storage
  BY <1>2 DEF storage, SizesKept, live
<1>3. CASE Removes(t)
  <2>1. PICK n \in live : Neighbour(n) \subseteq live /\ RemoveFile(n)
    BY <1>3 DEF Removes
  <2>2. live' = live \ {n} /\ ram_dispo' = ram_dispo + node[n].file_sz
    BY <2>1, RemoveFileLemma DEF RemoveFile, Release
  <2>3. ASSUME NEW m \in live \ {n} PROVE node'[m].file_sz = node[m].file_sz
    BY <1>1, <2>1, <2>3 DEF RemoveFile, Unlink, Node
  <2> QED
    BY <2>2, <2>3 DEF SizeGivenBack
<1>4. CASE Inserts(t)
  <2>1. PICK n \in FreshNode : InsertFile(n, CreateFileNode(th[t].path, th[t].client))
    BY <1>4 DEF Inserts
  <2>2. n \in NodeId \ live
    BY DEF FreshNode
  <2>3. live' = live \cup {n} /\ ram_dispo' = ram_dispo
    BY <2>1 DEF InsertFile, LinkAtHead, live
  <2>4. node'[n].file_sz = 0
    <3>1. node'[n] = [CreateFileNode(th[t].path, th[t].client) EXCEPT !.son = head]
      BY <2>1 DEF InsertFile, LinkAtHead
    <3> QED
      BY <3>1 DEF CreateFileNode
  <2>5. ASSUME NEW m \in live PROVE node'[m].file_sz = node[m].file_sz
    <3>1. node'[m] = IF m = head THEN [node[m] EXCEPT !.father = n] ELSE node[m]
      BY <2>1, <2>2 DEF InsertFile, LinkAtHead
    <3> QED
      BY <1>1, <3>1 DEF Node
  <2> QED
    BY <2>2, <2>3, <2>4, <2>5 DEF EmptyFileAdded
<1>5. CASE Opens(t) \/ Closes(t) \/ Reads(t)
  <2>1. PICK n \in live, c \in Client \cup {NoClient} : SetOwner(n, c)
    BY <1>5 DEF Opens, Closes, Reads, ThreadOK, Thread
  <2>2. live' = live /\ ram_dispo' = ram_dispo
    BY <2>1, SetOwnerLemma DEF SetOwner
  <2>3. ASSUME NEW m \in live PROVE node'[m].file_sz = node[m].file_sz
    BY <1>1, <2>1 DEF SetOwner, Node, StorageTypeOK
  <2> QED
    BY <2>2, <2>3 DEF SizesKept
<1>6. CASE Appends(t)
  <2>1. At(t, "updApply") /\ th[t].file \in live /\ AppendContent(th[t].file, th[t].size)
    BY <1>6 DEF Appends
  <2>2. th[t].size \in Nat
    BY DEF ThreadOK, Thread
  <2>3. live' = live /\ \A m \in live \ {th[t].file} : node'[m] = node[m]
    BY <2>1, <2>2, AppendContentLemma
  <2>4. ram_dispo' = ram_dispo - th[t].size
    BY <2>1 DEF AppendContent
  <2>5. node'[th[t].file].file_sz = node[th[t].file].file_sz + th[t].size
    <3>1. node'[th[t].file] = [node[th[t].file] EXCEPT
                                 !.file_sz = node[th[t].file].file_sz + th[t].size,
                                 !.modified = TRUE]
      BY <2>1 DEF AppendContent, StorageTypeOK, live
    <3> QED
      BY <1>1, <2>1, <3>1 DEF Node
  <2> QED
    BY <2>1, <2>3, <2>4, <2>5 DEF SizeGrows
<1> QED
  BY <1>2, <1>3, <1>4, <1>5, <1>6 DEF Changes

\* Every step keeps the files' sizes and the free bytes in balance.
LEMMA RamNext ==
  ASSUME StorageAssumption, WorkersAssumption, TypeInv, RamMatches, [Next]_vars
  PROVE  RamMatches'
<1> USE DEF TypeInv, Typed
<1>1. /\ IsFiniteSet(live)
      /\ \A m \in live : node[m].file_sz \in Nat
      /\ ram_dispo \in Int /\ MEM_SIZE \in Nat
  BY FS_Subset DEF StorageTypeOK, StorageAssumption, Node
<1>2. Bytes(node, live) = MEM_SIZE - ram_dispo
  BY DEF RamMatches, Bytes
<1>3. SUFFICES Bytes(node', live') = MEM_SIZE - ram_dispo'
  BY DEF RamMatches, Bytes, MapThenSumSet, MapThenFoldSet
<1>4. PICK f, L : f = node' /\ L = live'
  OBVIOUS
<1>5. CASE \E t \in Worker : Safe(t) /\ Handler(t) /\ UNCHANGED undefined
  <2>1. PICK t \in Worker : Keeps(t) /\ Changes(t)
    BY <1>5, HandlerLemma
  <2>2. /\ IsFiniteSet(L)
        /\ \A m \in L : f[m].file_sz \in Nat
        /\ ram_dispo' \in Int
    <3>1. StorageTypeOK'
      BY <2>1 DEF Keeps
    <3> QED
      BY <1>4, <3>1, FS_Subset DEF StorageTypeOK, StorageAssumption, Node
  <2>3. CASE SizesKept
    <3>1. Bytes(f, L) = Bytes(node, live)
      BY <1>1, <1>4, <2>3, BytesSame DEF SizesKept
    <3> QED
      BY <1>2, <1>4, <2>3, <3>1 DEF SizesKept
  <2>4. CASE SizeGivenBack
    <3>1. PICK n \in live : /\ L = live \ {n}
                            /\ ram_dispo' = ram_dispo + node[n].file_sz
                            /\ \A m \in L : f[m].file_sz = node[m].file_sz
      BY <1>4, <2>4 DEF SizeGivenBack
    <3>2. Bytes(node, live) = node[n].file_sz + Bytes(node, live \ {n})
      BY <1>1, BytesRemove
    <3>3. Bytes(f, L) = Bytes(node, L)
      BY <2>2, <3>1, BytesSame
    <3>4. Bytes(f, L) \in Nat
      BY <2>2, BytesType
    <3>5. PICK a \in Nat, b \in Nat : a = node[n].file_sz /\ b = Bytes(f, L)
      BY <1>1, <3>4
    <3>6. MEM_SIZE - ram_dispo = a + b
      BY <1>2, <3>1, <3>2, <3>3, <3>5
    <3>7. b = MEM_SIZE - (ram_dispo + a)
      BY <1>1, <3>6
    <3> QED
      BY <1>4, <3>1, <3>5, <3>7
  <2>5. CASE EmptyFileAdded
    <3>1. PICK n \in NodeId \ live : /\ L = live \cup {n}
                                     /\ ram_dispo' = ram_dispo
                                     /\ f[n].file_sz = 0
                                     /\ \A m \in live : f[m].file_sz = node[m].file_sz
      BY <1>4, <2>5 DEF EmptyFileAdded
    <3>2. n \in L /\ L \ {n} = live
      BY <3>1
    <3>3. Bytes(f, L) = f[n].file_sz + Bytes(f, L \ {n})
      BY <2>2, <3>2, BytesRemove
    <3>4. Bytes(f, live) = Bytes(node, live)
      BY <1>1, <3>1, BytesSame
    <3>5. PICK b \in Nat : b = Bytes(node, live)
      BY <1>1, BytesType
    <3>6. Bytes(f, L) = 0 + b
      BY <3>1, <3>2, <3>3, <3>4, <3>5
    <3> QED
      BY <1>2, <1>4, <3>1, <3>5, <3>6
  <2>6. CASE SizeGrows(t)
    <3>1. PICK n \in live, s \in Nat : n = th[t].file /\ s = th[t].size
      BY <2>6 DEF SizeGrows, ThreadOK, Thread
    <3>2. /\ L = live
          /\ ram_dispo' = ram_dispo - s
          /\ f[n].file_sz = node[n].file_sz + s
          /\ \A m \in live \ {n} : f[m].file_sz = node[m].file_sz
      BY <1>4, <2>6, <3>1 DEF SizeGrows
    <3>3. Bytes(node, live) = node[n].file_sz + Bytes(node, live \ {n})
      BY <1>1, BytesRemove
    <3>4. Bytes(f, live) = f[n].file_sz + Bytes(f, live \ {n})
      BY <2>2, <3>2, BytesRemove
    <3>5. IsFiniteSet(live \ {n}) /\ \A m \in live \ {n} : node[m].file_sz \in Nat
      BY <1>1, FS_Subset
    <3>6. Bytes(f, live \ {n}) = Bytes(node, live \ {n})
      BY <3>2, <3>5, BytesSame
    <3>7. Bytes(node, live \ {n}) \in Nat
      BY <3>5, BytesType
    <3>8. PICK a \in Nat, b \in Nat : a = node[n].file_sz /\ b = Bytes(node, live \ {n})
      BY <1>1, <3>7
    <3>9. MEM_SIZE - ram_dispo = a + b
      BY <1>2, <3>3, <3>8
    <3>10. Bytes(f, L) = (a + s) + b
      BY <3>2, <3>4, <3>6, <3>8
    <3>11. (a + s) + b = MEM_SIZE - (ram_dispo - s)
      BY <1>1, <3>9
    <3> QED
      BY <1>4, <3>2, <3>10, <3>11
  <2> QED
    BY <2>1, <2>3, <2>4, <2>5, <2>6, SizesLemma
<1>6. CASE UNCHANGED storage
  BY <1>2, <1>6 DEF storage, live
<1>7. CASE \E t \in Worker : Begin(t)
  BY <1>6, <1>7 DEF Begin
<1> QED
  BY <1>5, <1>6, <1>7, NextCases

\* The bytes in use are the sum of the sizes of the stored files, through
\* every append, eviction and rejection by any number of threads
\* (file_storage.c:102 and 248-249).
THEOREM RamCorrect == Spec => []RamMatches
<1>1. Init => RamMatches
  <2> SUFFICES ASSUME Init PROVE RamMatches
    OBVIOUS
  <2>1. live = {} /\ ram_dispo = MEM_SIZE
    BY DEF Init, StorageInit, live
  <2>2. IsFiniteSet(live)
    BY <2>1, FS_EmptySet
  <2>3. Bytes(node, live) = 0
    BY <2>1, <2>2, BytesUnfold
  <2>4. MEM_SIZE \in Nat
    BY StorageAssumption DEF StorageAssumption
  <2> QED
    BY <2>1, <2>3, <2>4 DEF RamMatches, Bytes
<1>2. TypeInv /\ RamMatches /\ [Next]_vars => RamMatches'
  BY RamNext, StorageAssumption, WorkersAssumption
<1> QED
  BY <1>1, <1>2, TypeInvariant, PTL DEF Spec

(***************************************************************************)
(* What a step of a thread does to its local state.                        *)
(***************************************************************************)
SameAsk(t) ==
  /\ th'[t].op = th[t].op
  /\ th'[t].client = th[t].client
  /\ th'[t].path = th[t].path
  /\ th'[t].size = th[t].size

SameFile(t) == SameAsk(t) /\ th'[t].file = th[t].file

SameTrace(t) == SameFile(t) /\ th'[t].evicted = th[t].evicted

SameScan(t) == SameTrace(t) /\ th'[t].cur = th[t].cur /\ th'[t].nxt = th[t].nxt

Moves(t, from, to) == th[t].pc \in from /\ th'[t].pc \in to

Ends(t) ==
  /\ th'[t].pc \in {"ok", "ko", "idle"}
  /\ th'[t].size \in {th[t].size, 0}

Finds(t) ==
  /\ At(t, "search")
  /\ SameAsk(t)
  /\ th'[t].file = SearchFileNode(th[t].path)
  /\ th'[t].cur = th[t].cur /\ th'[t].nxt = th[t].nxt /\ th'[t].evicted = th[t].evicted
  /\ th'[t].pc = IF th'[t].file = NULL THEN MissingPC(th[t].op) ELSE FoundPC(th[t].op)
  /\ th'[t].pc # "ko"

\* The steps of the eviction loops, and of the scan of readNFiles, that
\* move their pointers.
Scans(t) ==
  /\ SameTrace(t)
  /\ \/ Moves(t, {"outer"}, {"final"}) /\ th'[t].cur = th[t].cur /\ th'[t].nxt = Uninit
     \/ Moves(t, {"load"}, {"inner"}) /\ th'[t].cur = last /\ th'[t].nxt = th[t].nxt
     \/ /\ Moves(t, {"inner"}, {"evict"}) /\ th[t].cur # NULL
        /\ th'[t].cur = th[t].cur /\ th'[t].nxt = th[t].nxt
     \/ Moves(t, {"inner"}, {"outer"}) /\ th'[t].cur = NULL /\ th'[t].nxt = th[t].nxt
     \/ /\ Moves(t, {"evict"}, {"inner"}) /\ th[t].op = "create"
        /\ ~Removable(th[t].cur) /\ th'[t].cur = node[th[t].cur].father
     \/ /\ Moves(t, {"evict"}, {"inner"}) /\ th[t].op = "append"
        /\ ~Removable(th[t].cur)
        /\ th'[t].cur = th'[t].nxt
        /\ th[t].nxt # Uninit => th'[t].nxt = th[t].nxt
     \/ Moves(t, {"readNHead"}, {"readNFile"}) /\ th'[t].cur = head
     \/ /\ Moves(t, {"readNFile"}, {"readNFile"}) /\ th[t].cur # NULL /\ th[t].n_read > 0
        /\ th'[t].cur = node[th[t].cur].son

Evicts(t) ==
  /\ Moves(t, {"evict"}, {"inner"})
  /\ SameFile(t)
  /\ Removable(th[t].cur)
  /\ RemoveFile(th[t].cur)
  /\ th'[t].cur = NextToScan(th[t].cur)
  /\ (th[t].op = "append" /\ th'[t].nxt = th'[t].cur) \/ th[t].op = "create"
  /\ th'[t].evicted

\* The steps that leave the pointers alone.
Goes(t) ==
  /\ SameScan(t)
  /\ \/ Moves(t, {"room", "final"}, {EnoughPC(t)}) /\ ~Scarce(t)
     \/ Moves(t, {"room"}, {"outer"})
     \/ Moves(t, {"outer"}, {"load"})
     \/ Moves(t, {"openTry"}, {"openTry"}) \/ Moves(t, {"closeTry"}, {"closeTry"})
     \/ Moves(t, {"readWait"}, {"readWait", "readLocked"})
     \/ Moves(t, {"appWait"}, {"appWait", "appLocked"})
     \/ Moves(t, {"updWait"}, {"updWait", "updApply"})
     \/ Moves(t, {"appLocked"}, {"updSize"})
     \/ Moves(t, {"updSize"}, {"room", "updReject"})
     \/ Moves(t, {"readNCount"}, {"readNHead"})

LocalStep(t) ==
  \/ Ends(t)
  \/ Finds(t) /\ UNCHANGED storage
  \/ Evicts(t)
  \/ Scans(t) /\ (UNCHANGED storage \/ At(t, "readNFile"))
  \/ Goes(t) /\ UNCHANGED storage

\* Every handler is one of these steps.
LEMMA LocalStepLemma ==
  ASSUME StorageAssumption, WorkersAssumption, NEW t \in Worker, Typed,
         Safe(t), Handler(t)
  PROVE  LocalStep(t)
<1>1. th[t] \in Thread
  BY DEF Typed
<1>2. ASSUME NEW r, Become(t, r) PROVE th'[t] = r
  BY <1>2 DEF Become, Typed
<1>3. ASSUME NEW pc \in {"ok", "ko"}, Finish(t, pc) PROVE Ends(t)
  <2>1. PICK o, c, s, e : o = th[t].op /\ c = th[t].client /\ s = th[t].size /\ e = th[t].evicted
    OBVIOUS
  <2>2. th'[t] = [Idle EXCEPT !.pc = pc, !.op = o, !.client = c, !.size = s, !.evicted = e]
    BY <1>2, <1>3, <2>1 DEF Finish
  <2>3. th'[t].pc = pc /\ th'[t].size = s
    BY <2>2 DEF Idle
  <2> QED
    BY <2>1, <2>3 DEF Ends
<1>4. ASSUME NEW pc, Goto(t, pc) PROVE SameScan(t) /\ th'[t].pc = pc
  <2>1. th'[t] = [th[t] EXCEPT !.pc = pc]
    BY <1>2, <1>4 DEF Goto
  <2> QED
    BY <1>1, <2>1 DEF Thread, SameScan, SameTrace, SameFile, SameAsk
<1>5. CASE Answer(t)
  BY <1>5, AnswerLemma DEF Idle, Ends, LocalStep
<1>6. CASE Search(t)
  <2> DEFINE f  == SearchFileNode(th[t].path)
             pc == IF f = NULL THEN MissingPC(th[t].op) ELSE FoundPC(th[t].op)
             r  == [th[t] EXCEPT !.pc = pc, !.file = f]
  <2>1. CASE pc = "ko"
    BY <1>3, <1>6, <2>1 DEF Search, LocalStep
  <2>2. CASE pc # "ko"
    <3>1. PICK q, g : q = pc /\ g = f
      OBVIOUS
    <3>2. th'[t] = [th[t] EXCEPT !.pc = q, !.file = g]
      BY <1>2, <1>6, <2>2, <3>1 DEF Search
    <3>3. /\ SameAsk(t) /\ th'[t].pc = q /\ th'[t].file = g
          /\ th'[t].cur = th[t].cur /\ th'[t].nxt = th[t].nxt
          /\ th'[t].evicted = th[t].evicted
      BY <1>1, <3>2 DEF Thread, SameAsk
    <3>4. At(t, "search") /\ UNCHANGED storage
      BY <1>6 DEF Search
    <3> QED
      BY <2>2, <3>1, <3>3, <3>4 DEF Finds, LocalStep
  <2> QED
    BY <2>1, <2>2
<1>7. CASE Room(t) \/ FinalTest(t)
  <2>1. CASE Goto(t, EnoughPC(t)) /\ ~Scarce(t)
    BY <1>4, <1>7, <2>1 DEF Room, FinalTest, At, LocalStep, Goes, Moves
  <2>2. CASE Goto(t, "outer") /\ At(t, "room")
    BY <1>4, <1>7, <2>2 DEF Room, FinalTest, At, LocalStep, Goes, Moves
  <2>3. CASE Finish(t, "ko")
    BY <1>3, <2>3 DEF LocalStep
  <2> QED
    BY <1>7, <2>1, <2>2, <2>3 DEF Room, FinalTest, At
<1>8. CASE OuterTest(t)
  <2>1. CASE Goto(t, "load")
    BY <1>4, <1>8, <2>1 DEF OuterTest, At, LocalStep, Goes, Moves
  <2>2. CASE Become(t, [th[t] EXCEPT !.pc = "final", !.nxt = Uninit, !.cnt = 0])
    <3>1. SameTrace(t) /\ th'[t].pc = "final" /\ th'[t].cur = th[t].cur /\ th'[t].nxt = Uninit
      BY <1>1, <1>2, <2>2 DEF Thread, SameTrace, SameFile, SameAsk
    <3> QED
      BY <1>8, <3>1 DEF OuterTest, At, LocalStep, Scans, Moves
  <2> QED
    BY <1>8, <2>1, <2>2 DEF OuterTest
<1>9. CASE LoadLast(t)
  <2>1. SameTrace(t) /\ th'[t].pc = "inner" /\ th'[t].cur = last /\ th'[t].nxt = th[t].nxt
    BY <1>1, <1>2, <1>9 DEF LoadLast, Thread, SameTrace, SameFile, SameAsk
  <2> QED
    BY <1>9, <2>1 DEF LoadLast, At, LocalStep, Scans, Moves
<1>10. CASE InnerTest(t)
  <2>1. CASE Goto(t, "evict") /\ th[t].cur # NULL
    BY <1>4, <1>10, <2>1 DEF InnerTest, At, LocalStep, Scans, Moves, SameScan
  <2>2. CASE Become(t, [th[t] EXCEPT !.pc = "outer", !.cur = NULL, !.cnt = @ + 1])
    <3>1. SameTrace(t) /\ th'[t].pc = "outer" /\ th'[t].cur = NULL /\ th'[t].nxt = th[t].nxt
      BY <1>1, <1>2, <2>2 DEF Thread, SameTrace, SameFile, SameAsk
    <3> QED
      BY <1>10, <3>1 DEF InnerTest, At, LocalStep, Scans, Moves
  <2> QED
    BY <1>10, <2>1, <2>2 DEF InnerTest
<1>11. CASE EvictForCreate(t)
  <2>1. At(t, "evict") /\ th[t].op = "create"
    BY <1>11 DEF EvictForCreate
  <2>2. CASE /\ Removable(th[t].cur)
             /\ RemoveFile(th[t].cur)
             /\ Become(t, [th[t] EXCEPT !.pc = "inner", !.cur = NextToScan(th[t].cur),
                                        !.evicted = TRUE])
    <3>1. PICK c : c = NextToScan(th[t].cur)
      OBVIOUS
    <3>2. th'[t] = [th[t] EXCEPT !.pc = "inner", !.cur = c, !.evicted = TRUE]
      BY <1>2, <2>2, <3>1
    <3>3. SameFile(t) /\ th'[t].pc = "inner" /\ th'[t].cur = c /\ th'[t].evicted
      BY <1>1, <3>2 DEF Thread, SameTrace, SameFile, SameAsk
    <3> QED
      BY <2>1, <2>2, <3>1, <3>3 DEF At, Moves, Evicts, LocalStep
  <2>3. CASE /\ ~Removable(th[t].cur)
             /\ Become(t, [th[t] EXCEPT !.pc = "inner", !.cur = node[th[t].cur].father])
             /\ UNCHANGED storage
    <3>1. PICK c : c = node[th[t].cur].father
      OBVIOUS
    <3>2. th'[t] = [th[t] EXCEPT !.pc = "inner", !.cur = c]
      BY <1>2, <2>3, <3>1
    <3>3. SameTrace(t) /\ th'[t].pc = "inner" /\ th'[t].cur = c
      BY <1>1, <3>2 DEF Thread, SameTrace, SameFile, SameAsk
    <3> QED
      BY <2>1, <2>3, <3>1, <3>3 DEF At, Moves, Scans, LocalStep
  <2> QED
    BY <1>11, <2>2, <2>3 DEF EvictForCreate
<1>12. CASE EvictForAppend(t)
  <2>1. At(t, "evict") /\ th[t].op = "append"
    BY <1>12 DEF EvictForAppend
  <2>2. CASE /\ Removable(th[t].cur)
             /\ RemoveFile(th[t].cur)
             /\ Become(t, [th[t] EXCEPT !.pc = "inner", !.cur = NextToScan(th[t].cur),
                                        !.nxt = NextToScan(th[t].cur), !.evicted = TRUE])
    <3>1. PICK c : c = NextToScan(th[t].cur)
      OBVIOUS
    <3>2. th'[t] = [th[t] EXCEPT !.pc = "inner", !.cur = c, !.nxt = c, !.evicted = TRUE]
      BY <1>2, <2>2, <3>1
    <3>3. /\ SameFile(t) /\ th'[t].pc = "inner" /\ th'[t].cur = c /\ th'[t].nxt = c
          /\ th'[t].evicted
      BY <1>1, <3>2 DEF Thread, SameTrace, SameFile, SameAsk
    <3> QED
      BY <2>1, <2>2, <3>1, <3>3 DEF At, Moves, Evicts, LocalStep
  <2>3. CASE /\ ~Removable(th[t].cur)
             /\ \E v \in IF th[t].nxt = Uninit THEN Garbage ELSE {th[t].nxt} :
                  Become(t, [th[t] EXCEPT !.pc = "inner", !.cur = v, !.nxt = v])
             /\ UNCHANGED storage
    <3>1. PICK v : /\ th[t].nxt # Uninit => v = th[t].nxt
                   /\ Become(t, [th[t] EXCEPT !.pc = "inner", !.cur = v, !.nxt = v])
      BY <2>3
    <3>2. th'[t] = [th[t] EXCEPT !.pc = "inner", !.cur = v, !.nxt = v]
      BY <1>2, <3>1
    <3>3. SameTrace(t) /\ th'[t].pc = "inner" /\ th'[t].cur = v /\ th'[t].nxt = v
      BY <1>1, <3>2 DEF Thread, SameTrace, SameFile, SameAsk
    <3> QED
      BY <2>1, <2>3, <3>1, <3>3 DEF At, Moves, Scans, LocalStep
  <2> QED
    BY <1>12, <2>2, <2>3 DEF EvictForAppend
<1>13. CASE InsertLink(t) \/ ReadLocked(t) \/ UpdateReject(t) \/ UpdateApply(t)
  BY <1>3, <1>13 DEF InsertLink, ReadLocked, UpdateReject, UpdateApply, LocalStep
<1>14. CASE OpenTry(t) \/ CloseTry(t)
  <2>1. CASE Finish(t, "ok") \/ Finish(t, "ko")
    BY <1>3, <2>1 DEF LocalStep
  <2>2. CASE Become(t, [th[t] EXCEPT !.cnt = @ + 1]) /\ UNCHANGED storage
    <3>1. SameScan(t) /\ th'[t].pc = th[t].pc
      BY <1>1, <1>2, <2>2 DEF Thread, SameScan, SameTrace, SameFile, SameAsk
    <3> QED
      BY <1>14, <2>2, <3>1 DEF OpenTry, CloseTry, At, Goes, Moves, LocalStep
  <2> QED
    BY <1>14, <2>1, <2>2 DEF OpenTry, CloseTry, Retry
<1>15. ASSUME NEW here, NEW there, WaitForFile(t, here, there)
       PROVE  SameScan(t) /\ Moves(t, {here}, {here, there}) /\ UNCHANGED storage
  <2>1. CASE Become(t, [th[t] EXCEPT !.cnt = @ + 1])
    BY <1>1, <1>2, <1>15, <2>1 DEF WaitForFile, Thread, SameScan, SameTrace, SameFile, SameAsk, At, Moves
  <2>2. CASE Become(t, [th[t] EXCEPT !.pc = there, !.cnt = 0])
    BY <1>1, <1>2, <1>15, <2>2 DEF WaitForFile, Thread, SameScan, SameTrace, SameFile, SameAsk, At, Moves
  <2> QED
    BY <1>15, <2>1, <2>2 DEF WaitForFile
<1>16. CASE ReadWait(t) \/ AppendWait(t) \/ UpdateWait(t)
  BY <1>15, <1>16 DEF ReadWait, AppendWait, UpdateWait, Goes, LocalStep
<1>17. CASE AppendLocked(t)
  <2>1. CASE Goto(t, "updSize")
    BY <1>4, <1>17, <2>1 DEF AppendLocked, At, Moves, Goes, LocalStep
  <2>2. CASE Finish(t, "ko")
    BY <1>3, <2>2 DEF LocalStep
  <2> QED
    BY <1>17, <2>1, <2>2 DEF AppendLocked
<1>18. CASE UpdateSize(t)
  BY <1>4, <1>18 DEF UpdateSize, At, Moves, Goes, LocalStep
<1>19. CASE ReadNCount(t)
  <2>1. SameScan(t) /\ th'[t].pc = "readNHead"
    BY <1>1, <1>2, <1>19 DEF ReadNCount, Thread, SameScan, SameTrace, SameFile, SameAsk
  <2> QED
    BY <1>19, <2>1 DEF ReadNCount, At, Moves, Goes, LocalStep
<1>20. CASE ReadNHead(t)
  <2>1. SameTrace(t) /\ th'[t].pc = "readNFile" /\ th'[t].cur = head
    BY <1>1, <1>2, <1>20 DEF ReadNHead, Thread, SameTrace, SameFile, SameAsk
  <2> QED
    BY <1>20, <2>1 DEF ReadNHead, At, Moves, Scans, LocalStep
<1>21. CASE ReadNFile(t)
  <2>1. CASE Finish(t, "ok") \/ Finish(t, "ko")
    BY <1>3, <2>1 DEF LocalStep
  <2>2. CASE /\ th[t].cur # NULL /\ th[t].n_read > 0
             /\ \/ Become(t, [th[t] EXCEPT !.cur = node[th[t].cur].son])
                \/ Become(t, [th[t] EXCEPT !.cur = node[th[t].cur].son, !.n_read = @ - 1])
    <3>1. PICK c : c = node[th[t].cur].son
      OBVIOUS
    <3>2. \/ th'[t] = [th[t] EXCEPT !.cur = c]
          \/ th'[t] = [th[t] EXCEPT !.cur = c, !.n_read = th[t].n_read - 1]
      BY <1>2, <2>2, <3>1
    <3>3. SameTrace(t) /\ th'[t].pc = th[t].pc /\ th'[t].cur = c
      BY <1>1, <3>2 DEF Thread, SameTrace, SameFile, SameAsk
    <3> QED
      BY <1>21, <2>2, <3>1, <3>3 DEF ReadNFile, At, Moves, Scans, LocalStep
  <2> QED
    BY <1>21, <2>1, <2>2 DEF ReadNFile
<1> QED
  BY <1>5, <1>6, <1>7, <1>8, <1>9, <1>10, <1>11, <1>12, <1>13, <1>14, <1>16, <1>17, <1>18,
     <1>19, <1>20, <1>21 DEF Handler

(***************************************************************************)
(* The limit on the bytes.  A thread at updWait or updApply has seen room  *)
(* for its content that other threads may have taken since: the free bytes *)
(* less all contents about to be written never fall under the bound.       *)
(***************************************************************************)
Writing == {t \in Worker : th[t].pc \in {"updWait", "updApply"}}

\* The contents the threads hold, as files.
Pending == [t \in Worker |-> [file_sz |-> th[t].size]]

MemoryInv ==
  /\ \A t \in Worker : th[t].size \in AppendSize \cup {0}
  /\ \A t \in Writing : th[t].size <= MEM_SIZE
  /\ ram_dispo - Bytes(Pending, Writing) >= (1 - Cardinality(Worker)) * LargestFitting

\* A finite set of numbers has a largest one.
LEMMA FiniteMax ==
  ASSUME NEW S, IsFiniteSet(S), \A x \in S : x \in Nat, S # {}
  PROVE  Max(S) \in S /\ \A x \in S : x <= Max(S)
<1> DEFINE B == {s \in SUBSET S : s # {} /\ ~ \E x \in s : \A y \in s : x >= y}
<1>1. SUFFICES ASSUME B # {} PROVE FALSE
  BY DEF Max
<1>2. B \subseteq SUBSET S
  OBVIOUS
<1>3. PICK s \in B : \A y \in B : ~ (y \subseteq s /\ y # s)
  <2> HIDE DEF B
  <2>1. IsFiniteSet(S) /\ B \subseteq SUBSET S /\ B # {}
    BY <1>1, <1>2
  <2> QED
    BY <2>1, SubsetMin
<1>4. PICK e \in s : e \in Nat
  OBVIOUS
<1>5. s \ {e} \notin B
  BY <1>3, <1>4
<1>6. s \ {e} # {}
  BY <1>4
<1>7. PICK x \in s \ {e} : \A y \in s \ {e} : x >= y
  BY <1>5, <1>6
<1>8. CASE x >= e
  <2>1. \A y \in s : x >= y
    BY <1>4, <1>7, <1>8
  <2> QED
    BY <1>7, <2>1
<1>9. CASE e > x
  <2>1. \A y \in s : y \in Nat
    OBVIOUS
  <2>2. \A y \in s : e >= y
    BY <1>4, <1>7, <1>9, <2>1
  <2> QED
    BY <1>4, <2>2
<1>10. x \in Nat
  BY <1>7
<1> QED
  BY <1>4, <1>8, <1>9, <1>10

\* The largest content that fits is no smaller than any that does.
LEMMA LargestFittingLemma ==
  ASSUME StorageAssumption, WorkersAssumption
  PROVE  /\ LargestFitting \in Nat /\ LargestFitting <= MEM_SIZE
         /\ \A s \in AppendSize : s <= MEM_SIZE => s <= LargestFitting
<1> DEFINE S == {0} \cup {s \in AppendSize : s <= MEM_SIZE}
<1>1. MEM_SIZE \in Nat
  BY DEF StorageAssumption
<1>2. (\A s \in S : s \in Nat) /\ 0 \in S /\ \A s \in S : s <= MEM_SIZE
  <2>1. 0 \in Nat /\ \A x \in AppendSize : x \in Nat
    BY DEF WorkersAssumption
  <2>2. \A x \in S : x = 0 \/ (x \in AppendSize /\ x <= MEM_SIZE)
    OBVIOUS
  <2>3. 0 \in S
    OBVIOUS
  <2> HIDE DEF S
  <2>4. \A x \in S : x \in Nat
    BY <2>1, <2>2, Zenon
  <2>5. \A x \in S : x <= MEM_SIZE
    BY <1>1, <2>2
  <2> QED
    BY <2>3, <2>4, <2>5
<1>3. IsFiniteSet(S)
  <2> HIDE DEF S
  <2>1. S \subseteq 0 .. MEM_SIZE
    BY <1>1, <1>2
  <2>2. IsFiniteSet(0 .. MEM_SIZE)
    BY <1>1, FS_Interval
  <2> QED
    BY <2>1, <2>2, FS_Subset
<1>4. LargestFitting = Max(S)
  BY DEF LargestFitting
<1>5. Max(S) \in S /\ \A x \in S : x <= Max(S)
  <2> HIDE DEF S
  <2> QED
    BY <1>2, <1>3, FiniteMax
<1> QED
  BY <1>2, <1>4, <1>5

\* Contents of at most b bytes add up to at most b bytes each.
LEMMA BytesBound ==
  ASSUME NEW f, NEW S, IsFiniteSet(S), NEW b \in Nat,
         \A x \in S : f[x].file_sz \in Nat /\ f[x].file_sz <= b
  PROVE  Bytes(f, S) <= Cardinality(S) * b
<1> DEFINE B == {s \in SUBSET S : ~(Bytes(f, s) <= Cardinality(s) * b)}
<1>1. SUFFICES ASSUME B # {} PROVE FALSE
  OBVIOUS
<1>2. B \subseteq SUBSET S
  OBVIOUS
<1>3. PICK s \in B : \A y \in B : ~ (y \subseteq s /\ y # s)
  <2> HIDE DEF B
  <2> QED
    BY <1>1, <1>2, SubsetMin
<1>4. IsFiniteSet(s)
  BY FS_Subset
<1>5. s # {}
  <2>1. s = {} => Bytes(f, s) = 0 /\ Cardinality(s) = 0
    BY <1>4, BytesUnfold, FS_EmptySet
  <2> QED
    BY <2>1
<1>6. PICK e : e \in s
  BY <1>5
<1>7. Bytes(f, s \ {e}) <= Cardinality(s \ {e}) * b
  BY <1>3, <1>6
<1>8. Cardinality(s \ {e}) = Cardinality(s) - 1 /\ Cardinality(s) \in Nat
  BY <1>4, <1>6, FS_RemoveElement, FS_CardinalityType
<1>9. Bytes(f, s) = f[e].file_sz + Bytes(f, s \ {e})
  BY <1>4, <1>6, BytesRemove
<1>10. Bytes(f, s \ {e}) \in Nat
  <2>1. IsFiniteSet(s \ {e}) /\ \A x \in s \ {e} : f[x].file_sz \in Nat
    BY <1>4, FS_Subset
  <2> QED
    BY <2>1, BytesType
<1>11. PICK a \in Nat, k \in Nat, q \in Nat :
         a = f[e].file_sz /\ k = Bytes(f, s \ {e}) /\ q = Cardinality(s) /\ a <= b
  BY <1>6, <1>8, <1>10
<1>12. k <= (q - 1) * b
  BY <1>7, <1>8, <1>11
<1>13. (q - 1) * b = q * b - b /\ q * b \in Int
  BY <1>11
<1>14. a + k <= q * b
  BY <1>11, <1>12, <1>13
<1> QED
  BY <1>9, <1>11, <1>14

\* The contents about to be written are numbers, and finitely many.
LEMMA WritingLemma ==
  ASSUME WorkersAssumption
  PROVE  /\ IsFiniteSet(Writing) /\ Cardinality(Writing) \in Nat
         /\ Cardinality(Writing) <= Cardinality(Worker) /\ Cardinality(Worker) \in Nat
         /\ \A t \in Writing : Pending[t].file_sz = th[t].size
<1>1. Writing \subseteq Worker /\ IsFiniteSet(Worker)
  BY DEF Writing, WorkersAssumption
<1> QED
  BY <1>1, FS_Subset, FS_CardinalityType DEF Pending

\* No more bytes are free than were configured.
LEMMA RamBelowTotal ==
  ASSUME StorageAssumption, TypeInv, RamMatches
  PROVE  ram_dispo \in Int /\ ram_dispo <= MEM_SIZE
<1>1. IsFiniteSet(live) /\ \A m \in live : node[m].file_sz \in Nat
  BY FS_Subset DEF TypeInv, Typed, StorageTypeOK, StorageAssumption, Node
<1>2. Bytes(node, live) \in Nat
  BY <1>1, BytesType
<1>3. ram_dispo \in Int /\ MEM_SIZE \in Nat
  BY DEF TypeInv, Typed, StorageTypeOK, StorageAssumption
<1>4. Bytes(node, live) = MEM_SIZE - ram_dispo
  BY DEF RamMatches, Bytes
<1> QED
  BY <1>2, <1>3, <1>4

\* A thread that is about to write has just seen room for its content, or
\* was about to write before; after the write it is not.
LEMMA WriterLemma ==
  ASSUME StorageAssumption, WorkersAssumption, TypeInv, NEW t \in Worker, Safe(t), Handler(t)
  PROVE  /\ th'[t].size \in {th[t].size, 0}
         /\ At(t, "updApply") => th'[t].pc \notin {"updWait", "updApply"}
         /\ th'[t].pc \in {"updWait", "updApply"} =>
              /\ th'[t].size = th[t].size
              /\ UNCHANGED storage
              /\ t \in Writing \/ ram_dispo - th[t].size >= 0
<1> USE DEF SameAsk, SameFile, SameTrace, SameScan, Moves, At
<1>1. LocalStep(t)
  BY LocalStepLemma DEF TypeInv
<1>2. th[t].size \in Nat /\ ram_dispo \in Int
  BY DEF TypeInv, Typed, ThreadOK, Thread, StorageTypeOK
<1>3. CASE Ends(t)
  BY <1>3 DEF Ends
<1>4. CASE Finds(t) /\ UNCHANGED storage
  <2>1. th'[t].pc \notin {"updWait", "updApply"}
    BY <1>4 DEF Finds, FoundPC, MissingPC
  <2> QED
    BY <1>4, <2>1 DEF Finds
<1>5. CASE Evicts(t)
  BY <1>5 DEF Evicts
<1>6. CASE Scans(t)
  BY <1>6 DEF Scans
<1>7. CASE Goes(t) /\ UNCHANGED storage
  <2>1. CASE Moves(t, {"room", "final"}, {EnoughPC(t)}) /\ ~Scarce(t)
    <3>1. EnoughPC(t) = "insLink" \/ (EnoughPC(t) = "updWait" /\ ram_dispo - th[t].size >= 0)
      BY <1>2, <2>1 DEF EnoughPC, Scarce
    <3> QED
      BY <1>7, <2>1, <3>1 DEF Goes
  <2>2. CASE ~Moves(t, {"room", "final"}, {EnoughPC(t)})
    <3>1. /\ At(t, "updApply") => FALSE
          /\ th'[t].pc \in {"updWait", "updApply"} => th[t].pc = "updWait"
      BY <1>7, <2>2 DEF Goes
    <3> QED
      BY <1>7, <3>1 DEF Goes, Writing
  <2> QED
    BY <1>7, <2>1, <2>2 DEF Goes
<1> QED
  BY <1>1, <1>3, <1>4, <1>5, <1>6, <1>7 DEF LocalStep

\* Every step keeps the bound and what makes it inductive.
LEMMA MemoryNext ==
  ASSUME StorageAssumption, WorkersAssumption, TypeInv, RamMatches, MemoryInv, [Next]_vars
  PROVE  MemoryInv'
<1> USE DEF TypeInv, Typed
<1> DEFINE L == LargestFitting
           n == Cardinality(Worker)
<1>1. /\ ram_dispo \in Int /\ ram_dispo <= MEM_SIZE /\ MEM_SIZE \in Nat
      /\ L \in Nat
      /\ \A t \in Worker : th[t].size \in Nat
  BY RamBelowTotal, LargestFittingLemma DEF StorageAssumption, ThreadOK, Thread
<1>2. /\ IsFiniteSet(Writing) /\ n \in Nat
      /\ \A t \in Writing : Pending[t].file_sz = th[t].size
  BY WritingLemma
<1>3. \A u \in Writing : th[u].size <= L
  <2> SUFFICES ASSUME NEW u \in Writing PROVE th[u].size <= L
    OBVIOUS
  <2>1. th[u].size <= MEM_SIZE /\ th[u].size \in AppendSize \cup {0}
    BY DEF MemoryInv, Writing
  <2> QED
    <3>1. CASE th[u].size = 0
      BY <1>1, <3>1
    <3>2. CASE th[u].size \in AppendSize
      BY <2>1, <3>2, LargestFittingLemma
    <3> QED
      BY <2>1, <3>1, <3>2
<1>4. PICK W, P, d : W = Writing' /\ P = Pending' /\ d = (1 - n) * L
  OBVIOUS
<1> DEFINE Goal == /\ \A t \in Worker : th'[t].size \in AppendSize \cup {0}
                   /\ \A t \in W : th'[t].size <= MEM_SIZE
                   /\ ram_dispo' - Bytes(P, W) >= d
<1>5. SUFFICES Goal
  <2>1. Bytes(Pending, Writing)' = Bytes(P, W)
    BY <1>4 DEF Bytes, MapThenSumSet, MapThenFoldSet
  <2>2. LargestFitting' = L
    BY DEF LargestFitting
  <2> QED
    BY <1>4, <2>1, <2>2 DEF MemoryInv
<1> HIDE DEF n, L
<1>6. Bytes(Pending, Writing) \in Nat
  BY <1>1, <1>2, BytesType DEF Writing
<1>7. PICK b \in Nat : b = Bytes(Pending, Writing)
  BY <1>6
<1>8. ram_dispo - b >= d /\ d \in Int
  BY <1>1, <1>2, <1>4, <1>7 DEF MemoryInv, n, L
<1>9. ASSUME th' = th, ram_dispo' = ram_dispo
      PROVE  Goal
  <2>1. W = Writing /\ P = Pending
    BY <1>4, <1>9 DEF Writing, Pending
  <2> QED
    BY <1>7, <1>8, <1>9, <2>1 DEF MemoryInv
<1>10. ASSUME NEW t \in Worker, Safe(t), Handler(t) PROVE Goal
  <2>1. Keeps(t) /\ Changes(t)
    BY <1>10, HandlerLemma
  <2>2. /\ \A u \in Worker \ {t} : th'[u] = th[u]
        /\ ram_dispo' \in Int
    BY <2>1 DEF Keeps, Local, StorageTypeOK
  <2>3. /\ th'[t].size \in {th[t].size, 0}
        /\ At(t, "updApply") => th'[t].pc \notin {"updWait", "updApply"}
        /\ th'[t].pc \in {"updWait", "updApply"} =>
             /\ th'[t].size = th[t].size
             /\ UNCHANGED storage
             /\ t \in Writing \/ ram_dispo - th[t].size >= 0
    BY <1>10, WriterLemma
  <2>4. \A u \in Worker : th'[u].size \in AppendSize \cup {0}
    BY <2>2, <2>3 DEF MemoryInv
  <2>5. CASE th'[t].pc \in {"updWait", "updApply"}
    <3>1. ram_dispo' = ram_dispo /\ th'[t].size = th[t].size /\ t \in W
      BY <1>4, <2>3, <2>5 DEF storage, Writing
    <3>2. \A u \in Worker : P[u].file_sz = th[u].size
      BY <1>4, <2>2, <3>1 DEF Pending
    <3>3. CASE t \in Writing
      <4>1. W = Writing
        BY <1>4, <2>2, <2>5, <3>3 DEF Writing
      <4>2. \A u \in Writing : Pending[u].file_sz = P[u].file_sz
        BY <1>2, <3>2 DEF Writing
      <4>3. Bytes(P, W) = b
        BY <1>2, <1>7, <4>1, <4>2, BytesSame
      <4>4. \A u \in W : th'[u].size <= MEM_SIZE
        BY <2>2, <3>1, <4>1 DEF MemoryInv, Writing
      <4> QED
        BY <1>8, <2>4, <3>1, <4>3, <4>4
    <3>4. CASE t \notin Writing
      <4>1. W = Writing \cup {t} /\ W \ {t} = Writing
        BY <1>4, <2>2, <2>5, <3>4 DEF Writing
      <4>2. ram_dispo - th[t].size >= 0 /\ th[t].size <= MEM_SIZE
        BY <1>1, <2>3, <2>5, <3>4
      <4>3. \A u \in W : th'[u].size <= MEM_SIZE
        BY <2>2, <3>1, <4>1, <4>2 DEF MemoryInv, Writing
      <4>4. \A u \in W : P[u].file_sz \in Nat /\ u \in Worker
        BY <1>1, <1>4, <3>2 DEF Writing
      <4>5. IsFiniteSet(W) /\ Cardinality(Writing) + 1 <= n /\ Cardinality(Writing) \in Nat
        <5>1. IsFiniteSet(Worker) /\ W \subseteq Worker
          BY <4>4 DEF WorkersAssumption
        <5>2. IsFiniteSet(W) /\ Cardinality(W) <= n /\ Cardinality(W) \in Nat
          BY <5>1, FS_Subset, FS_CardinalityType DEF n
        <5>3. Cardinality(Writing) = Cardinality(W) - 1
          BY <4>1, <5>2, FS_RemoveElement
        <5> QED
          BY <1>2, <5>2, <5>3, WritingLemma
      <4>6. Bytes(P, W) = P[t].file_sz + Bytes(P, Writing)
        BY <3>1, <4>1, <4>4, <4>5, BytesRemove
      <4>7. /\ \A u \in Writing : P[u].file_sz = Pending[u].file_sz
            /\ \A u \in Writing : Pending[u].file_sz \in Nat /\ Pending[u].file_sz <= L
        BY <1>1, <1>2, <1>3, <3>2 DEF Writing
      <4>8. Bytes(P, Writing) = b
        BY <1>2, <1>7, <4>7, BytesSame
      <4>9. b <= Cardinality(Writing) * L
        BY <1>1, <1>2, <1>7, <4>7, BytesBound
      <4>10. PICK s \in Nat, q \in Nat, l \in Nat, w \in Nat :
               s = th[t].size /\ q = Cardinality(Writing) /\ l = L /\ w = n
        BY <1>1, <1>2, <4>5
      <4>11. q * l <= (w - 1) * l /\ (w - 1) * l = -((1 - w) * l)
        <5>1. q <= w - 1
          BY <4>5, <4>10
        <5>2. \A x \in Nat, y \in Nat, z \in Nat : x <= y => x * z <= y * z
          OBVIOUS
        <5>3. w - 1 \in Nat
          BY <4>10, <5>1
        <5>4. q * l <= (w - 1) * l
          BY <5>1, <5>2, <5>3
        <5>5. (w - 1) * l = -((1 - w) * l)
          OBVIOUS
        <5> QED
          BY <5>4, <5>5
      <4>12. Bytes(P, W) = s + b
        BY <3>2, <4>6, <4>8, <4>10
      <4>13. ram_dispo - (s + b) >= d
        <5>1. PICK x \in Int, y \in Int, z \in Int :
                x = q * l /\ y = (w - 1) * l /\ z = (1 - w) * l
          OBVIOUS
        <5>2. b <= x /\ x <= y /\ y = -z /\ ram_dispo - s >= 0
          BY <4>2, <4>9, <4>10, <4>11, <5>1
        <5> QED
          BY <1>1, <1>4, <4>10, <5>1, <5>2
      <4> QED
        BY <2>4, <3>1, <4>3, <4>10, <4>12, <4>13
    <3> QED
      BY <3>3, <3>4
  <2>6. CASE th'[t].pc \notin {"updWait", "updApply"}
    <3>1. W = Writing \ {t}
      BY <1>4, <2>2, <2>6 DEF Writing
    <3>2. \A u \in W : P[u].file_sz = Pending[u].file_sz /\ th'[u].size = th[u].size
      <4>1. \A u \in W : u \in Worker /\ u # t /\ u \in Writing
        BY <3>1 DEF Writing
      <4> QED
        BY <1>2, <1>4, <2>2, <4>1 DEF Pending
    <3>3. IsFiniteSet(W) /\ \A u \in Writing : Pending[u].file_sz \in Nat
      BY <1>1, <1>2, <3>1, FS_Subset DEF Writing
    <3>4. Bytes(P, W) = Bytes(Pending, W) /\ Bytes(Pending, W) \in Nat
      BY <3>1, <3>2, <3>3, BytesSame, BytesType
    <3>5. PICK k \in Nat : k = Bytes(P, W)
      BY <3>4
    <3>6. t \in Writing => b = th[t].size + k
      BY <1>2, <1>7, <3>1, <3>3, <3>4, <3>5, BytesRemove
    <3>7. t \notin Writing => b = k
      BY <1>7, <3>1, <3>4, <3>5
    <3>8. \A u \in W : th'[u].size <= MEM_SIZE
      BY <3>1, <3>2 DEF MemoryInv
    <3>9. ram_dispo' - k >= ram_dispo - b
      <4>1. PICK s \in Nat : s = th[t].size
        BY <1>1
      <4>2. CASE SizeGrows(t)
        <5>1. t \in Writing /\ ram_dispo' = ram_dispo - s
          BY <4>1, <4>2 DEF SizeGrows, Writing, At
        <5> QED
          BY <1>1, <3>6, <4>1, <5>1
      <4>3. CASE SizesKept \/ SizeGivenBack \/ EmptyFileAdded
        <5>1. \A m \in live : node[m].file_sz \in Nat
          BY DEF StorageTypeOK, Node
        <5>2. ram_dispo' >= ram_dispo
          BY <1>1, <4>3, <5>1 DEF SizesKept, SizeGivenBack, EmptyFileAdded
        <5>3. b >= k
          BY <3>6, <3>7, <4>1
        <5> QED
          BY <1>1, <2>2, <5>2, <5>3
      <4> QED
        BY <2>1, <4>2, <4>3, SizesLemma
    <3>10. ram_dispo' - k >= d
      BY <1>1, <1>7, <1>8, <2>2, <3>5, <3>9
    <3> QED
      BY <2>4, <3>5, <3>8, <3>10
  <2> QED
    BY <2>5, <2>6
<1>11. ASSUME NEW t \in Worker, Begin(t) PROVE Goal
  <2>1. /\ UNCHANGED storage /\ At(t, "idle")
        /\ \A u \in Worker \ {t} : th'[u] = th[u]
        /\ th'[t].pc \in {"search", "readNCount"}
    BY <1>11, BeginLemma DEF Begin
  <2>2. th'[t].size \in AppendSize \cup {0}
    BY <1>11 DEF Begin, Become, Idle
  <2>3. W = Writing /\ \A u \in W : u # t /\ u \in Worker
    BY <1>4, <2>1 DEF Writing, At
  <2>4. \A u \in W : P[u].file_sz = Pending[u].file_sz /\ th'[u].size = th[u].size
    BY <1>2, <1>4, <2>1, <2>3 DEF Pending
  <2>5. Bytes(P, W) = b
    BY <1>2, <1>7, <2>3, <2>4, BytesSame
  <2>6. /\ \A u \in Worker : th'[u].size \in AppendSize \cup {0}
        /\ \A u \in W : th'[u].size <= MEM_SIZE
    BY <2>1, <2>2, <2>3, <2>4 DEF MemoryInv
  <2> QED
    BY <1>8, <2>1, <2>5, <2>6 DEF storage
<1>12. CASE UNCHANGED <<storage, th>>
  BY <1>9, <1>12 DEF storage
<1> QED
  BY <1>5, <1>10, <1>11, <1>12, NextCases

\* The server starts with all its memory free.
LEMMA MemoryInit == ASSUME StorageAssumption, WorkersAssumption, Init PROVE MemoryInv
<1>1. ram_dispo = MEM_SIZE /\ MEM_SIZE \in Nat \ {0} /\ \A t \in Worker : th[t] = Idle
  BY DEF Init, StorageInit, StorageAssumption
<1>2. Writing = {}
  BY <1>1 DEF Writing, Idle
<1>3. IsFiniteSet(Writing)
  BY <1>2, FS_EmptySet
<1>4. Bytes(Pending, Writing) = 0
  BY <1>2, <1>3, BytesUnfold
<1>5. LargestFitting \in Nat /\ LargestFitting <= MEM_SIZE
  BY LargestFittingLemma
<1>6. Cardinality(Worker) \in Nat
  BY WritingLemma
<1>7. PICK l \in Nat, w \in Nat : l = LargestFitting /\ w = Cardinality(Worker)
  BY <1>5, <1>6
<1>8. (1 - w) * l <= l
  <2>1. (1 - w) * l = l - w * l /\ w * l \in Nat
    OBVIOUS
  <2> QED
    BY <2>1
<1>9. ram_dispo - 0 >= (1 - w) * l
  <2>1. PICK x \in Int : x = (1 - w) * l
    OBVIOUS
  <2> QED
    BY <1>1, <1>5, <1>7, <1>8, <2>1
<1>10. \A t \in Worker : th[t].size \in AppendSize \cup {0}
  BY <1>1 DEF Idle
<1> QED
  BY <1>2, <1>4, <1>7, <1>9, <1>10 DEF MemoryInv

\* The memory is overdrawn by at most one content that fits the storage for
\* every thread but one, although UpdateFile tests ram_dispo without the
\* lock and writes without testing again (file_storage.c:209-249).
THEOREM MemoryBoundCorrect == Spec => []MemoryOvercommitBound
<1>1. Init => MemoryInv
  BY MemoryInit, StorageAssumption, WorkersAssumption
<1>2. TypeInv /\ RamMatches /\ MemoryInv /\ [Next]_vars => MemoryInv'
  BY MemoryNext, StorageAssumption, WorkersAssumption
<1>3. TypeInv /\ RamMatches /\ MemoryInv => MemoryOvercommitBound
  <2> SUFFICES ASSUME TypeInv, RamMatches, MemoryInv PROVE MemoryOvercommitBound
    OBVIOUS
  <2>1. \A t \in Writing : Pending[t].file_sz \in Nat
    BY DEF TypeInv, Typed, ThreadOK, Thread, Writing, Pending
  <2>2. Bytes(Pending, Writing) \in Nat
    BY <2>1, WritingLemma, WorkersAssumption, BytesType
  <2>3. PICK b \in Nat : b = Bytes(Pending, Writing)
    BY <2>2
  <2>4. ram_dispo \in Int /\ Cardinality(Worker) \in Nat /\ LargestFitting \in Nat
    BY RamBelowTotal, WritingLemma, LargestFittingLemma, StorageAssumption, WorkersAssumption
  <2>5. PICK x \in Int : x = (1 - Cardinality(Worker)) * LargestFitting
    BY <2>4
  <2>6. ram_dispo - b >= x
    BY <2>3, <2>5 DEF MemoryInv
  <2>7. ram_dispo >= x
    BY <2>4, <2>6
  <2> QED
    BY <2>5, <2>7 DEF MemoryOvercommitBound
<1> QED
  BY <1>1, <1>2, <1>3, TypeInvariant, RamCorrect, PTL DEF Spec

(***************************************************************************)
(* The list.  From head on, the stored files s[1] .. s[k] point at each    *)
(* other both ways.  Either they are all the stored files and last is the  *)
(* end of them, or the last of them points at a freed node and no other    *)
(* file points at one of them, so that nothing can mend the list.          *)
(***************************************************************************)
Reach(s, k) == {s[i] : i \in 1 .. k}

Segment(s, k) ==
  /\ \A i \in 1 .. k : s[i] \in live
  /\ \A i, j \in 1 .. k : s[i] = s[j] => i = j
  /\ \A i \in 1 .. k : node[s[i]].father = IF i = 1 THEN NULL ELSE s[i - 1]
  /\ \A i \in 1 .. k : i # k => node[s[i]].son = s[i + 1]
  /\ head = IF k = 0 THEN NULL ELSE s[1]

Whole(s, k) ==
  /\ \A n \in live : \E i \in 1 .. k : n = s[i]
  /\ IF k = 0 THEN last = NULL ELSE last = s[k] /\ node[s[k]].son = NULL

Broken(s, k) ==
  /\ k # 0
  /\ node[s[k]].son \notin live \cup {NULL}
  /\ \A n \in live : \/ \E i \in 1 .. k : n = s[i]
                     \/ /\ node[n].father # NULL
                        /\ \A i \in 1 .. k : node[n].father # s[i] /\ node[n].son # s[i]

WholeInv == \E k, s : k \in Nat /\ Segment(s, k) /\ Whole(s, k)

BrokenInv == \E k, s : k \in Nat /\ Segment(s, k) /\ Broken(s, k)

ListInv == WholeInv \/ BrokenInv

SameLinks ==
  /\ live' = live
  /\ head' = head
  /\ last' = last
  /\ \A m \in live : node'[m].son = node[m].son /\ node'[m].father = node[m].father

\* The new file stands before the old head.
LEMMA InsertKeepsList ==
  ASSUME StorageAssumption, StorageTypeOK, NEW k \in Nat, NEW s, Segment(s, k), Whole(s, k) \/ Broken(s, k),
         NEW n \in FreshNode,
         NEW new, new.father = NULL, [new EXCEPT !.son = head].father = new.father,
         [new EXCEPT !.son = head].son = head,
         InsertFile(n, new)
  PROVE  BrokenInv' \/ (Whole(s, k) /\ WholeInv')
<1>1. Segment(s, k) /\ (Whole(s, k) \/ Broken(s, k))
  OBVIOUS
<1>2. /\ n \in NodeId /\ n \notin live /\ n # head /\ n # last
      /\ \A m \in live : n # node[m].son /\ n # node[m].father
      /\ NULL \notin NodeId /\ live \subseteq NodeId
      /\ \A m \in live : node[m] \in Node
  BY DEF FreshNode, Named, StorageAssumption, StorageTypeOK
<1>3. /\ live' = live \cup {n}
      /\ head' = n
      /\ node'[n].son = head /\ node'[n].father = NULL
      /\ last' = IF head = NULL /\ last = NULL THEN n ELSE last
  BY <1>2 DEF InsertFile, LinkAtHead, live
<1>4. \A m \in live : /\ node'[m].son = node[m].son
                      /\ node'[m].father = IF m = head THEN n ELSE node[m].father
  <2> TAKE m \in live
  <2>1. node'[m] = IF m = head THEN [node[m] EXCEPT !.father = n] ELSE node[m]
    BY <1>2 DEF InsertFile, LinkAtHead
  <2> QED
    BY <1>2, <2>1 DEF Node
<1> DEFINE r == [i \in 1 .. k + 1 |-> IF i = 1 THEN n ELSE s[i - 1]]
<1>5. r[1] = n /\ \A i \in 1 .. k : r[i + 1] = s[i]
  OBVIOUS
<1>6. \A i \in 1 .. k + 1 : i = 1 \/ (i - 1 \in 1 .. k /\ r[i] = s[i - 1])
  OBVIOUS
<1> HIDE DEF r
<1>7. \A i \in 1 .. k : s[i] \in live /\ s[i] # n
  BY <1>1, <1>2 DEF Segment
<1>8. Segment(r, k + 1)'
  <2>1. \A i \in 1 .. k + 1 : r[i] \in live'
    BY <1>3, <1>5, <1>6, <1>7
  <2>2. \A i, j \in 1 .. k + 1 : r[i] = r[j] => i = j
    <3> SUFFICES ASSUME NEW i \in 1 .. k + 1, NEW j \in 1 .. k + 1, r[i] = r[j] PROVE i = j
      OBVIOUS
    <3>1. CASE i = 1 \/ j = 1
      BY <1>5, <1>6, <1>7, <3>1
    <3>2. CASE i # 1 /\ j # 1
      <4>1. i - 1 \in 1 .. k /\ j - 1 \in 1 .. k /\ s[i - 1] = s[j - 1]
        BY <1>6, <3>2
      <4>2. i - 1 = j - 1
        BY <1>1, <4>1 DEF Segment
      <4> QED
        BY <4>2
    <3> QED
      BY <3>1, <3>2
  <2>3. \A i \in 1 .. k + 1 : node'[r[i]].father = IF i = 1 THEN NULL ELSE r[i - 1]
    <3> SUFFICES ASSUME NEW i \in 1 .. k + 1, i # 1 PROVE node'[r[i]].father = r[i - 1]
      BY <1>3, <1>5
    <3>1. PICK j \in 1 .. k : j = i - 1 /\ r[i] = s[j]
      BY <1>6
    <3>2. node'[s[j]].father = IF s[j] = head THEN n ELSE node[s[j]].father
      BY <1>4, <1>7
    <3>3. head = s[1] /\ 1 \in 1 .. k
      BY <1>1 DEF Segment
    <3>4. CASE j = 1
      BY <1>5, <3>1, <3>2, <3>3, <3>4
    <3>5. CASE j # 1
      <4>1. s[j] # s[1] /\ node[s[j]].father = s[j - 1]
        BY <1>1, <3>3, <3>5 DEF Segment
      <4>2. j - 1 \in 1 .. k
        BY <3>5
      <4>3. r[j] = s[j - 1]
        BY <1>6, <3>5
      <4> QED
        BY <3>1, <3>2, <3>3, <4>1, <4>3
    <3> QED
      BY <3>4, <3>5
  <2>4. \A i \in 1 .. k + 1 : i # k + 1 => node'[r[i]].son = r[i + 1]
    <3> SUFFICES ASSUME NEW i \in 1 .. k PROVE node'[r[i]].son = r[i + 1]
      OBVIOUS
    <3>1. CASE i = 1
      <4>1. head = s[1]
        BY <1>1 DEF Segment
      <4> QED
        BY <1>3, <1>5, <3>1, <4>1
    <3>2. CASE i # 1
      <4>1. PICK j \in 1 .. k : j = i - 1 /\ r[i] = s[j] /\ j # k
        BY <1>6, <3>2
      <4>2. node'[s[j]].son = s[j + 1]
        BY <1>1, <1>4, <1>7, <4>1 DEF Segment
      <4> QED
        BY <1>5, <4>1, <4>2
    <3> QED
      BY <3>1, <3>2
  <2>5. head' = IF k + 1 = 0 THEN NULL ELSE r[1]
    BY <1>3, <1>5
  <2> QED
    BY <2>1, <2>2, <2>3, <2>4, <2>5 DEF Segment
<1>9. k # 0 => head # NULL /\ r[k + 1] = s[k] /\ s[k] \in live
  BY <1>1, <1>2, <1>5, <1>7 DEF Segment
<1>10. CASE Whole(s, k)
  <2>1. \A m \in live' : \E i \in 1 .. k + 1 : m = r[i]
    <3> SUFFICES ASSUME NEW m \in live' PROVE \E i \in 1 .. k + 1 : m = r[i]
      OBVIOUS
    <3>1. CASE m = n
      BY <1>5, <3>1
    <3>2. CASE m \in live
      <4>1. PICK i \in 1 .. k : m = s[i]
        BY <1>10, <3>2 DEF Whole
      <4> QED
        BY <1>5, <4>1
    <3> QED
      BY <1>3, <3>1, <3>2
  <2>2. CASE k = 0
    <3>1. head = NULL /\ last = NULL
      BY <1>1, <1>10, <2>2 DEF Segment, Whole
    <3> QED
      BY <1>3, <1>5, <1>8, <1>10, <2>1, <2>2, <3>1 DEF Whole, WholeInv
  <2>3. CASE k # 0
    <3>1. last = s[k] /\ node[s[k]].son = NULL
      BY <1>10, <2>3 DEF Whole
    <3>2. last' = r[k + 1] /\ node'[r[k + 1]].son = NULL
      BY <1>3, <1>4, <1>9, <2>3, <3>1
    <3>3. Whole(r, k + 1)'
      BY <2>1, <3>2 DEF Whole
    <3>4. k + 1 \in Nat
      OBVIOUS
    <3> QED
      BY <1>8, <1>10, <3>3, <3>4, Zenon DEF WholeInv
  <2> QED
    BY <2>2, <2>3
<1>11. CASE Broken(s, k)
  <2>1. k # 0 /\ node[s[k]].son \notin live \cup {NULL}
    BY <1>11 DEF Broken
  <2>2. node'[r[k + 1]].son \notin live' \cup {NULL}
    BY <1>2, <1>3, <1>4, <1>9, <2>1
  <2>3. ASSUME NEW m \in live'
        PROVE  \/ \E i \in 1 .. k + 1 : m = r[i]
               \/ /\ node'[m].father # NULL
                  /\ \A i \in 1 .. k + 1 : node'[m].father # r[i] /\ node'[m].son # r[i]
    <3>1. CASE m = n
      BY <1>5, <3>1
    <3>2. CASE \E i \in 1 .. k : m = s[i]
      BY <1>5, <3>2
    <3>3. CASE /\ m \in live
               /\ ~ \E i \in 1 .. k : m = s[i]
      <4>1. /\ node[m].father # NULL
            /\ \A i \in 1 .. k : node[m].father # s[i] /\ node[m].son # s[i]
        BY <1>11, <3>3 DEF Broken
      <4>2. m # head
        <5>1. head = s[1] /\ 1 \in 1 .. k
          BY <1>1, <2>1 DEF Segment
        <5> QED
          BY <3>3, <5>1
      <4>3. node'[m].father = node[m].father /\ node'[m].son = node[m].son
        BY <1>4, <3>3, <4>2
      <4>4. \A i \in 1 .. k + 1 : node'[m].father # r[i] /\ node'[m].son # r[i]
        BY <1>2, <1>5, <1>6, <3>3, <4>1, <4>3
      <4> QED
        BY <4>1, <4>3, <4>4
    <3> QED
      BY <1>3, <2>3, <3>1, <3>2, <3>3
  <2>4. Broken(r, k + 1)'
    BY <2>2, <2>3 DEF Broken
  <2> QED
    BY <1>8, <2>4 DEF BrokenInv
<1> QED
  BY <1>1, <1>10, <1>11

\* The removal of a file from either end leaves the list whole; that of a
\* file in the middle breaks it behind the file before it.
LEMMA UnlinkKeepsList ==
  ASSUME StorageAssumption, StorageTypeOK, NEW k \in Nat, NEW s, Segment(s, k), Whole(s, k) \/ Broken(s, k),
         NEW n \in live,
         Neighbour(n) \subseteq live, Unlink(n)
  PROVE  BrokenInv' \/ (Whole(s, k) /\ WholeInv')
<1>1. Segment(s, k) /\ (Whole(s, k) \/ Broken(s, k))
  OBVIOUS
<1>2. /\ NULL \notin live
      /\ \A m \in live : node[m] \in Node
  BY DEF StorageAssumption, StorageTypeOK
<1>3. /\ live' = live \ {n}
      /\ head' = IF IsHead(n) THEN node[n].son ELSE head
      /\ last' = IF IsLast(n) THEN node[n].father ELSE last
  BY DEF Unlink, live
<1>4. \A m \in live \ {n} :
        /\ node'[m].son = IF IsLast(n) /\ m = node[n].father THEN NULL ELSE node[m].son
        /\ node'[m].father = IF ~IsLast(n) /\ IsHead(n) /\ m = node[n].son
                             THEN NULL ELSE node[m].father
  <2> TAKE m \in live \ {n}
  <2>1. node'[m] = CASE IsLast(n) /\ m = node[n].father -> [node[m] EXCEPT !.son = NULL]
                     [] IsHead(n) /\ m = node[n].son    -> [node[m] EXCEPT !.father = NULL]
                     [] OTHER                           -> node[m]
    BY DEF Unlink
  <2>2. IsLast(n) => m # node[n].son
    BY <1>2 DEF IsLast
  <2> QED
    BY <1>2, <2>1, <2>2 DEF Node
<1>5. /\ \A i \in 1 .. k : s[i] \in live
      /\ \A i, j \in 1 .. k : s[i] = s[j] => i = j
      /\ \A i \in 1 .. k : node[s[i]].father = IF i = 1 THEN NULL ELSE s[i - 1]
      /\ \A i \in 1 .. k : i # k => node[s[i]].son = s[i + 1]
      /\ head = IF k = 0 THEN NULL ELSE s[1]
  BY <1>1 DEF Segment
\* The first file.
<1>6. CASE k # 0 /\ n = s[1]
  <2>1. IsHead(n) /\ 1 \in 1 .. k
    BY <1>5, <1>6 DEF IsHead
  <2>2. CASE IsLast(n)
    <3>1. k = 1
      <4>1. k # 1 => node[s[1]].son = s[2] /\ s[2] \in live
        BY <1>5, <2>1
      <4> QED
        BY <1>2, <1>6, <2>2, <4>1 DEF IsLast
    <3>2. Whole(s, k)
      BY <1>1, <1>6, <2>2, <3>1 DEF Broken, IsLast
    <3>3. live' = {}
      BY <1>3, <1>6, <3>1, <3>2 DEF Whole
    <3>4. head' = NULL /\ last' = NULL
      BY <1>3, <2>1, <2>2 DEF IsHead, IsLast
    <3>5. Segment(s, 0)' /\ Whole(s, 0)'
      BY <3>3, <3>4 DEF Segment, Whole
    <3> QED
      BY <3>2, <3>5 DEF WholeInv
  <2>3. CASE ~IsLast(n)
    <3>1. node[n].son \in live
      BY <2>1, <2>3 DEF Neighbour
    <3>2. k # 1
      <4>1. k = 1 => node[s[k]].son = node[n].son
        BY <1>6
      <4>2. Whole(s, k) => node[s[k]].son = NULL
        BY <1>6 DEF Whole
      <4>3. Broken(s, k) => node[s[k]].son \notin live
        BY DEF Broken
      <4> QED
        BY <1>1, <1>2, <3>1, <4>1, <4>2, <4>3
    <3> DEFINE r == [i \in 1 .. k - 1 |-> s[i + 1]]
    <3>3. k - 1 \in Nat /\ \A i \in 1 .. k - 1 : r[i] = s[i + 1] /\ i + 1 \in 1 .. k
      BY <1>6
    <3>4. r[1] = s[2] /\ node[n].son = s[2] /\ 2 \in 1 .. k /\ r[k - 1] = s[k] /\ k \in 1 .. k
      <4>1. 1 \in 1 .. k - 1 /\ k - 1 \in 1 .. k - 1
        BY <1>6, <3>2
      <4> QED
        BY <1>5, <1>6, <2>1, <3>2, <3>3, <4>1
    <3> HIDE DEF r
    <3>5. \A i \in 1 .. k : i # 1 => s[i] \in live \ {n}
      BY <1>5, <1>6, <2>1
    <3>6. \A m \in live \ {n} : /\ node'[m].son = node[m].son
                                /\ node'[m].father = IF m = s[2] THEN NULL ELSE node[m].father
      BY <1>4, <2>1, <2>3, <3>4
    <3>7. Segment(r, k - 1)'
      <4>1. \A i \in 1 .. k - 1 : r[i] \in live'
        BY <1>3, <3>3, <3>5
      <4>2. \A i, j \in 1 .. k - 1 : r[i] = r[j] => i = j
        <5> SUFFICES ASSUME NEW i \in 1 .. k - 1, NEW j \in 1 .. k - 1, r[i] = r[j] PROVE i = j
          OBVIOUS
        <5>1. i + 1 = j + 1
          BY <1>5, <3>3
        <5> QED
          BY <5>1
      <4>3. \A i \in 1 .. k - 1 : node'[r[i]].father = IF i = 1 THEN NULL ELSE r[i - 1]
        <5> SUFFICES ASSUME NEW i \in 1 .. k - 1
                     PROVE node'[r[i]].father = IF i = 1 THEN NULL ELSE r[i - 1]
          OBVIOUS
        <5>1. PICK j \in 1 .. k : j = i + 1 /\ r[i] = s[j] /\ s[j] \in live \ {n}
          BY <3>3, <3>5
        <5>2. CASE i = 1
          BY <3>4, <3>6, <5>1, <5>2
        <5>3. CASE i # 1
          <6>1. j # 2 /\ s[j] # s[2]
            BY <1>5, <3>4, <5>1, <5>3
          <6>2. node[s[j]].father = s[j - 1] /\ j - 1 = i
            BY <1>5, <5>1
          <6>3. r[i - 1] = s[i]
            <7>1. i - 1 \in 1 .. k - 1 /\ (i - 1) + 1 = i
              BY <5>3
            <7> QED
              BY <3>3, <7>1
          <6> QED
            BY <3>6, <5>1, <5>3, <6>1, <6>2, <6>3
        <5> QED
          BY <5>2, <5>3
      <4>4. \A i \in 1 .. k - 1 : i # k - 1 => node'[r[i]].son = r[i + 1]
        <5> SUFFICES ASSUME NEW i \in 1 .. k - 1, i # k - 1 PROVE node'[r[i]].son = r[i + 1]
          OBVIOUS
        <5>1. PICK j \in 1 .. k : j = i + 1 /\ r[i] = s[j] /\ s[j] \in live \ {n} /\ j # k
          BY <3>3, <3>5
        <5>2. r[j] = s[j + 1]
          BY <3>3, <5>1
        <5> QED
          BY <1>5, <3>6, <5>1, <5>2
      <4>5. head' = IF k - 1 = 0 THEN NULL ELSE r[1]
        BY <1>3, <2>1, <3>2, <3>4
      <4> QED
        BY <4>1, <4>2, <4>3, <4>4, <4>5 DEF Segment
    <3>8. s[k] \in live \ {n} /\ node'[s[k]].son = node[s[k]].son
      BY <3>2, <3>4, <3>5, <3>6
    <3>9. \A i \in 1 .. k : i # 1 => i - 1 \in 1 .. k - 1 /\ r[i - 1] = s[i]
      <4> SUFFICES ASSUME NEW i \in 1 .. k, i # 1 PROVE i - 1 \in 1 .. k - 1 /\ r[i - 1] = s[i]
        OBVIOUS
      <4>1. i - 1 \in 1 .. k - 1 /\ (i - 1) + 1 = i
        OBVIOUS
      <4> QED
        BY <3>3, <4>1
    <3>10. CASE Whole(s, k)
      <4>1. \A m \in live' : \E i \in 1 .. k - 1 : m = r[i]
        <5> SUFFICES ASSUME NEW m \in live' PROVE \E i \in 1 .. k - 1 : m = r[i]
          OBVIOUS
        <5>1. PICK i \in 1 .. k : m = s[i] /\ i # 1
          BY <1>3, <1>6, <3>10 DEF Whole
        <5> QED
          BY <3>9, <5>1
      <4>2. last' = r[k - 1] /\ node'[r[k - 1]].son = NULL
        BY <1>3, <1>6, <2>3, <3>4, <3>8, <3>10 DEF Whole
      <4>3. Whole(r, k - 1)'
        BY <3>2, <4>1, <4>2 DEF Whole
      <4> QED
        BY <3>3, <3>7, <3>10, <4>3, Zenon DEF WholeInv
    <3>11. CASE Broken(s, k)
      <4>1. k - 1 # 0 /\ node'[r[k - 1]].son \notin live' \cup {NULL}
        BY <1>3, <3>2, <3>4, <3>8, <3>11 DEF Broken
      <4>2. ASSUME NEW m \in live'
            PROVE  \/ \E i \in 1 .. k - 1 : m = r[i]
                   \/ /\ node'[m].father # NULL
                      /\ \A i \in 1 .. k - 1 : node'[m].father # r[i] /\ node'[m].son # r[i]
        <5>1. m \in live /\ m # n
          BY <1>3, <4>2
        <5>2. CASE \E i \in 1 .. k : m = s[i]
          <6>1. PICK i \in 1 .. k : m = s[i] /\ i # 1
            BY <1>6, <5>1, <5>2
          <6> QED
            BY <3>9, <6>1
        <5>3. CASE ~ \E i \in 1 .. k : m = s[i]
          <6>1. /\ node[m].father # NULL
                /\ \A i \in 1 .. k : node[m].father # s[i] /\ node[m].son # s[i]
            BY <3>11, <5>1, <5>3 DEF Broken
          <6>2. m # s[2]
            BY <3>4, <5>3
          <6>3. node'[m].father = node[m].father /\ node'[m].son = node[m].son
            BY <3>6, <5>1, <6>2
          <6> QED
            BY <3>3, <6>1, <6>3
        <5> QED
          BY <5>2, <5>3
      <4>3. Broken(r, k - 1)'
        BY <4>1, <4>2 DEF Broken
      <4> QED
        BY <3>3, <3>7, <4>3, Zenon DEF BrokenInv
    <3> QED
      BY <1>1, <3>10, <3>11
  <2> QED
    BY <2>2, <2>3
\* A later file of the segment.
<1>7. CASE \E p \in 1 .. k : p # 1 /\ n = s[p]
  <2>1. PICK p \in 1 .. k : p # 1 /\ n = s[p]
    BY <1>7
  <2>2. PICK q \in 1 .. k : q = p - 1
    BY <2>1
  <2>3. node[n].father = s[q] /\ s[q] \in live /\ ~IsHead(n) /\ s[q] # n
    <3>1. node[n].father = s[q] /\ s[q] \in live
      BY <1>5, <2>1, <2>2
    <3>2. s[q] # s[p]
      BY <1>5, <2>2
    <3> QED
      BY <1>2, <2>1, <3>1, <3>2 DEF IsHead
  <2>4. \A i \in 1 .. q : i \in 1 .. k /\ s[i] \in live \ {n}
    <3> SUFFICES ASSUME NEW i \in 1 .. q PROVE i \in 1 .. k /\ s[i] \in live \ {n}
      OBVIOUS
    <3>1. i \in 1 .. k /\ i # p
      BY <2>2
    <3> QED
      BY <1>5, <2>1, <3>1
  <2>5. /\ \A m \in live \ {n} : node'[m].father = node[m].father
        /\ \A m \in live \ {n} : m # s[q] => node'[m].son = node[m].son
        /\ head' = head
    BY <1>3, <1>4, <2>3
  <2>6. Segment(s, q)'
    <3>1. \A i \in 1 .. q : s[i] \in live'
      BY <1>3, <2>4
    <3>2. \A i, j \in 1 .. q : s[i] = s[j] => i = j
      BY <1>5, <2>4
    <3>3. \A i \in 1 .. q : node'[s[i]].father = IF i = 1 THEN NULL ELSE s[i - 1]
      BY <1>5, <2>4, <2>5
    <3>4. \A i \in 1 .. q : i # q => node'[s[i]].son = s[i + 1]
      <4> SUFFICES ASSUME NEW i \in 1 .. q, i # q PROVE node'[s[i]].son = s[i + 1]
        OBVIOUS
      <4>1. i \in 1 .. k /\ i # k /\ s[i] # s[q] /\ s[i] \in live \ {n}
        BY <1>5, <2>2, <2>4
      <4> QED
        BY <1>5, <2>5, <4>1
    <3>5. head' = IF q = 0 THEN NULL ELSE s[1]
      BY <1>5, <2>5
    <3> QED
      BY <3>1, <3>2, <3>3, <3>4, <3>5 DEF Segment
  <2>7. q \in Nat /\ q # 0 /\ q \in 1 .. q
    OBVIOUS
  <2>8. CASE IsLast(n)
    <3>1. p = k
      <4>1. p # k => node[s[p]].son = s[p + 1] /\ s[p + 1] \in live
        BY <1>5
      <4> QED
        BY <1>2, <2>1, <2>8, <4>1 DEF IsLast
    <3>2. Whole(s, k)
      BY <1>1, <2>1, <2>8, <3>1 DEF Broken, IsLast
    <3>3. \A m \in live' : \E i \in 1 .. q : m = s[i]
      <4> SUFFICES ASSUME NEW m \in live' PROVE \E i \in 1 .. q : m = s[i]
        OBVIOUS
      <4>1. PICK i \in 1 .. k : m = s[i] /\ i # p
        BY <1>3, <2>1, <3>2 DEF Whole
      <4>2. i \in 1 .. q
        BY <2>2, <3>1, <4>1
      <4> QED
        BY <4>1, <4>2
    <3>4. last' = s[q] /\ node'[s[q]].son = NULL
      BY <1>3, <1>4, <2>3, <2>8
    <3>5. Whole(s, q)'
      BY <2>7, <3>3, <3>4 DEF Whole
    <3> QED
      BY <2>6, <2>7, <3>2, <3>5, Zenon DEF WholeInv
  <2>9. CASE ~IsLast(n)
    <3>1. \A m \in live \ {n} : node'[m].son = node[m].son
      BY <1>4, <2>9
    <3>2. node'[s[q]].son = n
      <4>1. q # k /\ q + 1 = p
        BY <2>2
      <4> QED
        BY <1>5, <2>1, <2>3, <3>1, <4>1
    <3>3. node'[s[q]].son \notin live' \cup {NULL}
      BY <1>2, <1>3, <3>2
    <3>4. ASSUME NEW m \in live'
          PROVE  \/ \E i \in 1 .. q : m = s[i]
                 \/ /\ node'[m].father # NULL
                    /\ \A i \in 1 .. q : node'[m].father # s[i] /\ node'[m].son # s[i]
      <4>1. /\ m \in live \ {n}
            /\ node'[m].father = node[m].father
            /\ node'[m].son = node[m].son
        BY <1>3, <2>5, <3>1, <3>4
      <4>2. CASE \E j \in 1 .. k : m = s[j]
        <5>1. PICK j \in 1 .. k : m = s[j] /\ j # p
          BY <2>1, <4>1, <4>2
        <5>2. CASE j \in 1 .. q
          BY <5>1, <5>2
        <5>3. CASE j \notin 1 .. q
          <6>1. j - 1 \in 1 .. k /\ j - 1 \notin 1 .. q /\ j # 1
            BY <2>2, <5>1, <5>3
          <6>2. node[m].father = s[j - 1] /\ s[j - 1] \in live
            BY <1>5, <5>1, <6>1
          <6>3. \A i \in 1 .. q : s[i] # s[j - 1]
            BY <1>5, <2>4, <6>1
          <6>4. \A i \in 1 .. q : node[m].son # s[i]
            <7>1. CASE j = k
              <8>1. Whole(s, k) => node[m].son = NULL
                BY <5>1, <7>1 DEF Whole
              <8>2. Broken(s, k) => node[m].son \notin live
                BY <5>1, <7>1 DEF Broken
              <8> QED
                BY <1>1, <1>2, <2>4, <8>1, <8>2
            <7>2. CASE j # k
              <8>1. node[m].son = s[j + 1] /\ j + 1 \in 1 .. k /\ j + 1 \notin 1 .. q
                BY <1>5, <5>1, <5>3, <7>2
              <8> QED
                BY <1>5, <2>4, <8>1
            <7> QED
              BY <7>1, <7>2
          <6> QED
            BY <1>2, <4>1, <6>2, <6>3, <6>4
        <5> QED
          BY <5>2, <5>3
      <4>3. CASE ~ \E j \in 1 .. k : m = s[j]
        <5>1. Broken(s, k)
          BY <1>1, <4>1, <4>3 DEF Whole
        <5>2. /\ node[m].father # NULL
              /\ \A i \in 1 .. k : node[m].father # s[i] /\ node[m].son # s[i]
          BY <4>1, <4>3, <5>1 DEF Broken
        <5> QED
          BY <2>4, <4>1, <5>2
      <4> QED
        BY <4>2, <4>3
    <3>5. Broken(s, q)'
      BY <2>7, <3>3, <3>4 DEF Broken
    <3> QED
      BY <2>6, <2>7, <3>5, Zenon DEF BrokenInv
  <2> QED
    BY <2>8, <2>9
\* A file cut off before.
<1>8. CASE ~ \E p \in 1 .. k : n = s[p]
  <2>1. Broken(s, k)
    BY <1>1, <1>8 DEF Whole
  <2>2. /\ node[n].father # NULL
        /\ \A i \in 1 .. k : node[n].father # s[i]
    BY <1>8, <2>1 DEF Broken
  <2>3. /\ head' = head
        /\ \A m \in live \ {n} : /\ node'[m].father = node[m].father
                                 /\ node'[m].son = node[m].son \/ node'[m].son = NULL
        /\ \A i \in 1 .. k : s[i] \in live \ {n} /\ node'[s[i]].son = node[s[i]].son
    BY <1>3, <1>4, <1>5, <1>8, <2>2 DEF IsHead
  <2>4. Segment(s, k)'
    <3>1. \A i \in 1 .. k : s[i] \in live'
      BY <1>3, <2>3
    <3>2. \A i \in 1 .. k : node'[s[i]].father = IF i = 1 THEN NULL ELSE s[i - 1]
      BY <1>5, <2>3
    <3>3. \A i \in 1 .. k : i # k => node'[s[i]].son = s[i + 1]
      BY <1>5, <2>3
    <3> QED
      BY <1>5, <2>3, <3>1, <3>2, <3>3 DEF Segment
  <2>5. k # 0 /\ node'[s[k]].son \notin live' \cup {NULL}
    <3>1. k \in 1 .. k
      BY <2>1 DEF Broken
    <3> QED
      BY <1>3, <2>1, <2>3, <3>1 DEF Broken
  <2>6. ASSUME NEW m \in live'
        PROVE  \/ \E i \in 1 .. k : m = s[i]
               \/ /\ node'[m].father # NULL
                  /\ \A i \in 1 .. k : node'[m].father # s[i] /\ node'[m].son # s[i]
    <3>1. m \in live \ {n}
      BY <1>3, <2>6
    <3>2. \A i \in 1 .. k : s[i] # NULL
      BY <1>2, <1>5
    <3> QED
      BY <2>1, <2>3, <3>1, <3>2 DEF Broken
  <2>7. Broken(s, k)'
    BY <2>5, <2>6 DEF Broken
  <2> QED
    BY <2>4, <2>7, Zenon DEF BrokenInv
<1> QED
  BY <1>6, <1>7, <1>8

\* Nothing else touches the links.
LEMMA SameLinksKeepList ==
  ASSUME StorageTypeOK, NEW k \in Nat, NEW s, Segment(s, k), SameLinks
  PROVE  /\ Whole(s, k) => WholeInv'
         /\ Broken(s, k) => BrokenInv'
<1>2. \A i \in 1 .. k : s[i] \in live
  BY DEF Segment
<1>3. Segment(s, k)'
  BY <1>2 DEF Segment, SameLinks
<1>4. k # 0 => k \in 1 .. k
  OBVIOUS
<1>5. Whole(s, k) => Whole(s, k)'
  BY <1>2, <1>4 DEF Whole, SameLinks
<1>6. Broken(s, k) => Broken(s, k)'
  BY <1>2, <1>4 DEF Broken, SameLinks
<1> QED
  BY <1>3, <1>5, <1>6, Zenon DEF WholeInv, BrokenInv

\* A broken list stays broken, a whole one stays whole or breaks.
ListKept == (WholeInv => WholeInv' \/ BrokenInv') /\ (BrokenInv => BrokenInv')

\* A list is not whole and broken at once.
LEMMA WholeNotBroken == ASSUME NEW k, NEW s, Whole(s, k) PROVE ~Broken(s, k)
BY DEF Whole, Broken

\* Such changes, seen from any segment, are seen from the list.
LEMMA ListKeptLemma ==
  ASSUME \A k \in Nat : \A s : Segment(s, k) /\ (Whole(s, k) \/ Broken(s, k)) =>
           BrokenInv' \/ (Whole(s, k) /\ WholeInv')
  PROVE  ListKept
<1>1. ASSUME WholeInv PROVE WholeInv' \/ BrokenInv'
  <2>1. PICK k, s : k \in Nat /\ Segment(s, k) /\ Whole(s, k)
    BY <1>1 DEF WholeInv
  <2> QED
    BY <2>1
<1>2. ASSUME BrokenInv PROVE BrokenInv'
  <2>1. PICK k, s : k \in Nat /\ Segment(s, k) /\ Broken(s, k)
    BY <1>2 DEF BrokenInv
  <2> QED
    BY <2>1, WholeNotBroken
<1> QED
  BY <1>1, <1>2 DEF ListKept

\* Every change of the storage by a handler keeps the list whole or broken.
LEMMA ListChange ==
  ASSUME StorageAssumption, StorageTypeOK, NEW t \in Worker, ThreadOK(th[t]), Changes(t)
  PROVE  ListKept
<1>1. \A m \in live : node[m] \in Node
  BY DEF StorageTypeOK
<1>7. ASSUME SameLinks PROVE ListKept
  <2>1. \A k \in Nat : \A s : Segment(s, k) /\ (Whole(s, k) \/ Broken(s, k)) =>
          BrokenInv' \/ (Whole(s, k) /\ WholeInv')
    BY <1>7, SameLinksKeepList
  <2> QED
    BY <2>1, ListKeptLemma
<1>2. CASE UNCHANGED storage
  <2>1. SameLinks
    BY <1>2 DEF storage, SameLinks, live
  <2> QED
    BY <2>1, <1>7
<1>3. CASE Removes(t)
  <2>1. PICK n \in live : Neighbour(n) \subseteq live /\ Unlink(n)
    BY <1>3 DEF Removes, RemoveFile
  <2>2. \A k \in Nat : \A s : Segment(s, k) /\ (Whole(s, k) \/ Broken(s, k)) =>
          BrokenInv' \/ (Whole(s, k) /\ WholeInv')
    BY <2>1, UnlinkKeepsList
  <2> QED
    BY <2>2, ListKeptLemma
<1>4. CASE Inserts(t)
  <2>1. PICK n \in FreshNode : InsertFile(n, CreateFileNode(th[t].path, th[t].client))
    BY <1>4 DEF Inserts
  <2>2. PICK new : new = CreateFileNode(th[t].path, th[t].client)
    OBVIOUS
  <2>3. /\ new.father = NULL /\ [new EXCEPT !.son = head].father = NULL
        /\ [new EXCEPT !.son = head].son = head
    BY <2>2 DEF CreateFileNode
  <2>4. InsertFile(n, new)
    BY <2>1, <2>2
  <2>5. \A k \in Nat : \A s : Segment(s, k) /\ (Whole(s, k) \/ Broken(s, k)) =>
          BrokenInv' \/ (Whole(s, k) /\ WholeInv')
    BY <2>3, <2>4, InsertKeepsList
  <2> QED
    BY <2>5, ListKeptLemma
<1>5. CASE Opens(t) \/ Closes(t) \/ Reads(t)
  <2>1. PICK n \in live, c \in Client \cup {NoClient} : SetOwner(n, c)
    BY <1>5 DEF Opens, Closes, Reads, ThreadOK, Thread
  <2>2. \A m \in live : node'[m].son = node[m].son /\ node'[m].father = node[m].father
    BY <1>1, <2>1 DEF SetOwner, Node, StorageTypeOK
  <2>3. SameLinks
    BY <2>1, <2>2, SetOwnerLemma DEF SameLinks, SetOwner
  <2> QED
    BY <2>3, <1>7
<1>6. CASE Appends(t)
  <2>1. th[t].file \in live /\ AppendContent(th[t].file, th[t].size) /\ th[t].size \in Nat
    BY <1>6 DEF Appends, ThreadOK, Thread
  <2>2. PICK n \in live, z \in Nat : n = th[t].file /\ AppendContent(n, z)
    BY <2>1
  <2>3. live' = live /\ \A m \in live \ {n} : node'[m] = node[m]
    BY <2>2, AppendContentLemma
  <2>4. node'[n].son = node[n].son /\ node'[n].father = node[n].father
    <3>1. node'[n] = [node[n] EXCEPT !.file_sz = node[n].file_sz + z, !.modified = TRUE]
      BY <2>2 DEF AppendContent, StorageTypeOK, live
    <3> QED
      BY <1>1, <3>1 DEF Node
  <2>5. SameLinks
    BY <2>2, <2>3, <2>4 DEF SameLinks, AppendContent
  <2> QED
    BY <2>5, <1>7
<1> QED
  BY <1>2, <1>3, <1>4, <1>5, <1>6 DEF Changes

\* So does every step.
LEMMA ListNext ==
  ASSUME StorageAssumption, WorkersAssumption, TypeInv, [Next]_vars
  PROVE  ListKept
<1> USE DEF TypeInv, Typed
<1>1. CASE \E t \in Worker : Safe(t) /\ Handler(t) /\ UNCHANGED undefined
  <2>1. PICK t \in Worker : Changes(t)
    BY <1>1, HandlerLemma
  <2> QED
    BY <2>1, ListChange
<1>2. CASE UNCHANGED storage
  <2>1. SameLinks
    BY <1>2 DEF storage, SameLinks, live
  <2>2. \A k \in Nat : \A s : Segment(s, k) /\ (Whole(s, k) \/ Broken(s, k)) =>
          BrokenInv' \/ (Whole(s, k) /\ WholeInv')
    BY <2>1, SameLinksKeepList
  <2> QED
    BY <2>2, ListKeptLemma
<1>3. CASE \E t \in Worker : Begin(t)
  BY <1>2, <1>3 DEF Begin
<1> QED
  BY <1>1, <1>2, <1>3, NextCases

\* The empty list is whole.
LEMMA ListInit == ASSUME Init PROVE WholeInv
<1>1. live = {} /\ head = NULL /\ last = NULL
  BY DEF Init, StorageInit, live
<1>2. Segment(<<>>, 0) /\ Whole(<<>>, 0)
  BY <1>1 DEF Segment, Whole
<1> QED
  BY <1>2 DEF WholeInv

\* The list is whole, or broken for good.
LEMMA ListInvariant == Spec => []ListInv
<1>1. TypeInv /\ ListInv /\ [Next]_vars => ListInv'
  BY ListNext, StorageAssumption, WorkersAssumption DEF ListKept, ListInv
<1>2. Init => ListInv
  BY ListInit DEF ListInv
<1> QED
  BY <1>1, <1>2, TypeInvariant, PTL DEF Spec

\* A set of numbers that is not empty has a least element.
LEMMA LeastNumber ==
  ASSUME NEW B, \A x \in B : x \in Nat, B # {}
  PROVE  \E x \in B : \A y \in B : x <= y
<1>1. PICK b \in B : b \in Nat
  OBVIOUS
<1> DEFINE I == {0 .. i : i \in {j \in B : j <= b}}
<1>2. I \subseteq SUBSET (0 .. b) /\ 0 .. b \in I
  <2>1. \A j \in B : j <= b => 0 .. j \subseteq 0 .. b
    BY <1>1
  <2>2. b <= b
    BY <1>1
  <2> QED
    BY <1>1, <2>1, <2>2
<1>3. IsFiniteSet(0 .. b)
  BY <1>1, FS_Interval
<1>4. PICK r \in I : \A q \in I : ~ (q \subseteq r /\ q # r)
  <2> HIDE DEF I
  <2>1. PICK S, J : S = 0 .. b /\ J = I
    OBVIOUS
  <2>2. IsFiniteSet(S) /\ J \subseteq SUBSET S /\ J # {}
    BY <1>2, <1>3, <2>1
  <2>3. \E x \in J : \A y \in J : ~ (y \subseteq x /\ y # x)
    BY <2>2, SubsetMin
  <2> QED
    BY <2>1, <2>3
<1>5. PICK x \in B : x <= b /\ r = 0 .. x
  BY <1>4
<1>6. ASSUME NEW y \in B PROVE x <= y
  <2> SUFFICES ASSUME ~(x <= y) PROVE FALSE
    OBVIOUS
  <2>1. x \in Nat /\ y \in Nat /\ y < x /\ y <= b
    BY <1>1, <1>5
  <2>2. 0 .. y \in I
    BY <2>1
  <2>3. 0 .. y \subseteq 0 .. x /\ x \in 0 .. x /\ x \notin 0 .. y
    BY <2>1
  <2>4. 0 .. y # 0 .. x
    BY <2>3
  <2> QED
    BY <1>4, <1>5, <2>2, <2>3, <2>4
<1> QED
  BY <1>5, <1>6

\* What Chain computes, and that it is the only function that does.
ChainStep(C) ==
  C = [k \in Nat |-> IF k = 0 THEN head
                     ELSE IF C[k - 1] \in live THEN node[C[k - 1]].son ELSE NULL]

\* Two such functions would differ at a first place.
LEMMA ChainUnique == ASSUME NEW C, ChainStep(C) PROVE Chain = C
<1>1. ChainStep(Chain)
  BY DEF ChainStep, Chain
<1> DEFINE B == {k \in Nat : Chain[k] # C[k]}
<1>2. ASSUME B # {} PROVE FALSE
  <2>1. PICK k \in B : \A y \in B : k <= y
    <3> HIDE DEF B
    <3>1. \A x \in B : x \in Nat
      BY DEF B
    <3> QED
      BY <1>2, <3>1, LeastNumber
  <2>2. k \in Nat /\ Chain[k] # C[k]
    OBVIOUS
  <2>3. CASE k = 0
    BY <1>1, <2>2, <2>3 DEF ChainStep
  <2>4. CASE k # 0
    <3>1. k - 1 \in Nat /\ k - 1 \notin B
      BY <2>1, <2>2, <2>4
    <3>2. Chain[k - 1] = C[k - 1]
      BY <3>1
    <3>3. /\ Chain[k] = IF Chain[k - 1] \in live THEN node[Chain[k - 1]].son ELSE NULL
          /\ C[k] = IF C[k - 1] \in live THEN node[C[k - 1]].son ELSE NULL
      BY <1>1, <2>2, <2>4, Zenon DEF ChainStep
    <3> QED
      BY <2>2, <3>2, <3>3
  <2> QED
    BY <2>3, <2>4
<1>3. \A k \in Nat : Chain[k] = C[k]
  BY <1>2
<1> QED
  BY <1>1, <1>3 DEF ChainStep

\* The nodes searchFileNode and the invariant WellFormed go through are the
\* segment, the pointer at its end, and then NULL.
LEMMA ChainLemma ==
  ASSUME StorageAssumption, StorageTypeOK, NEW k \in Nat, NEW s, Segment(s, k),
         Whole(s, k) \/ Broken(s, k)
  PROVE  /\ \A i \in 0 .. k - 1 : Chain[i] = s[i + 1]
         /\ Chain[k] \notin live
         /\ Whole(s, k) => Chain[k] = NULL
         /\ \A i \in Nat : i > k => Chain[i] = NULL
<1> DEFINE e == IF k = 0 THEN NULL ELSE node[s[k]].son
<1>1. NULL \notin live
  BY DEF StorageAssumption, StorageTypeOK
<1>2. e \notin live /\ (Whole(s, k) => e = NULL)
  BY <1>1 DEF Whole, Broken
<1> HIDE DEF e
<1> DEFINE C == [i \in Nat |-> IF i < k THEN s[i + 1] ELSE IF i = k THEN e ELSE NULL]
<1>3. \A i \in Nat : C[i] = IF i < k THEN s[i + 1] ELSE IF i = k THEN e ELSE NULL
  OBVIOUS
<1> DEFINE D(i) == IF i = 0 THEN head
                   ELSE IF C[i - 1] \in live THEN node[C[i - 1]].son ELSE NULL
<1>4. ASSUME NEW i \in Nat PROVE C[i] = D(i)
  <2> HIDE DEF C
  <2>1. CASE i = 0 /\ k = 0
    BY <1>3, <2>1 DEF e, Segment
  <2>2. CASE i = 0 /\ k # 0
    BY <1>3, <2>2 DEF Segment
  <2>3. CASE i # 0 /\ i - 1 < k
    <3>1. PICK j \in 1 .. k : j = i
      BY <2>3
    <3>2. C[i - 1] = s[i] /\ s[i] \in live
      <4>1. i - 1 \in Nat /\ (i - 1) + 1 = i
        BY <2>3
      <4> QED
        BY <1>3, <2>3, <3>1, <4>1 DEF Segment
    <3>3. CASE i = k
      BY <1>3, <2>3, <3>2, <3>3 DEF e
    <3>4. CASE i # k
      <4>1. node[s[i]].son = s[i + 1] /\ i < k
        BY <3>1, <3>4 DEF Segment
      <4> QED
        BY <1>3, <2>3, <3>2, <4>1
    <3> QED
      BY <3>3, <3>4
  <2>4. CASE i # 0 /\ ~(i - 1 < k)
    <3>1. i - 1 \in Nat /\ i > k
      BY <2>4
    <3>2. C[i - 1] \notin live
      BY <1>1, <1>2, <1>3, <2>4, <3>1
    <3> QED
      BY <1>3, <2>4, <3>1, <3>2
  <2> QED
    BY <2>1, <2>2, <2>3, <2>4
<1>5. ChainStep(C)
  <2>1. C = [i \in Nat |-> D(i)]
    <3> HIDE DEF D
    <3> QED
      BY <1>4
  <2> HIDE DEF C
  <2> QED
    BY <2>1 DEF ChainStep
<1>6. Chain = C
  BY <1>5, ChainUnique
<1>7. \A i \in 0 .. k - 1 : i \in Nat /\ i < k
  OBVIOUS
<1> HIDE DEF C
<1> QED
  BY <1>2, <1>3, <1>6, <1>7

\* A segment of k files has k files.
LEMMA SegmentCount ==
  ASSUME NEW k \in Nat, NEW s, Segment(s, k)
  PROVE  IsFiniteSet(Reach(s, k)) /\ Cardinality(Reach(s, k)) = k /\ Reach(s, k) \subseteq live
<1> DEFINE f == [i \in 1 .. k |-> s[i]]
           R == Reach(s, k)
<1>1. f \in Bijection(1 .. k, R)
  <2>1. \A i \in 1 .. k : f[i] = s[i] /\ f[i] \in R
    BY DEF Reach
  <2>2. \A i, j \in 1 .. k : f[i] = f[j] => i = j
    BY <2>1 DEF Segment
  <2>3. \A n \in R : \E i \in 1 .. k : f[i] = n
    BY <2>1 DEF Reach
  <2>4. f \in [1 .. k -> R]
    BY <2>1
  <2> HIDE DEF f, R
  <2>5. f \in Injection(1 .. k, R)
    BY <2>2, <2>4, Zenon DEF Injection, IsInjective
  <2>6. f \in Surjection(1 .. k, R)
    BY <2>3, <2>4, Zenon DEF Surjection
  <2> QED
    BY <2>5, <2>6 DEF Bijection
<1>2. IsFiniteSet(1 .. k) /\ Cardinality(1 .. k) = k
  <2>1. Cardinality(1 .. k) = IF 1 > k THEN 0 ELSE k - 1 + 1
    BY FS_Interval
  <2> QED
    BY <2>1, FS_Interval
<1> HIDE DEF f
<1>3. ExistsBijection(1 .. k, R)
  BY <1>1 DEF ExistsBijection
<1>4. R \subseteq live
  BY DEF Segment, Reach
<1> HIDE DEF R
<1>5. IsFiniteSet(R) /\ Cardinality(R) = k
  BY <1>2, <1>3, FS_Bijection
<1> QED
  BY <1>4, <1>5 DEF R

\* A whole list of k files has all the stored files.
LEMMA WholeCount ==
  ASSUME NEW k \in Nat, NEW s, Segment(s, k), Whole(s, k)
  PROVE  live = Reach(s, k) /\ Cardinality(live) = k
<1>1. live \subseteq Reach(s, k)
  BY DEF Whole, Reach
<1> QED
  BY <1>1, SegmentCount

\* head, last, son and father describe one list of exactly the stored files
\* until a file in the middle is removed (file_storage.c:90-95); from then
\* on, and for good, some file points at a freed one.
THEOREM ListCorrect == Spec => []ListShape
<1>1. TypeInv /\ ListInv => ListShape
  <2> SUFFICES ASSUME TypeInv, ListInv PROVE ListShape
    OBVIOUS
  <2>1. StorageTypeOK /\ NULL \notin live
    BY StorageAssumption DEF TypeInv, Typed, StorageAssumption, StorageTypeOK
  <2>2. PICK k, s : k \in Nat /\ Segment(s, k) /\ (Whole(s, k) \/ Broken(s, k))
    BY DEF ListInv, WholeInv, BrokenInv
  <2>3. CASE Broken(s, k)
    <3>1. s[k] \in live /\ node[s[k]].son \notin live \cup {NULL}
      BY <2>2, <2>3 DEF Broken, Segment
    <3> QED
      BY <3>1 DEF ListShape, Torn
  <2>4. CASE Whole(s, k)
    <3>1. Cardinality(live) = k
      BY <2>2, <2>4, WholeCount
    <3>2. /\ \A i \in 0 .. k - 1 : Chain[i] = s[i + 1]
          /\ Chain[k] = NULL
      BY <2>1, <2>2, <2>4, ChainLemma, StorageAssumption
    <3>3. {Chain[i] : i \in 0 .. k - 1} = live
      <4>1. ASSUME NEW i \in 0 .. k - 1 PROVE Chain[i] \in live
        <5>1. i + 1 \in 1 .. k
          BY <2>2, <4>1
        <5> QED
          BY <2>2, <3>2, <5>1 DEF Segment
      <4>2. ASSUME NEW n \in live PROVE \E i \in 0 .. k - 1 : n = Chain[i]
        <5>1. PICK j \in 1 .. k : n = s[j]
          BY <2>4 DEF Whole
        <5>2. j - 1 \in 0 .. k - 1 /\ (j - 1) + 1 = j
          BY <2>2, <5>1
        <5> QED
          BY <3>2, <5>1, <5>2
      <4> QED
        BY <4>1, <4>2
    <3>4. last = IF k = 0 THEN NULL ELSE Chain[k - 1]
      <4>1. k # 0 => k - 1 \in 0 .. k - 1 /\ (k - 1) + 1 = k
        BY <2>2
      <4> QED
        BY <2>4, <3>2, <4>1 DEF Whole
    <3>5. ASSUME NEW n \in live
          PROVE  IF n = head THEN node[n].father = NULL
                 ELSE node[n].father \in live /\ node[node[n].father].son = n
      <4>1. PICK j \in 1 .. k : n = s[j]
        BY <2>4 DEF Whole
      <4>2. head = s[1] /\ 1 \in 1 .. k
        BY <2>2 DEF Segment
      <4>3. CASE j = 1
        BY <2>2, <4>1, <4>2, <4>3 DEF Segment
      <4>4. CASE j # 1
        <5>1. n # head /\ node[n].father = s[j - 1]
          BY <2>2, <4>1, <4>2, <4>4 DEF Segment
        <5>2. PICK i \in 1 .. k : i = j - 1 /\ i # k /\ i + 1 = j
          BY <2>2, <4>4
        <5>3. s[i] \in live /\ node[s[i]].son = s[j]
          BY <2>2, <5>2 DEF Segment
        <5> QED
          BY <4>1, <5>1, <5>2, <5>3
      <4> QED
        BY <4>3, <4>4
    <3>6. WellFormed
      BY <3>1, <3>2, <3>3, <3>4, <3>5 DEF WellFormed
    <3> QED
      BY <3>6 DEF ListShape
  <2> QED
    BY <2>2, <2>3, <2>4
<1> QED
  BY <1>1, TypeInvariant, ListInvariant, PTL

(***************************************************************************)
(* One worker thread.  While the list is whole, the pointers its thread    *)
(* keeps from one critical section to the next are to stored files; only   *)
(* current_file of UpdateFile is not, before the first eviction.           *)
(***************************************************************************)
EvictLoop == {"outer", "load", "inner", "evict"}

\* The statements each request comes through, for any number of threads.
OpFits(t) ==
  /\ th[t].pc \in {"appWait", "appLocked", "updSize", "updReject", "updWait", "updApply"}
       => th[t].op = "append"
  /\ th[t].pc \in EvictLoop \cup {"room", "final"} => th[t].op \in {"create", "append"}
  /\ At(t, "insLink") => th[t].op = "create"
  /\ th[t].evicted => th[t].pc \in EvictLoop \cup {"final", "insLink", "updWait", "updApply",
                                                   "ok", "ko", "idle"}

OpsInv == \A t \in Worker : OpFits(t)

\* A thread goes on with the statements of its own request.
LEMMA OpFitsStep ==
  ASSUME NEW t \in Worker, OpFits(t), LocalStep(t)
  PROVE  OpFits(t)'
<1>1. CASE Ends(t)
  BY <1>1 DEF Ends, OpFits, At, EvictLoop
<1>2. CASE Finds(t)
  <2>1. /\ th'[t].op = th[t].op /\ ~th'[t].evicted
        /\ th'[t].pc = IF th'[t].file = NULL THEN MissingPC(th[t].op) ELSE FoundPC(th[t].op)
        /\ th'[t].pc # "ko"
    BY <1>2 DEF Finds, SameAsk, OpFits, At, EvictLoop
  <2>2. \/ th'[t].pc = "room" /\ th[t].op = "create"
        \/ th'[t].pc = "appWait" /\ th[t].op = "append"
        \/ th'[t].pc \in {"openTry", "readWait", "closeTry"}
    BY <2>1 DEF MissingPC, FoundPC
  <2> QED
    BY <2>1, <2>2 DEF OpFits, At, EvictLoop
<1>3. CASE Evicts(t)
  BY <1>3 DEF Evicts, Moves, SameFile, SameAsk, OpFits, At, EvictLoop
<1>4. CASE Scans(t)
  <2>1. th'[t].op = th[t].op /\ th'[t].evicted = th[t].evicted
    BY <1>4 DEF Scans, SameTrace, SameFile, SameAsk
  <2>2. \/ th[t].pc \in EvictLoop /\ th'[t].pc \in EvictLoop \cup {"final"}
        \/ th[t].pc \in {"readNHead", "readNFile"} /\ th'[t].pc = "readNFile"
    BY <1>4 DEF Scans, Moves, EvictLoop
  <2> QED
    BY <2>1, <2>2 DEF OpFits, At, EvictLoop
<1>5. CASE Goes(t)
  <2>1. th'[t].op = th[t].op /\ th'[t].evicted = th[t].evicted
    BY <1>5 DEF Goes, SameScan, SameTrace, SameFile, SameAsk
  <2>2. CASE Moves(t, {"room", "final"}, {EnoughPC(t)})
    <3>1. th'[t].pc = EnoughPC(t) /\ th[t].op \in {"create", "append"}
      BY <2>2 DEF Moves, OpFits
    <3> QED
      BY <2>1, <3>1 DEF EnoughPC, OpFits, At, EvictLoop
  <2>3. CASE ~Moves(t, {"room", "final"}, {EnoughPC(t)})
    BY <1>5, <2>1, <2>3 DEF Goes, Moves, OpFits, At, EvictLoop
  <2> QED
    BY <2>2, <2>3
<1> QED
  BY <1>1, <1>2, <1>3, <1>4, <1>5 DEF LocalStep

\* A new request starts at the search or the scan, with nothing evicted.
LEMMA BeginsClean ==
  ASSUME StorageAssumption, WorkersAssumption, NEW t \in Worker, Typed, Begin(t)
  PROVE  th'[t].pc \in {"search", "readNCount"} /\ ~th'[t].evicted
<1>1. PICK op \in Op, c \in Client :
        \/ \E n \in ReadCount :
             Become(t, [Idle EXCEPT !.pc = "readNCount", !.op = op, !.client = c, !.n_read = n])
        \/ \E p \in Path, s \in Nat :
             Become(t, [Idle EXCEPT !.pc = "search", !.op = op, !.client = c, !.path = p, !.size = s])
  BY DEF Begin, WorkersAssumption
<1> QED
  BY <1>1 DEF Become, Idle, Typed

\* So every request keeps to its statements.
LEMMA OpsInvariant == Spec => []OpsInv
<1>1. Init => OpsInv
  BY DEF Init, OpsInv, OpFits, At, Idle, EvictLoop
<1>2. TypeInv /\ OpsInv /\ [Next]_vars => OpsInv'
  <2> SUFFICES ASSUME TypeInv, OpsInv, [Next]_vars PROVE OpsInv'
    OBVIOUS
  <2> USE StorageAssumption, WorkersAssumption DEF TypeInv
  <2>1. ASSUME NEW t \in Worker, Safe(t), Handler(t) PROVE OpsInv'
    <3>1. OpFits(t)'
      BY <2>1, LocalStepLemma, OpFitsStep DEF OpsInv
    <3>2. \A u \in Worker \ {t} : th'[u] = th[u]
      BY <2>1, HandlerLemma DEF Keeps, Local
    <3> QED
      BY <3>1, <3>2 DEF OpsInv, OpFits, At
  <2>2. ASSUME NEW t \in Worker, Begin(t) PROVE OpsInv'
    <3>1. OpFits(t)'
      BY <2>2, BeginsClean DEF OpFits, At, EvictLoop
    <3>2. \A u \in Worker \ {t} : th'[u] = th[u]
      BY <2>2, BeginLemma
    <3> QED
      BY <3>1, <3>2 DEF OpsInv, OpFits, At
  <2>3. CASE UNCHANGED th
    BY <2>3 DEF OpsInv, OpFits, At
  <2> QED
    BY <2>1, <2>2, <2>3, NextCases
<1> QED
  BY <1>1, <1>2, TypeInvariant, PTL DEF Spec

NullOrLive(n) == n \in live \cup {NULL}

\* What the pointers of a whole list are.
LEMMA LinkedLemma ==
  ASSUME StorageAssumption, StorageTypeOK, WholeInv
  PROVE  /\ NULL \notin live
         /\ NullOrLive(head) /\ NullOrLive(last) /\ OldHead \subseteq live
         /\ \A n \in live : /\ NullOrLive(node[n].son) /\ node[n].son # n
                            /\ NullOrLive(node[n].father) /\ node[n].father # n
                            /\ Neighbour(n) \subseteq live
                            /\ NullOrLive(NextToScan(n)) /\ NextToScan(n) # n
<1>1. NULL \notin live
  BY DEF StorageAssumption, StorageTypeOK
<1>2. PICK k, s : k \in Nat /\ Segment(s, k) /\ Whole(s, k)
  BY DEF WholeInv
<1>3. k # 0 => 1 \in 1 .. k /\ k \in 1 .. k
  BY <1>2
<1>4. NullOrLive(head) /\ NullOrLive(last) /\ OldHead \subseteq live
  <2>1. CASE k = 0
    BY <1>2, <2>1 DEF Segment, Whole, NullOrLive, OldHead
  <2>2. CASE k # 0
    BY <1>2, <1>3, <2>2 DEF Segment, Whole, NullOrLive, OldHead
  <2> QED
    BY <2>1, <2>2
<1>5. ASSUME NEW n \in live
      PROVE  /\ NullOrLive(node[n].son) /\ node[n].son # n
             /\ NullOrLive(node[n].father) /\ node[n].father # n
  <2>1. PICK i \in 1 .. k : n = s[i]
    BY <1>2 DEF Whole
  <2>2. NullOrLive(node[n].father) /\ node[n].father # n
    <3>1. node[n].father = IF i = 1 THEN NULL ELSE s[i - 1]
      BY <1>2, <2>1 DEF Segment
    <3>2. CASE i = 1
      BY <1>1, <3>1, <3>2 DEF NullOrLive
    <3>3. CASE i # 1
      <4>1. PICK j \in 1 .. k : j = i - 1 /\ j # i
        BY <1>2, <3>3
      <4>2. s[j] \in live /\ s[j] # s[i]
        BY <1>2, <4>1 DEF Segment
      <4> QED
        BY <2>1, <3>1, <3>3, <4>1, <4>2 DEF NullOrLive
    <3> QED
      BY <3>2, <3>3
  <2>3. NullOrLive(node[n].son) /\ node[n].son # n
    <3>1. CASE i = k
      BY <1>1, <1>2, <2>1, <3>1 DEF Whole, NullOrLive
    <3>2. CASE i # k
      <4>1. PICK j \in 1 .. k : j = i + 1 /\ j # i
        BY <1>2, <3>2
      <4>2. s[j] \in live /\ s[j] # s[i] /\ node[s[i]].son = s[j]
        BY <1>2, <3>2, <4>1 DEF Segment
      <4> QED
        BY <2>1, <4>2 DEF NullOrLive
    <3> QED
      BY <3>1, <3>2
  <2> QED
    BY <2>2, <2>3
<1>6. ASSUME NEW n \in live
      PROVE  /\ Neighbour(n) \subseteq live
             /\ NullOrLive(NextToScan(n)) /\ NextToScan(n) # n
  BY <1>1, <1>5 DEF NullOrLive, Neighbour, NextToScan, IsLast, IsHead
<1> QED
  BY <1>1, <1>4, <1>5, <1>6

\* searchFileNode returns a stored file or NULL.
LEMMA SearchLive == ASSUME NEW p PROVE NullOrLive(SearchFileNode(p))
<1>1. \A n \in FirstHit(p) : n \in live
  BY DEF FirstHit, Hits
<1>2. FirstHit(p) # {} => (CHOOSE n \in FirstHit(p) : TRUE) \in FirstHit(p)
  OBVIOUS
<1> QED
  BY <1>1, <1>2, Zenon DEF SearchFileNode, NullOrLive

\* searchFileNode walks along the stored files, on a whole list.
LEMMA ScannedLive ==
  ASSUME StorageAssumption, StorageTypeOK, CountMatches, WholeInv, NEW p
  PROVE  Scanned(p) \subseteq live
<1>1. PICK k, s : k \in Nat /\ Segment(s, k) /\ Whole(s, k)
  BY DEF WholeInv
<1>2. Positions = 0 .. k - 1
  <2>1. Cardinality(live) = k /\ Cardinality(live) = N_FILE - nfile_dispo
    BY <1>1, WholeCount DEF CountMatches
  <2> QED
    BY <2>1 DEF Positions
<1>3. \A i \in 0 .. k - 1 : Chain[i] \in live
  <2> TAKE i \in 0 .. k - 1
  <2>1. Chain[i] = s[i + 1]
    BY <1>1, ChainLemma
  <2>2. i + 1 \in 1 .. k
    BY <1>1
  <2> QED
    BY <1>1, <2>1, <2>2 DEF Segment
<1> QED
  BY <1>2, <1>3 DEF Scanned

UsesFile == {"openTry", "closeTry", "readWait", "readLocked", "appWait", "appLocked"}

Pointers(t) ==
  /\ th[t].pc \in UsesFile => th[t].file \in live
  /\ InUpdateFile(t) => th[t].file \in live /\ Owner(t) = th[t].client
  /\ th[t].pc \in {"inner", "evict"} =>
       NullOrLive(th[t].cur) \/ (th[t].op = "append" /\ ~th[t].evicted)
  /\ At(t, "evict") => th[t].cur # NULL
  /\ th[t].evicted /\ th[t].op = "append" /\ th[t].pc \in EvictLoop => NullOrLive(th[t].nxt)
  /\ At(t, "readNFile") => NullOrLive(th[t].cur)

\* The read of a current_file that was not assigned.
Wild(t) == At(t, "evict") /\ th[t].op = "append" /\ ~th[t].evicted

\* With such pointers, and a whole list, nothing else can go wrong.
LEMMA PointersSafe ==
  ASSUME StorageAssumption, StorageTypeOK, CountMatches, WholeInv,
         NEW t \in Worker, OpFits(t), Pointers(t), ~Wild(t)
  PROVE  Safe(t)
<1>1. CASE At(t, "search")
  BY <1>1, ScannedLive DEF Safe, Touched, At
<1>2. CASE At(t, "insLink")
  BY <1>2, LinkedLemma DEF Safe, Touched, At
<1>3. CASE At(t, "evict")
  <2>1. th[t].cur \in live
    BY <1>3 DEF Pointers, Wild, OpFits, EvictLoop, At, NullOrLive
  <2>2. Neighbour(th[t].cur) \subseteq live
    BY <2>1, LinkedLemma
  <2> QED
    BY <1>3, <2>1, <2>2 DEF Safe, Touched, At, WithNeighbour
<1>4. CASE At(t, "updReject")
  <2>1. th[t].file \in live
    BY <1>4 DEF Pointers, OpFits, At, InUpdateFile
  <2>2. Neighbour(th[t].file) \subseteq live
    BY <2>1, LinkedLemma
  <2> QED
    BY <1>4, <2>1, <2>2 DEF Safe, Touched, At, WithNeighbour
<1>5. CASE At(t, "updSize")
  BY <1>5 DEF Safe, Touched, At, Pointers, OpFits, InUpdateFile
<1>6. CASE At(t, "readNFile")
  BY <1>6 DEF Safe, Touched, At, Pointers, NullOrLive
<1>7. CASE th[t].pc \in UsesFile \cup {"updWait", "updApply"}
  <2>1. th[t].file \in live
    BY <1>7 DEF Pointers, OpFits, InUpdateFile, UsesFile
  <2> QED
    BY <1>7, <2>1 DEF Safe, Touched, At, UsesFile
<1>8. CASE th[t].pc \notin UsesFile \cup {"updWait", "updApply", "search", "insLink", "evict",
                                          "updReject", "updSize", "readNFile"}
  BY <1>8 DEF Safe, Touched, At, UsesFile
<1> QED
  BY <1>1, <1>2, <1>3, <1>4, <1>5, <1>6, <1>7, <1>8 DEF At

\* What UpdateFile works on stays where it is under the thread's own steps.
LEMMA TargetKept ==
  ASSUME StorageAssumption, WorkersAssumption, NEW t \in Worker, Typed, Safe(t), Handler(t),
         Pointers(t), InUpdateFile(t)'
  PROVE  th'[t].file \in live' /\ node'[th'[t].file].fdClient_id = th'[t].client
<1>1. /\ SameRequest(t) /\ Entering(t) /\ Changes(t)
      /\ th[t].client \in Client /\ NoClient \notin Client /\ ThreadOK(th[t])
  BY EnteringLemma, HandlerLemma DEF StorageAssumption, Typed
<1>2. CASE InUpdateFile(t) /\ ~At(t, "updReject")
  <2>1. th[t].file \in live /\ node[th[t].file].fdClient_id = th[t].client
    BY <1>2 DEF Pointers, Owner
  <2>2. th'[t].file = th[t].file /\ th'[t].client = th[t].client
    BY <1>1, <1>2 DEF SameRequest, InUpdateFile, At
  <2>3. th[t].file \in live'
    <3> SUFFICES ASSUME th[t].file \in live \ live' PROVE FALSE
      BY <2>1
    <3>1. Removable(th[t].file)
      BY <1>1, <1>2, RemovedLemma DEF Typed
    <3> QED
      BY <1>1, <2>1, <3>1 DEF Removable
  <2>4. ~At(t, "readNFile") /\ ~At(t, "closeTry")
    BY <1>2 DEF InUpdateFile, At
  <2>5. node'[th[t].file].fdClient_id = th[t].client
    BY <1>1, <2>1, <2>3, <2>4, FieldsLemma DEF Typed
  <2> QED
    BY <2>2, <2>3, <2>5
<1>3. CASE AppendLocked(t) /\ Owner(t) = th[t].client
  <2>1. th'[t].file = th[t].file /\ th'[t].client = th[t].client
    BY <1>1, <1>3 DEF SameRequest, InUpdateFile, AppendLocked, At
  <2>2. UNCHANGED storage /\ th[t].file \in live
    BY <1>3, SafeLemma DEF AppendLocked, At
  <2>3. node' = node /\ live' = live
    BY <2>2, UnchangedStorage DEF Typed
  <2> QED
    BY <1>3, <2>1, <2>2, <2>3 DEF Owner
<1> QED
  BY <1>1, <1>2, <1>3 DEF Entering

\* A thread's own step leaves it with such pointers, if the list was whole.
LEMMA PointersStep ==
  ASSUME StorageAssumption, WorkersAssumption, NEW t \in Worker, Typed, Safe(t), Handler(t),
         WholeInv, OpFits(t), OpFits(t)', Pointers(t)
  PROVE  Pointers(t)'
<1>1. LocalStep(t) /\ StorageTypeOK
  BY LocalStepLemma DEF Typed
<1>2. InUpdateFile(t)' => th'[t].file \in live' /\ node'[th'[t].file].fdClient_id = th'[t].client
  BY TargetKept
<1>3. /\ NULL \notin live /\ Uninit \notin live \cup {NULL}
      /\ NullOrLive(head) /\ NullOrLive(last)
      /\ \A n \in live : /\ NullOrLive(node[n].son) /\ NullOrLive(node[n].father)
                         /\ NullOrLive(NextToScan(n)) /\ NextToScan(n) # n
  BY <1>1, LinkedLemma DEF WorkersAssumption, Ptr, StorageTypeOK
<1>4. ASSUME live' = live PROVE \A n : NullOrLive(n) => NullOrLive(n)'
  BY <1>4 DEF NullOrLive
<1>5. CASE Ends(t)
  BY <1>5 DEF Ends, Pointers, UsesFile, EvictLoop, InUpdateFile, At
<1>6. CASE Finds(t) /\ UNCHANGED storage
  <2>1. live' = live /\ ~th'[t].evicted
    BY <1>1, <1>6, UnchangedStorage DEF Finds, OpFits, At, EvictLoop
  <2>2. /\ th'[t].file = SearchFileNode(th[t].path)
        /\ th'[t].pc = IF th'[t].file = NULL THEN MissingPC(th[t].op) ELSE FoundPC(th[t].op)
        /\ th'[t].pc # "ko"
    BY <1>6 DEF Finds
  <2>3. /\ th'[t].pc \in {"room", "openTry", "readWait", "appWait", "closeTry"}
        /\ th'[t].pc # "room" => th'[t].file # NULL
    BY <2>2 DEF MissingPC, FoundPC
  <2>4. th'[t].file # NULL => th'[t].file \in live'
    BY <2>1, <2>2, SearchLive DEF NullOrLive
  <2> QED
    BY <1>2, <2>1, <2>3, <2>4 DEF Pointers, UsesFile, EvictLoop, Owner, At
<1>7. CASE Evicts(t)
  <2>1. /\ At(t, "evict") /\ th'[t].pc = "inner" /\ th'[t].evicted
        /\ th'[t].cur = NextToScan(th[t].cur)
        /\ th'[t].op = th[t].op
        /\ (th[t].op = "append" /\ th'[t].nxt = th'[t].cur) \/ th[t].op = "create"
    BY <1>7 DEF Evicts, Moves, At, SameFile, SameAsk
  <2>2. th[t].cur \in live /\ live' = live \ {th[t].cur}
    <3>1. th[t].cur \in live
      BY <2>1, SafeLemma
    <3> QED
      BY <1>7, <3>1 DEF Evicts, RemoveFile, Unlink, live
  <2>3. th'[t].cur \in live' \cup {NULL}
    BY <1>3, <2>1, <2>2 DEF NullOrLive
  <2>4. th'[t].op = "append" => th'[t].nxt \in live' \cup {NULL}
    BY <2>1, <2>3
  <2> QED
    BY <1>2, <2>1, <2>3, <2>4 DEF Pointers, UsesFile, EvictLoop, Owner, At, NullOrLive
<1>8. CASE Scans(t) /\ (UNCHANGED storage \/ At(t, "readNFile"))
  <2>1. live' = live
    <3>1. CASE UNCHANGED storage
      BY <1>1, <3>1, UnchangedStorage
    <3>2. CASE At(t, "readNFile")
      <4>1. ReadNFile(t)
        BY <3>2 DEF At, Handler, Answer, Search, Room, OuterTest, LoadLast, InnerTest,
             EvictForCreate, EvictForAppend, FinalTest, InsertLink, OpenTry, CloseTry, ReadWait,
             ReadLocked, AppendWait, AppendLocked, UpdateSize, UpdateReject, UpdateWait,
             UpdateApply, ReadNCount, ReadNHead, WaitForFile
      <4> QED
        BY <4>1, UnchangedStorage DEF ReadNFile, SetOwner, live, storage
    <3> QED
      BY <1>8, <3>1, <3>2
  <2>2. th'[t].op = th[t].op /\ th'[t].evicted = th[t].evicted
    BY <1>8 DEF Scans, SameTrace, SameFile, SameAsk
  <2>3. /\ th[t].pc \in {"outer", "load", "inner", "evict", "readNHead", "readNFile"}
        /\ th'[t].pc \in {"final", "inner", "evict", "outer", "readNFile"}
    BY <1>8 DEF Scans, Moves
  <2>4. th'[t].pc \in {"inner", "evict"} =>
          NullOrLive(th'[t].cur) \/ (th[t].op = "append" /\ ~th[t].evicted)
    <3>1. CASE At(t, "load")
      BY <1>3, <1>8, <3>1 DEF Scans, Moves, At
    <3>2. CASE At(t, "inner")
      BY <1>8, <3>2 DEF Scans, Moves, At, Pointers
    <3>3. CASE At(t, "evict") /\ th[t].op = "create"
      <4>1. th[t].cur \in live
        BY <3>3, SafeLemma
      <4>2. th'[t].cur = node[th[t].cur].father
        BY <1>8, <3>3 DEF Scans, Moves, At
      <4> QED
        BY <1>3, <4>1, <4>2
    <3>4. CASE At(t, "evict") /\ th[t].op = "append" /\ th[t].evicted
      <4>1. NullOrLive(th[t].nxt) /\ th[t].nxt # Uninit
        BY <1>3, <3>4 DEF Pointers, EvictLoop, At, NullOrLive
      <4> QED
        BY <1>8, <3>4, <4>1 DEF Scans, Moves, At
    <3>5. CASE th[t].op = "append" /\ ~th[t].evicted
      BY <3>5
    <3>6. At(t, "evict") => th[t].op \in {"create", "append"}
      BY DEF OpFits, EvictLoop, At
    <3>7. CASE th[t].pc \in {"outer", "readNHead", "readNFile"}
      BY <1>8, <3>7 DEF Scans, Moves
    <3> QED
      BY <2>3, <3>1, <3>2, <3>3, <3>4, <3>5, <3>6, <3>7 DEF At
  <2>5. th'[t].pc = "evict" => th'[t].cur # NULL
    BY <1>8 DEF Scans, Moves
  <2>6. th[t].evicted /\ th[t].op = "append" /\ th'[t].pc \in EvictLoop => NullOrLive(th'[t].nxt)
    <3> SUFFICES ASSUME th[t].evicted, th[t].op = "append", th'[t].pc \in EvictLoop
                 PROVE  NullOrLive(th'[t].nxt)
      OBVIOUS
    <3>1. th[t].pc \in EvictLoop
      BY <1>8 DEF Scans, Moves, EvictLoop
    <3>2. NullOrLive(th[t].nxt) /\ th[t].nxt # Uninit
      BY <1>3, <3>1 DEF Pointers, NullOrLive
    <3>3. th'[t].nxt = th[t].nxt
      BY <1>8, <3>1, <3>2 DEF Scans, Moves, EvictLoop
    <3> QED
      BY <3>2, <3>3
  <2>7. th'[t].pc = "readNFile" => NullOrLive(th'[t].cur)
    <3>1. CASE At(t, "readNHead")
      BY <1>3, <1>8, <3>1 DEF Scans, Moves, At
    <3>2. CASE At(t, "readNFile")
      <4>1. th'[t].cur = node[th[t].cur].son /\ th[t].cur # NULL /\ th[t].n_read > 0
        BY <1>8, <3>2 DEF Scans, Moves, At
      <4> QED
        BY <1>3, <3>2, <4>1, SafeLemma
    <3>3. CASE th[t].pc \notin {"readNHead", "readNFile"}
      BY <1>8, <3>3 DEF Scans, Moves
    <3> QED
      BY <3>1, <3>2, <3>3 DEF At
  <2> QED
    BY <1>2, <1>4, <2>1, <2>2, <2>3, <2>4, <2>5, <2>6, <2>7 DEF Pointers, UsesFile, Owner, At
<1>9. CASE Goes(t) /\ UNCHANGED storage
  <2>1. live' = live
    BY <1>1, <1>9, UnchangedStorage
  <2>2. /\ th'[t].op = th[t].op /\ th'[t].evicted = th[t].evicted
        /\ th'[t].file = th[t].file /\ th'[t].nxt = th[t].nxt
    BY <1>9 DEF Goes, SameScan, SameTrace, SameFile, SameAsk
  <2>3. EnoughPC(t) \in {"insLink", "updWait"}
    BY DEF EnoughPC
  <2>4. /\ th'[t].pc \notin {"inner", "evict", "readNFile"}
        /\ th'[t].pc \in UsesFile => th[t].pc \in UsesFile
        /\ th'[t].pc \in EvictLoop => th[t].pc \in EvictLoop \cup {"room"}
    BY <1>9, <2>3 DEF Goes, Moves, UsesFile, EvictLoop
  <2>5. th[t].evicted => th[t].pc # "room"
    BY DEF OpFits, EvictLoop
  <2> QED
    BY <1>2, <1>4, <2>1, <2>2, <2>4, <2>5 DEF Pointers, Owner, At
<1> QED
  BY <1>1, <1>5, <1>6, <1>7, <1>8, <1>9 DEF LocalStep

PointersInv == BrokenInv \/ \A t \in Worker : Pointers(t)

\* What the pointers rest on.
OneWorkerInv == TypeInv /\ ListInv /\ CountMatches /\ OpsInv

\* While the list is whole every step of the only thread keeps the pointers.
LEMMA PointersNext ==
  ASSUME StorageAssumption, WorkersAssumption, NEW w, Worker = {w},
         OneWorkerInv, OpsInv', PointersInv, [Next]_vars
  PROVE  PointersInv'
<1> USE DEF OneWorkerInv, TypeInv
<1>1. ListKept
  BY ListNext
<1>2. CASE BrokenInv
  BY <1>1, <1>2 DEF ListKept, PointersInv
<1>3. CASE WholeInv /\ Pointers(w)
  <2>1. CASE Safe(w) /\ Handler(w)
    <3>1. OpFits(w) /\ OpFits(w)'
      BY DEF OpsInv
    <3>2. Pointers(w)'
      BY <1>3, <2>1, <3>1, PointersStep
    <3> QED
      BY <3>2 DEF PointersInv
  <2>2. CASE Begin(w)
    <3>1. th'[w].pc \in {"search", "readNCount"} /\ ~th'[w].evicted
      BY <2>2, BeginsClean
    <3>2. Pointers(w)'
      BY <3>1 DEF Pointers, UsesFile, EvictLoop, InUpdateFile, At
    <3> QED
      BY <3>2 DEF PointersInv
  <2>3. CASE UNCHANGED <<storage, th>>
    <3>1. th' = th /\ node' = node /\ live' = live
      BY <2>3, UnchangedStorage DEF Typed
    <3>2. Pointers(w)'
      BY <1>3, <3>1 DEF Pointers, InUpdateFile, Owner, At, NullOrLive
    <3> QED
      BY <3>2 DEF PointersInv
  <2> QED
    BY <2>1, <2>2, <2>3, NextCases
<1> QED
  BY <1>2, <1>3 DEF PointersInv, ListInv

UndefinedInv == undefined => BrokenInv \/ \E t \in Worker : Wild(t)

\* The only thread crashes on a broken list or an unassigned pointer.
LEMMA UndefinedNext ==
  ASSUME StorageAssumption, WorkersAssumption, NEW w, Worker = {w},
         OneWorkerInv, PointersInv, UndefinedInv, [Next]_vars
  PROVE  UndefinedInv'
<1> USE DEF OneWorkerInv, TypeInv
<1>1. ListKept
  BY ListNext
<1>2. CASE ~undefined'
  BY <1>2 DEF UndefinedInv
<1>3. CASE undefined' /\ undefined
  <2>1. UNCHANGED vars
    BY <1>3 DEF Next, Step, Stopped
  <2>2. UNCHANGED storage /\ th' = th
    BY <2>1 DEF vars, storage
  <2> QED
    BY <1>1, <1>3, <2>2 DEF UndefinedInv, ListKept, Wild, At
<1>4. CASE undefined' /\ ~undefined
  <2>1. Crash(w)
    BY <1>4 DEF Next, Step, Stopped, Begin, vars
  <2>2. ~Safe(w) /\ th' = th
    BY <2>1 DEF Crash
  <2>3. CASE BrokenInv
    BY <1>1, <2>3 DEF ListKept, UndefinedInv
  <2>4. CASE WholeInv /\ Pointers(w)
    <3>1. Wild(w)
      BY <2>2, <2>4, PointersSafe DEF OpsInv, Typed
    <3> QED
      BY <2>2, <3>1 DEF UndefinedInv, Wild, At
  <2> QED
    BY <2>3, <2>4 DEF PointersInv, ListInv
<1> QED
  BY <1>2, <1>3, <1>4

\* A broken list is torn.
LEMMA BrokenTorn == ASSUME BrokenInv PROVE Torn
<1>1. PICK k, s : k \in Nat /\ Segment(s, k) /\ Broken(s, k)
  BY DEF BrokenInv
<1>2. s[k] \in live /\ node[s[k]].son \notin live \cup {NULL}
  BY <1>1 DEF Segment, Broken
<1> QED
  BY <1>2 DEF Torn

\* One worker thread uses a freed or null pointer for two reasons only: the
\* list that removeFile tore (file_storage.c:90-95), and the current_file
\* UpdateFile reads before its first eviction (file_storage.c:226).
THEOREM UndefinedCorrect ==
  ASSUME Cardinality(Worker) = 1
  PROVE  Spec => []UndefinedOnlyByListOrUninit
<1>1. PICK w : Worker = {w}
  BY FS_Singleton, WorkersAssumption DEF WorkersAssumption
<1> DEFINE IInv == OneWorkerInv /\ PointersInv /\ UndefinedInv
<1>2. Spec => []OneWorkerInv
  BY TypeInvariant, ListInvariant, CountCorrect, OpsInvariant, PTL DEF OneWorkerInv
<1>3. Init => PointersInv /\ UndefinedInv
  BY DEF Init, PointersInv, Pointers, UndefinedInv, InUpdateFile, At, Idle, UsesFile, EvictLoop
<1>4. OneWorkerInv /\ OneWorkerInv' /\ PointersInv /\ UndefinedInv /\ [Next]_vars
        => PointersInv' /\ UndefinedInv'
  <2>1. OneWorkerInv' => OpsInv'
    BY DEF OneWorkerInv
  <2> QED
    BY <1>1, <2>1, PointersNext, UndefinedNext, StorageAssumption, WorkersAssumption
<1>5. UndefinedInv => UndefinedOnlyByListOrUninit
  BY BrokenTorn DEF UndefinedInv, UndefinedOnlyByListOrUninit, Wild
<1> QED
  BY <1>2, <1>3, <1>4, <1>5, PTL DEF Spec

(***************************************************************************)
(* One worker thread: the names of the files.                              *)
(***************************************************************************)

\* When searchFileNode returns NULL the path is not stored, on a broken list
\* too: it has then been through every stored file, or crashed.
LEMMA SearchComplete ==
  ASSUME StorageAssumption, StorageTypeOK, CountMatches, ListInv, NEW p, <<p, p>> \in Matches,
         Scanned(p) \subseteq live, SearchFileNode(p) = NULL
  PROVE  \A n \in live : node[n].pathname # p
<1>1. NULL \notin live /\ IsFiniteSet(live) /\ live \subseteq NodeId
  <2>1. live \subseteq NodeId /\ IsFiniteSet(NodeId)
    BY DEF StorageAssumption, StorageTypeOK
  <2> QED
    BY <2>1, FS_Subset DEF StorageAssumption
<1>2. PICK k, s : k \in Nat /\ Segment(s, k) /\ (Whole(s, k) \/ Broken(s, k))
  BY DEF ListInv, WholeInv, BrokenInv
<1>3. PICK c \in Nat : c = Cardinality(live)
  BY <1>1, FS_CardinalityType
<1>4. Positions = 0 .. c - 1
  BY <1>3 DEF Positions, CountMatches
<1>5. FirstHit(p) = {}
  <2>1. \A n \in FirstHit(p) : n \in live
    BY DEF FirstHit, Hits
  <2>2. FirstHit(p) # {} => (CHOOSE n \in FirstHit(p) : TRUE) \in FirstHit(p)
    OBVIOUS
  <2> QED
    BY <1>1, <2>1, <2>2 DEF SearchFileNode
<1>6. Hits(p) = {}
  <2> SUFFICES ASSUME Hits(p) # {} PROVE FALSE
    OBVIOUS
  <2>1. \A h \in Hits(p) : h \in Nat
    BY <1>4 DEF Hits
  <2>2. PICK h \in Hits(p) : \A g \in Hits(p) : h <= g
    BY <2>1, LeastNumber
  <2>3. Chain[h] \in FirstHit(p)
    BY <2>2 DEF FirstHit
  <2> QED
    BY <1>5, <2>3
<1>7. \A i \in 0 .. c - 1 : Chain[i] \in live
  BY <1>4, <1>6 DEF Scanned
<1>8. live = Reach(s, k) /\ c = k
  <2>1. IsFiniteSet(Reach(s, k)) /\ Cardinality(Reach(s, k)) = k /\ Reach(s, k) \subseteq live
    BY <1>2, SegmentCount
  <2>2. k <= c
    BY <1>1, <1>3, <2>1, FS_Subset
  <2>3. Chain[k] \notin live
    BY <1>2, ChainLemma
  <2>4. k = c
    <3>1. k < c => k \in 0 .. c - 1
      BY <1>2
    <3> QED
      BY <1>2, <1>7, <2>2, <2>3, <3>1
  <2>5. Cardinality(Reach(s, k)) = Cardinality(live)
    BY <1>3, <2>1, <2>4
  <2> QED
    BY <1>1, <2>1, <2>4, <2>5, FS_Subset
<1>9. ASSUME NEW n \in live PROVE node[n].pathname # p
  <2>1. PICK i \in 1 .. k : n = s[i]
    BY <1>8 DEF Reach
  <2>2. PICK j \in 0 .. k - 1 : j + 1 = i
    <3>1. i - 1 \in 0 .. k - 1 /\ (i - 1) + 1 = i
      BY <1>2
    <3> QED
      BY <3>1
  <2>3. Chain[j] = n
    BY <1>2, <2>1, <2>2, ChainLemma
  <2>4. j \in Positions /\ Chain[j] \in live
    BY <1>4, <1>8, <2>2, <2>3
  <2>5. <<node[n].pathname, p>> \notin Matches
    BY <1>6, <2>3, <2>4 DEF Hits
  <2> QED
    BY <2>5
<1> QED
  BY <1>9

\* No handler renames a file, and only insertCreateFile adds one.
LEMMA PathsKept ==
  ASSUME StorageAssumption, StorageTypeOK, NEW t \in Worker, ThreadOK(th[t]), Changes(t)
  PROVE  /\ \A m \in live \cap live' : node'[m].pathname = node[m].pathname
         /\ \/ live' \subseteq live
            \/ /\ At(t, "insLink")
               /\ \E n : live' = live \cup {n} /\ node'[n].pathname = th[t].path
<1>1. \A m \in live : node[m] \in Node
  BY DEF StorageTypeOK
<1>2. CASE UNCHANGED storage
  BY <1>2, UnchangedStorage
<1>3. CASE Removes(t)
  <2>1. PICK n \in live : Unlink(n)
    BY <1>3 DEF Removes, RemoveFile
  <2>2. live' = live \ {n}
    BY <2>1 DEF Unlink, live
  <2>3. \A m \in live \ {n} : node'[m].pathname = node[m].pathname
    BY <1>1, <2>1 DEF Unlink, Node
  <2> QED
    BY <2>2, <2>3
<1>4. CASE Inserts(t)
  <2>1. PICK n \in FreshNode : InsertFile(n, CreateFileNode(th[t].path, th[t].client))
    BY <1>4 DEF Inserts
  <2>2. PICK new : new = CreateFileNode(th[t].path, th[t].client)
    OBVIOUS
  <2>3. new.pathname = th[t].path /\ [new EXCEPT !.son = head].pathname = th[t].path
    BY <2>2 DEF CreateFileNode
  <2>4. LinkAtHead(n, new) /\ n \notin live
    BY <2>1, <2>2 DEF InsertFile, FreshNode
  <2>5. live' = live \cup {n} /\ node'[n].pathname = th[t].path
    BY <2>3, <2>4 DEF LinkAtHead, live
  <2>6. \A m \in live : node'[m].pathname = node[m].pathname
    BY <1>1, <2>4 DEF LinkAtHead, Node
  <2> QED
    BY <1>4, <2>5, <2>6 DEF Inserts
<1>5. CASE Opens(t) \/ Closes(t) \/ Reads(t)
  <2>1. PICK n, c : n \in live /\ node' = [node EXCEPT ![n].fdClient_id = c]
    BY <1>5 DEF Opens, Closes, Reads, SetOwner
  <2>2. live' = live /\ \A m \in live : node'[m].pathname = node[m].pathname
    BY <1>1, <2>1 DEF StorageTypeOK, live, Node
  <2> QED
    BY <2>2
<1>6. CASE Appends(t)
  <2>1. PICK n, z : /\ n \in live
                   /\ node' = [node EXCEPT ![n] = [node[n] EXCEPT !.file_sz = z,
                                                                !.modified = TRUE]]
    BY <1>6 DEF Appends, AppendContent
  <2>2. live' = live /\ \A m \in live : node'[m].pathname = node[m].pathname
    BY <1>1, <2>1 DEF StorageTypeOK, live, Node
  <2> QED
    BY <2>2
<1> QED
  BY <1>2, <1>3, <1>4, <1>5, <1>6 DEF Changes

\* From the search to the link of openFile(O_CREATE) the path is not stored.
NewName(t) ==
  th[t].pc \in EvictLoop \cup {"room", "final", "insLink"} /\ th[t].op = "create" =>
    \A n \in live : node[n].pathname # th[t].path

\* The thread's own steps leave it so.
LEMMA NewNameStep ==
  ASSUME StorageAssumption, WorkersAssumption, \A p \in Path : <<p, p>> \in Matches,
         NEW t \in Worker, Typed, CountMatches, ListInv, Safe(t), Handler(t),
         OpFits(t), NewName(t)
  PROVE  NewName(t)'
<1>1. LocalStep(t) /\ StorageTypeOK /\ ThreadOK(th[t]) /\ Changes(t)
  BY LocalStepLemma, HandlerLemma DEF Typed
<1>2. CASE Ends(t)
  BY <1>2 DEF Ends, NewName, EvictLoop
<1>3. CASE Finds(t) /\ UNCHANGED storage
  <2> SUFFICES ASSUME th'[t].pc = "room", th'[t].op = "create"
               PROVE  NewName(t)'
    BY <1>3 DEF NewName, Finds, MissingPC, FoundPC, EvictLoop
  <2>1. At(t, "search") /\ th[t].op = "create" /\ th'[t].path = th[t].path
    BY <1>3 DEF Finds, SameAsk
  <2>2. SearchFileNode(th[t].path) = NULL
    BY <1>3, <2>1 DEF Finds, FoundPC
  <2>3. Scanned(th[t].path) \subseteq live
    BY <2>1 DEF Safe, Touched, At
  <2>4. th[t].path \in Path
    BY <1>1, <2>1 DEF ThreadOK, NeedsPath, At
  <2>5. \A n \in live : node[n].pathname # th[t].path
    BY <1>1, <2>2, <2>3, <2>4, SearchComplete
  <2>6. live' = live /\ node' = node
    BY <1>1, <1>3, UnchangedStorage
  <2> QED
    BY <2>1, <2>5, <2>6 DEF NewName
<1>4. CASE Evicts(t) \/ Scans(t) \/ Goes(t)
  <2>1. th'[t].op = th[t].op /\ th'[t].path = th[t].path
    BY <1>4 DEF Evicts, Scans, Goes, SameScan, SameTrace, SameFile, SameAsk
  <2>2. ~At(t, "insLink")
    BY <1>4 DEF Evicts, Scans, Goes, Moves, At
  <2>3. /\ live' \subseteq live
        /\ \A m \in live \cap live' : node'[m].pathname = node[m].pathname
    BY <1>1, <2>2, PathsKept
  <2>4. th'[t].pc \in EvictLoop \cup {"room", "final", "insLink"} =>
          th[t].pc \in EvictLoop \cup {"room", "final", "insLink", "updSize"}
    BY <1>4 DEF Evicts, Scans, Goes, Moves, EvictLoop, EnoughPC
  <2>5. At(t, "updSize") => th[t].op = "append"
    BY DEF OpFits, At
  <2> QED
    BY <2>1, <2>3, <2>4, <2>5 DEF NewName, At
<1> QED
  BY <1>1, <1>2, <1>3, <1>4 DEF LocalStep

NamesInv == UniquePaths /\ \A t \in Worker : NewName(t)

\* With one thread nobody stores the path between its search and its link.
LEMMA NamesNext ==
  ASSUME StorageAssumption, WorkersAssumption, \A p \in Path : <<p, p>> \in Matches,
         NEW w, Worker = {w}, OneWorkerInv, NamesInv, [Next]_vars
  PROVE  NamesInv'
<1> USE DEF OneWorkerInv, TypeInv
<1>1. CASE Safe(w) /\ Handler(w)
  <2>1. Changes(w) /\ ThreadOK(th[w]) /\ StorageTypeOK /\ OpFits(w) /\ NewName(w)
    BY <1>1, HandlerLemma DEF Typed, OpsInv, NamesInv
  <2>2. NewName(w)'
    BY <1>1, <2>1, NewNameStep
  <2>3. /\ \A m \in live \cap live' : node'[m].pathname = node[m].pathname
        /\ \/ live' \subseteq live
           \/ /\ At(w, "insLink")
              /\ \E n : live' = live \cup {n} /\ node'[n].pathname = th[w].path
    BY <2>1, PathsKept
  <2>4. UniquePaths'
    <3>1. CASE live' \subseteq live
      BY <2>3, <3>1 DEF NamesInv, UniquePaths
    <3>2. CASE At(w, "insLink")
      <4>1. \A n \in live : node[n].pathname # th[w].path
        BY <2>1, <3>2 DEF NewName, OpFits, At
      <4> QED
        BY <2>3, <4>1 DEF NamesInv, UniquePaths
    <3> QED
      BY <2>3, <3>1, <3>2
  <2> QED
    BY <2>2, <2>4 DEF NamesInv
<1>2. CASE Begin(w)
  <2>1. th'[w].pc \in {"search", "readNCount"} /\ UNCHANGED storage
    BY <1>2, BeginLemma
  <2>2. live' = live /\ node' = node
    BY <2>1, UnchangedStorage DEF Typed
  <2> QED
    BY <2>1, <2>2 DEF NamesInv, UniquePaths, NewName, EvictLoop
<1>3. CASE UNCHANGED <<storage, th>>
  <2>1. th' = th /\ live' = live /\ node' = node
    BY <1>3, UnchangedStorage DEF Typed
  <2> QED
    BY <2>1 DEF NamesInv, UniquePaths, NewName
<1> QED
  BY <1>1, <1>2, <1>3, NextCases

\* With one worker thread no two stored files have the same name: between
\* searchFileNode and the link in insertCreateFile (file_storage.c:139-187)
\* nobody else creates.  Every path is assumed to be a prefix of itself.
THEOREM NamesCorrect ==
  ASSUME Cardinality(Worker) = 1, \A p \in Path : <<p, p>> \in Matches
  PROVE  Spec => []UniquePaths
<1>1. PICK w : Worker = {w}
  BY FS_Singleton, WorkersAssumption DEF WorkersAssumption
<1>2. Spec => []OneWorkerInv
  BY TypeInvariant, ListInvariant, CountCorrect, OpsInvariant, PTL DEF OneWorkerInv
<1>3. Init => NamesInv
  BY DEF Init, StorageInit, NamesInv, UniquePaths, NewName, Idle, EvictLoop, live
<1>4. OneWorkerInv /\ NamesInv /\ [Next]_vars => NamesInv'
  BY <1>1, NamesNext, StorageAssumption, WorkersAssumption
<1>5. NamesInv => UniquePaths
  BY DEF NamesInv
<1> QED
  BY <1>2, <1>3, <1>4, <1>5, PTL DEF Spec
==============================================================================
