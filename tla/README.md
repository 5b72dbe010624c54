# A TLA+ model of the file storage server

The repository is a multi-threaded server that keeps files in memory and serves
them over an AF_UNIX socket (`server.c`, `includes/*.c`), with a command-line
client (`client.c`). This directory holds a model of both: the file storage and
the threads that work on it, the request path from `select` to the answer with
signals and shutdown, the messages on the sockets, the sessions of the client
program, and a server's life from its configuration file to its end and restart.
TLC checks small instances; TLAPS proves the safety properties of the storage, the
queue, the request path, the sockets, the sessions and the configuration, and the
three refinements, for every value of the constants.

## 1. Inventory

| Component | State | Operations | Who calls it |
|---|---|---|---|
| File storage, `file_storage.c` | list of nodes (`head`, `last`, `son`, `father`), `nfile_dispo`, `ram_dispo`, `lock` | `searchFileNode`, `createFileNode`, `insertCreateFile`, `removeFile`, `UpdateFile` | worker threads |
| Request handlers, `util_server.c:144-405` | locals of `threadF` | openFile, readFile, readNFiles, appendToFile, closeFile, closeConnection | worker threads |
| Request queue, `util_server.c:29-70` | list of requests, `count_rq`, `lock`, `queue_cond` | `push` (at head), `pop` (from last) | manager pushes, workers pop |
| Manager, `server.c:131-223` | `set`, `fd_max`, the scan | select, accept, read a request, reactivate a client, broadcast, join | main thread |
| Idle loop, `util_server.c:122-139` | - | wait on `queue_cond`, leave after a signal | worker threads |
| Signal thread, `util_server.c:87-117` | - | `sigwait`, then close one of two pipes | signal thread |
| Shared flags | `nclient`, `sigHUP`, `sigINT_sigQUIT` (volatile, unlocked) | read and written by manager and workers | |
| Statistics | three maxima | sampled after an append, printed at the end | workers, main |
| Client API, `API.c` | socket `fd_c` | one function per request, synchronous | `client.c` |
| Message codec, `util.c`, `conn.c` | the streams of the sockets | `sendMsg`, `sendMsg_File_Content`, `recievedMsg`, `receivedMsg_File_Content`, `readn`, `writen` | both sides |
| Client options, `client.c`, `util_client.c` | list of requests, `*nfiles` of -w | `openAppendClose`, `recDirectory`, the loop over the options | user |
| Configuration, `configuration.c` | `config_t` | parse the file line by line, once | `main` |
| Start-up, `server.c:40-129` | the socket file | configure, create threads, bind, listen | user |

**How they interact.** The manager hears all clients with `select`. When a
request comes it takes the client out of its set, reads the message, and pushes
it on the queue. A worker pops it, works on the storage under `storage->lock` in
several critical sections, writes the answer, and sends the client's descriptor
back through `pipe_fd`; the manager then listens to it again. `closeConnection`
is a request like any other, after which the worker counts the client out and
closes the descriptor. A signal closes a pipe, which makes `select` return; the
manager sets a flag, leaves its loop when the flag (and, for SIGHUP, `nclient`)
says so, wakes all workers and joins them.

The client program turns its options into calls of the API, one at a time. The
server knows it by the descriptor `accept` returned, which is the lowest one free:
it passes to another client when the connection is closed, and with it whatever
was left open under it. A message is a length and a text; the content of a file
follows a text that announces it. Both ends read and write in as many pieces as
the kernel makes of it.

**What is hard.** Pointers found under the lock are used after it was released;
both budgets are tested without the lock and taken under it; the eviction loops
hold the lock for one file at a time while other threads insert, append, close
and evict; three flags are shared without any lock; a wakeup must not fall
between a test and a wait; a client's descriptor passes through four places;
and a shutdown meets all of this at once. Both sides block in the middle of a
message, the manager without looking at anybody else and a worker with the
storage's lock in hand. An end of file looks like an empty message, which some
callers take for the answer 0. `PROJECT.json` lists each hazard at its line.

**What makes each component correct.** Storage: the budgets agree with what is
stored, the list is one doubly linked list of exactly the stored files, a file
somebody has open is not removed or released by others, and requests are
answered (appends only if the eviction loop ends, which it need not). Queue: first in, first out. Request path: a client is in one place at
a time, no wakeup is lost, every request is answered while a worker is left to do
it. Shutdown: SIGINT ends the server, SIGHUP ends it when the clients have left and
not before. Storage as a
whole: an answer 0 means that one request took effect on one file in one step.
Messages: what was written is what is read, and nobody blocks another for ever.
Client: its loops attempt exactly the files asked for, its sessions end, and it is
not told that something was done that was not. Configuration: the numbers it gives
the storage are positive.

## 2. The modules

| Module | What it is |
|---|---|
| `FileStorage` | state of the storage and what each of its critical sections does |
| `StorageWorkers` | EXTENDS it with the worker threads and their request handlers |
| `StorageProperties` | what is checked of them |
| `FileTable` | the abstract storage: files with owners and lengths, requests in one step |
| `StorageLemmas`, `StorageProofs` | the proofs |
| `TableProofs` | the proof that `StorageWorkers` implements `FileTable` |
| `MCStorage` | constants for TLC |
| `Fifo` | the abstract queue |
| `RequestQueue` | the linked queue with `push` and `pop`, and its mapping to `Fifo` |
| `QueueLemmas`, `QueueProofs` | the proof that the list implements `Fifo` |
| `RequestServer` | EXTENDS it with the manager, the idle loop, signals and clients |
| `ServerProperties` | what is checked of them |
| `ServerProofs` | the proofs |
| `MCServer` | constants for TLC |
| `Configuration` | the server's command line and configuration file |
| `ClientSession` | the client program, on `FileTable` |
| `Deployment` | EXTENDS both: a server from its start to its end and again, and its users |
| `DeploymentProperties`, `MCDeployment` | what is checked of it; constants for TLC |
| `DeploymentProofs` | the proofs about the configuration, the sessions and the restarts |
| `Mailbox` | what the sockets promise: whole messages, in order |
| `Transport` | streams, partial reads and writes, the manager and the workers as readers and writers |
| `TransportProperties`, `MCTransport` | what is checked of it, with its mapping to `Mailbox`; constants for TLC |
| `TransportProofs` | the proofs, with that of the mapping |

How they compose: `RequestServer` is the path of a request, whose message arrives
as `Transport` shows (`Mailbox` is what it takes for granted) and is worked on as
in `StorageWorkers`, one thread for each request under way (`Custody` is what
`StorageWorkers` takes for granted: two threads never serve one client).
`StorageWorkers` implements `FileTable`, and `ClientSession` and `Deployment` use
`FileTable` in its place. `Configuration` gives `N_THREAD`, `N_FILE` and
`MEM_SIZE`, which the assumptions of the other modules want positive.

### FileStorage and StorageWorkers

The heap is a function `node` from live addresses to records; `malloc` adds to
its domain and `free` takes away. `son`, `father`, `head`, `last` and the locals
of a thread are addresses or `NULL`. A step that would follow an address outside
the domain is undefined behaviour in C: `Touched(t)` names what the next step of
`t` dereferences, and if that is not all live the only step is `Crash`, which
sets `undefined` and stops the model. So nothing is claimed about the program
after undefined behaviour, and everything up to it.

A thread's `pc` names a statement. One step is one critical section of
`storage->lock`, or one read of shared memory without it:

| `pc` | code |
|---|---|
| `search` | `searchFileNode`, first step of every request but readNFiles |
| `room`, `outer`, `load`, `inner`, `evict`, `final` | the eviction loops of `insertCreateFile` (147-172) and `UpdateFile` (213-235): the first test, the outer test, reading `last`, the inner test, one `removeFile`, the test after the loops |
| `insLink` | linking the new file (174-185) |
| `openTry`, `closeTry` | the attempts of openFile and closeFile |
| `readWait`/`readLocked`, `appWait`/`appLocked` | the unlocked wait and the locked test of readFile, appendToFile |
| `updSize`, `updReject`, `updWait`, `updApply` | `UpdateFile` around its loops |
| `readNCount`, `readNHead`, `readNFile` | readNFiles |
| `ok`, `ko` | the answer 0 or -1 |

Details that matter:

* `UpdateFile` leaves `current_file` unassigned until a removal assigns it
  (215, 222-226). The thread's field `nxt` starts as `Uninit`; reading it then is
  a choice between NULL, any live node and a wild address. A wild address crashes
  at its next use.
* `removeFile` of a middle node is modelled as written: the node is freed and
  nobody is told.
* `evicted` says that an eviction loop removed something for this request (so
  `buf_rm_path` is not empty). The removal of an oversize file's own node
  (`UpdateReject`, 203-211) does not set it.
* In `UpdateReject` the two assignments before `removeFile` make its test true
  and are then freed with the node; the model goes directly to the removal.
* `FreshNode`: `malloc` returns an address that no node, head, last or thread
  still mentions. This keeps a dangling pointer recognisable instead of letting
  it silently become another file; a run that reaches a dangling pointer reports
  it as `undefined`. With `NodeId` larger than the files that can exist plus the
  addresses threads remember, an address is always available (`TwoWorkers` and
  `OneWorker` give 4 and 5); if none is, the creation waits.
* A client is its file descriptor, one request at a time: the API waits for each
  answer, and `Custody` below is the server's half of that.

### RequestQueue and RequestServer

`RequestServer` has the manager (`mgr`: statement, the set `select` returned,
the request in hand), one record per worker (`wk`), the set the manager listens
to, the pipe, the flags, and for each client the state of the connection
(`conn`), of the client process (`cl`), the unread message (`inbox`) and the
message last read (`request`). What happens to the storage during a request is
not repeated here; `WAnswer` stands for the end of a handler of `StorageWorkers`.

* A handler comes to its end, except that of an appendToFile: `UpdateFile` can go
  round in its eviction loop for ever (`EvictionCycle`). A worker that is in the
  middle of an append (`InUpdateFile`) may take its step and does not have to.
* `Pools` are the sets of workers a server may have; `Init` picks one. The others
  are `done` from the start, like threads that have returned.

* `nclient += 1` and `-= 1` are a read and a write (`MAccept`/`MCount`,
  `WDecRead`/`WDecWrite`); `sigHUP` and `nclient` are read separately by a worker
  (`WTestClients`, `WTestHup`).
* The queue's lock is held by a worker exactly between its test of the empty
  queue and its wait (`LockFree`). The broadcast does not take it.
* A scan treats the descriptors in the order in which `main` opened them:
  SIGHUP's pipe, SIGINT's pipe, the listening socket, the pipe, the clients.
* When the flag of SIGHUP is set, a listening socket that is readable, because of a
  connection that is not accepted yet, falls into the clients' branch; the read
  fails and the process exits (`MReadListener`).
* A client that dies is at end of file. Its empty message makes the manager call
  `strtol(NULL)` (`MReadEnd`); an answer to it raises SIGPIPE (`WAnswerDead`).
  Both end the process. `Abrupt` names the clients that may die.
* `pthread_cond_wait` is modelled without spurious wakeups; a spurious wakeup
  repeats the tests, which a worker at `lock` may do at any time anyway.
* The kernel's backlog is a set: the manager may accept any waiting client.

### FileTable

The promise of the storage to somebody who only sees requests and answers. A
request is pending, then answered; in between exactly one step works on the files
if the answer is 0 (`Create`, `Open`, `Read`, `Append`, `Close`; for readNFiles one
step for every file sent), and none if it is -1, except that the storage may throw
out closed and written files while it creates or appends (`MakeRoom`), and that a
first content that can never fit takes its file with it (`Reject`). Two files may
have one path, and a path may mean several files (`Matches`): the code promises no
more. `StorageProperties!ImplementsTable` maps the storage to it by forgetting the
list, the budgets and the threads; the request of a client is read off the thread
that serves it. Undefined behaviour stops `StorageWorkers`, so the promise holds
up to it.

### Configuration, ClientSession and Deployment

`Configuration` reads a file one line a step. A line is what `strtok_r` makes of
it: the key its first word begins with and its second word, with the newline at
its end if nothing follows it. `NumberOf` is the code's test and cast: a word that
is not a number (a newline after the digits is enough) or is below 1 gives the
default; anything else is narrowed from long to int (`Strtol`, `ToInt`). After the
last line, zeros and missing names get their defaults.

`ClientSession` keeps for every run of the client program where its loops are: the
options still to come, the files still to come, one frame for every directory
`recDirectory` has open with its remaining entries, `*nfiles`, and the call it is
in. `After` is the whole control of `openAppendClose` and of the -r branch: which
call follows which result. A call is sent (`Send`) and answered (`Receive`), or
its answer is lost with the server (`LoseAnswer`): then the client either dies of
a failed read, or `readn` returns 0 and the empty message is a 0 to openFile,
closeFile and closeConnection. Such calls are recorded in `fooled`. `failures`
counts appends and closes that failed, for `LeftOpenByFailures`. `TreeAssumption` says
that directories form a finite tree: `.` and `..` are passed over (`Dotted`), and a
symbolic link to a directory above itself, which `stat` follows and on which
`recDirectory` would not end by itself, is not in the model.

`Deployment` starts a server, which reads its configuration, may die of it, binds
(or fails to, if the socket file is there) and listens. Users come at any time;
`openConnection` ends them unless the socket is there to connect to, since its loop
tests `errno` after a macro that has already ended the process. A signal makes a
listening server `stopping` (`Signal`): the manager hears nobody any more and joins
the workers, which may still serve requests it has read before (`taken`, any subset
of those that have come). Its end (`End`) may come at any time then, and need not
come: a worker may be asleep or in `UpdateFile` for ever. A dead client's end of file
(`ReadEnd`), or a connection that waits when SIGHUP is seen (`ReadListener`), ends
the server at once. It forgets everything but the socket file, and may be started
again. Requests are those of `FileTable`, served by any of `N_THREAD` workers; an
append may keep its worker for ever (`Appending`, `WorkerFree`).

### Transport and Mailbox

A socket is a sequence of units: a header, the fields of a text, the pieces of a
content. `Put`, `Get`, `Fill` and `Write` move any number of units that fit, at a
time. A reader (`Reads`, `Settle`, `Advance`) is the call of `readn` it is in; after
a header comes a text of that length, after a text that starts with 5 (to the
manager) or 1 (to readFile and readNFiles) a content of the length in its third
field. `ReadsEnd` is what `readn` leaves at end of file: zeros, and no error. The
manager takes one client at a time and reads its request to the end (`Select`,
`Fill`). What a worker answers is left open, any outcome of `StorageWorkers`; what it
does with `storage->lock` is not:

| Step | Lock | Code |
|---|---|---|
| `BeginFile` | taken, and kept until the file is written | `util_server.c:250-263`, `278-292` |
| `BeginLate` | taken, and kept until the refusal of a readFile that has waited too long is written | `250-263` |
| `BeginAnswer` | had to be free, as every other request searches its file under it; not held while the answer is written | `file_storage.c:119` |
| `Skip` | had to be free: a readNFiles takes it for the nodes it passes over | `277-293` |
| `BeginLast` | not needed: no node is left to look at, or no file to send | `294-306` |

A worker with an append is, from `Pop` to `BeginAnswer`, in `UpdateFile`
(`InUpdateFile`), and may stay there. closeConnection is not in this module: its
answer has no more to it than any other, and what follows it is in `RequestServer`.

`Mailbox` is the same without streams: a request is posted, taken as it was posted,
replied to in frames, and each frame is delivered as it was told. The dead are the
exception: nothing is said of the request of a client that has died, and a client
whose server has ended may hear anything once.

## 3. Runs

`tlc -config X.cfg M` with M the `MC` module of the run: `MCStorage` for the runs of
the storage, `MCServer`, `MCDeployment`, `MCTransport`. Violation runs show a disagreement
between the code and a text of the repository; PROJECT.json quotes it.

| Run | Instance | States | Shows |
|---|---|---|---|
| `OneWorker` | 1 thread, 1 client, 4 paths (one a prefix of another), 3 files, 3 bytes, contents 2 and 4, readNFiles of 0 and 2, TIMER 1 | 740 000 | budgets and limits, `ListShape`, `UndefinedOnlyByListOrUninit`, `UniquePaths`; `ScansEnd` |
| `TwoWorkers` | 2 threads, 2 clients, 2 paths, 1 file, 1 byte, contents 1, 2 | 870 000 | the budgets under concurrency, `ListShape`, `ImplementsTable`, `RemovalRespectsHolder`, `ReleasedByCloseOrReadN` |
| `TwoWorkersHold` | 2 threads, 2 clients and 1 path, 1 file, 1 byte, contents 1, 2, TIMER 2, no readNFiles | 240 000 | `AppendTargetHeld`, `WaitsGiveUp` |
| `TornList` | 1 thread, 4 paths for 3 files | - | violation of `RemovedIsUnlinked` |
| `EvictionCycle` | 1 thread | - | violation of `EvictionCycleEnds` (under the same fairness) |
| `PrefixSearch` | 1 thread | - | violation of `SearchFindsKey` |
| `ServerPool` | 3 clients that may die, 3 connections, 2 workers | 640 000 | `Custody`, `SleepersNotNeeded`, `NclientDrift`, the queue implements `Fifo` |
| `ServerShutdown` | 2 clients, 2 connections, 1 worker or 2, either signal, appends that may not end | 280 000 | `Custody` and `NclientDrift` while signals come, `RequestsAnswered`, `IntEnds`, `HupEnds` |
| `HupTooEarly` | 2 clients, 1 worker, SIGHUP | - | violation of `HupWaitsForClients` |
| `ListenerRead` | 1 client, 1 worker, SIGHUP | - | violation of `OnlyClientsAreRead` |
| `Deployment` | all configuration files of at most 2 of 34 lines; 2 users with any of 5 command lines for 1 worker and with -W for 2, 2 descriptors, 2 files, 2 bytes, files of 1, 2 and 3 bytes, 2 starts | 1 070 000 | `PositiveUnlessTooWide`, `LeftOpenByFailures`, `WalkIsExact`, `FooledOnlyAtTheEnd`, `ListensOnlyOnce`, `SessionsEnd` |
| `Transport` | 2 clients of which one may die, 1 worker or 2, sockets of 2 units, headers of 2, one file of 2 pieces and an empty one, 2 requests | 310 000 | `BlockedByTheBusyOnly`, `NothingLeftOver`, `ImplementsMailbox`, `EveryoneIsAnswered` |

**Bounds.** Three files are the smallest list with a middle. One file and one
byte with two threads make every budget test contended, and overcommitted: the list
then has two files, one at each end, and a longer one is in `OneWorker` and in the
proofs. Four paths for three files (`OneWorker`, `TornList`) make `openFile` evict. Contents are chosen to
fit exactly, to fit only after an eviction, and never to fit (larger than
`MEM_SIZE`). `TIMER` is 30 in the code. It is 1 where the question is what an
attempt or a round of an eviction loop does, and 2 in `TwoWorkersHold`, where the
question is whether the attempts end: there two clients want one file, and each may
take it or give it back between the other's attempts. It only bounds how often
a loop repeats, and each repetition starts from a state the first ones reach as
well. Two workers are the smallest pool in which one can sleep while another
works, and one, the default of `N_THREAD`, the smallest that an append can block;
three clients fill the queue beyond one request; `MaxConnections` bounds the
connections of a behaviour because a lost update makes `nclient` drift.
`CHECK_DEADLOCK FALSE` is set for the server, the deployment and the transport:
the server may end, die, or have no more clients to wait for.

`Deployment`: int has 8 values and long 32, so that a number can fit, turn
negative, turn 0 or saturate. Two lines are enough for a later line to override
an earlier one, and for a bad line to follow a good one. Users come only under the
pairs of a file and a command line in `Crowded`: a file with a socket name, which
leaves `N_THREAD` at its default 1 (the number of `config.txt:2`), with any command
line; and the same with two threads, with the -W that creates, appends and closes.
Under the other files the server is alone, which is all the configuration's property
needs. The tree has a directory in a directory and a file after it, so that a limit
of 1 is reached below and has to stop the directory above; without a limit both
files are found.
Of the three files one fits alone, one fits exactly and one never; two
descriptors for two users, the second of whom may get the first one's.
`MaxBoots` is 2: what happens at the second start happens at every later one.
`Transport`: a socket of 2 units holds less than any message, so both sides
block in the middle of each; a header of 2 units can be cut. A second request
after the first finds what the first has left over. `MaxFiles` bounds what one
readNFiles sends.

**Symmetry** of clients and workers is used in runs without liveness only
(`ImplementsTable` and `QueueIsFifo` there are initial predicates and action
properties, and name no client or worker). `Transport` has none because `Mortal`
names a client.

**Fairness.** `StorageWorkers`: weak fairness of each thread's step, that is, the
scheduler runs threads and mutexes are eventually given to a waiting thread;
nobody has to make a request. `RequestServer`: weak fairness of the manager and
of each worker, but not of a worker in the middle of an append (`EvictionCycle`);
strong fairness of a client's `closeConnection`, because the client goes once through
a finite list (`client.c:146`) and then closes (`client.c:310`). Signals and connections are never forced. `Deployment`: weak
fairness of a user's next step, of being accepted, of closing a descriptor, and,
while a worker is free of appends, of coming to the answer of every request but
appendToFile. The last is what `WaitsGiveUp` and `ScansEnd` show of `StorageWorkers`.
(`ScansEnd` is checked with one thread. With more, a scan of the list could go on as
long as others insert before it; the sessions are finite, so they cannot for ever.)
A server that is stopping is not assumed to go on at all.
`Transport`: weak fairness of the manager, of each worker that is not in
`UpdateFile`, and of each client that has a request under way; requests are bounded
(`MaxAsks`), so nothing is assumed of the order in which a mutex is given to who wait. A client that stays alive and stops reading, or stops in the middle of a message, is what the fairness
of clients excludes: it stops the server for everybody, and
`BlockedByTheBusyOnly` says exactly whom the manager and the lock's holder wait
for.

**What the exceptions in passing properties say.** `ListShape` holds until a
middle file is evicted (`Torn`). `UndefinedOnlyByListOrUninit` lists the two ways
in which one thread reaches a bad pointer. Appends that do not come out of
`UpdateFile` are an exception to everything that ought to happen: the client waits
for ever, and when there are as many such appends as workers, everybody does
(`RequestsAnswered`, `SessionsEnd`, `EveryoneIsAnswered`); a signal then does not end
the server, since `main` joins the worker (`NeverJoined` in `IntEnds` and `HupEnds`).
Besides, `HupEnds` lists three states in which SIGHUP does not end the server:
`LostWakeup` (the broadcast passed a worker that had tested the flags and not yet
waited; `IntEnds` has it too), `Miscount` (a lost update of `nclient`) and, for a pool
of one worker, `Deserted`. `ServerShutdown` reaches all of them; without any one of
the exceptions TLC finds the property violated. `SessionsEnd` leaves out a server that
is stopping, for the same reasons. `NclientDrift` gives what is left of `nclient`'s
meaning under lost updates. `PositiveUnlessTooWide` excepts a number of 2^31 or more
on the deciding line: it is narrowed without a test. `FooledOnlyAtTheEnd` says that a client which ends well was told the truth about everything but its
closeConnection; the last answer before it dies may be false too.

**Other divergences met while modelling**, without a run of their own: an append
that evicts files and then fails does not report them (`API.c:164`,
`util_server.c:339`); two clients that create one path at once store it twice
(`file_storage.h:11`, `util_server.c:173-187`); the limits of files and bytes can
be passed under concurrency (`configuration.h:8-9`; the bounds are checked and proved); readNFiles closes files that other clients have open
(`file_storage.h:12`, `util_server.c:288`); readNFiles with 0 reads as many files
as there are free slots (`util.h:82`, `util_server.c:272`); `openConnection` should
try every `msec` until `abstime` (`API.c:29`) and makes one attempt (`API.c:32`);
a server that has bound its socket once cannot be started again until somebody
removes the file (`server.c:101`; `ListensOnlyOnce` states it, and is proved); a
number that ends its line in the configuration is replaced by the default, and a
name keeps the newline (`configuration.c:57`, `105`); `-w dir,n` and `-R` with a
parameter without `=` pass NULL to `strtol` (`client.c:170`, `285`); a content cut
off by the death of its sender is completed with zeros and taken for whole
(`conn.c:23`).

## 4. Proofs

Every theorem rests on the named assumptions of the modules (`StorageAssumption`,
`QueueAssumption`, ...), which TLC evaluates on the instances above, and on nothing
else but what its row says.

### Storage

`StorageLemmas` and `StorageProofs` prove of `StorageWorkers!Spec`, for every set of
threads, clients, paths and nodes, every budget and every `TIMER`:

| Theorem | Says |
|---|---|
| `TypeCorrect` | `Spec => []TypeOK` |
| `CountCorrect` | `Spec => []CountMatches` |
| `FileBoundCorrect` | `Spec => []FileOvercommitBound` |
| `OneThreadKeepsFileLimit` | with one worker, `Spec => []WithinFileLimit` |
| `RamCorrect` | `Spec => []RamMatches` |
| `MemoryBoundCorrect` | `Spec => []MemoryOvercommitBound` |
| `ListCorrect` | `Spec => []ListShape` |
| `RemovalCorrect` | `Spec => RemovalRespectsHolder` |
| `ReleaseCorrect` | `Spec => ReleasedByCloseOrReadN` |
| `AppendTargetCorrect` | if clients do not call readNFiles, `Spec => []AppendTargetHeld` |
| `UndefinedCorrect` | with one worker, `Spec => []UndefinedOnlyByListOrUninit` |
| `NamesCorrect` | with one worker, if every path matches itself, `Spec => []UniquePaths` |

Arguments:

* **Types.** `TypeOK` alone is not inductive: which fields a step may use depends
  on the statement. `TypeInv` adds per-`pc` facts (`ThreadOK`: a thread that is
  serving has a client, one that has searched has a path, ...).
* **Files.** Only three actions change the domain of `node`, each with one
  matching change of `nfile_dispo`; cardinalities come from FiniteSetTheorems.
* **The limit of files.** `FileBoundInv` counts the threads at `insLink`, which have
  seen a free slot and not yet taken it: `nfile_dispo` is at least minus the number of
  such threads other than one, so that the bound is preserved both by the
  unlocked test (one more thread) and by the link (one slot and one thread less).
* **Bytes.** The size of the storage is a sum over a set. What a sum does when an
  element comes, goes or changes is proved without induction: were it false, a
  smallest set of which it is false would exist (`SubsetMin`), and taking one element
  from that set gives a contradiction.
* **The limit of bytes.** A thread at `updWait` or `updApply` has seen room for a
  content that others may have taken since. `MemoryInv` bounds the free bytes less the
  contents of all such threads (`Bytes(Pending, Writing)`): the unlocked test adds
  a content to that sum when there is room for it, the append only moves it from one
  side to the other.
* **The list.** `Segment(s, k)` says that `head`, `son` and `father` run through
  `s[1] .. s[k]`. Either that is all, and ends at `last` (`Whole`), or it ends in a
  pointer to a freed node (`Broken`): that pointer stays dangling, since nobody can
  reach the nodes cut off from the segment's side, and no step mends it. What
  `Chain` computes from `head` is the segment because only one function satisfies its
  recursion: two would differ at a least number.
* **Holding a file.** `HolderInv` says that two threads never serve the same
  client (from `Begin`'s guard) and that a thread between `appLocked` and
  `updReject` is the one its file is open for. The removal by an oversize append
  needs it across two critical sections.
* **UpdateFile keeps its file.** With no readNFiles, the only actions that clear
  an owner are `CloseTry` of the same client and removals of closed files;
  `HeldInv` states it for the whole of `UpdateFile`, where every step of another
  thread has to be examined.
* **One worker.** While the list is whole every pointer of the thread is live,
  except the one `UpdateFile` has not assigned (`PointersInv`, `OpsInv`). Names are
  unique because a file is created after a search that found none; this holds on a
  torn list too: a search that ends without crash has passed every stored file
  (`SearchComplete`).

`TableProofs` proves `TableCorrect`, `Spec => ImplementsTable`: every behaviour of
`StorageWorkers`, seen through the mapping, is one of `FileTable`. The invariant is
`TypeInv /\ HolderInv /\ RequestInv`. `RequestInv` relates what a thread knows at a
statement to what its step of the table needs (`RequestOK`: which request a statement
belongs to, that the count of a readNFiles never goes up, that a content about to be
rejected is larger than the memory; `MeantOK`: that the file a thread has found is
one its path means, as long as it is stored). One lemma per handler then shows that
each of its steps is a step of the table for the thread's client, and that of all
other clients nothing changes; most steps are stutters (`QuietStep`). That two
threads never serve one client, from `HolderInv`, makes the mapping of requests a
function.

### Queue and request path

`QueueLemmas` relates the list to a sequence: `Represents` (distinct requests, every
`father` and `son` where the sequence says, `last` and `head` at its ends, the counter
its length). `push` of a request that is not queued appends to it, `pop` of a list
that is not empty takes its first; and walking the list from `last` along `father`
gives the sequence (`WalkFindsSequence`), because only one function can walk it.
`QueueProofs` proves `ListImplementsFifo` of the list alone, with the sequence driven
beside it.

`ServerProofs` proves of `RequestServer!Spec`, for every number of clients, workers
and connections, whatever signals come and clients die:

| Theorem | Says |
|---|---|
| `ServerTypes` | `Spec => []TypeOK` |
| `CustodyCorrect` | `Spec => []Custody` |
| `NoLostWakeup` | `Spec => []SleepersNotNeeded` |
| `DriftIsBounded` | `Spec => []NclientDrift` |
| `QueueCorrect` | `Spec => QueueIsFifo` |

The invariant `IInv` has five parts that need each other. `Typed` says which
statements have a request in hand and that what the manager still has to scan is
as `select` found it (the pipe is not empty, a readable client is listened to).
`ListInv` says that the list stands for some sequence and that the counter is its
length; a push keeps it only because the request is not queued, which is custody.
`CustodyInv` makes the five places disjoint sets whose union is the set of open
connections; every step leaves them alone or is one of seven that move one client
(`Cases`). `LockInv` says that a worker on its way to sleep holds the lock and has
seen an empty queue, and `SleepersNotNeeded` follows from it: the last test before
`pthread_cond_wait` is still true when the worker goes to sleep, and every push
wakes a sleeper if there is one.

`DriftInv` bounds `nclient`, and every copy of it somebody is about to write back, by
the increments and decrements that have happened: a lost update writes back an older
value, and an older value is within the bounds too (`Drifted`). The exact bound needs
that a server with nobody connected has counted somebody out.

`QueueCorrect` needs custody again: without it a push could queue a request twice,
which `Fifo` does not allow. `Cases` says which steps can touch the list at all.

### Sockets

`TransportProofs` proves of `Transport!Spec`, for every number of clients and workers,
every capacity of the sockets, every length of header and message, and every way in
which `read` and `write` cut them:

| Theorem | Says |
|---|---|
| `TypeCorrect` | `Spec => []TransportTypeOK` |
| `EmptySockets` | `Spec => []NothingLeftOver` |
| `NoCircle` | `Spec => []BlockedByTheBusyOnly` |
| `SocketsImplementMailbox` | `Spec => ImplementsMailbox` |

The centre is `Reading(r, m, head, rest)`: what the reader `r` has taken so far, put
before the units `rest` that are still in the socket or in the writer's hand, is the
message `m`; and `r` is in the call of `readn` that belongs to that place. Moving units
from the hand to the socket or from the socket to the reader keeps it, whatever their
number; when `rest` is empty the reader has `m` itself. Concatenation is treated as a
relation (`Joins`) with a few lemmas, so no induction over streams is needed.
The invariant `IInv` says of every client where its conversation is (`Talks`: in its
request, queued, with a worker, in the frames of its answer; `HasLeft`, `IsLeft`: what
holds of one that has died), of the manager and the workers whom they have in hand,
and that the lock's holder is writing, a file or the refusal of a readFile that has
waited too long: the two answers that are written under the lock. That the holder's
client reads is then the same argument as for every other worker that writes. For the refinement every step is mapped to a
step of `Mailbox` or a stutter. `TransportAssumption` says what messages are: texts are
not empty, and the third field of an append and of a file is the length of its content,
which is what `sendMsg_File_Content`'s callers put there.

### Configuration, sessions and restarts

`DeploymentProofs` proves of `Configuration!ConfigSpec` and `Deployment!Spec`, for every
set of configuration files, widths of int and long, users, command lines, trees,
descriptors and starts:

| Theorem | Says |
|---|---|
| `ConfigurationCorrect` | `ConfigSpec => []PositiveUnlessTooWide` |
| `EveryStartConfigured` | `Spec => []PositiveUnlessTooWide` |
| `OneServerListens` | `Spec => []ListensOnlyOnce` |
| `SessionTypes` | `Spec => []SessionTypeOK` |
| `OnlyTheEndFools` | `Spec => []FooledOnlyAtTheEnd` |
| `LeftOpenCorrect` | `Spec => []LeftOpenByFailures` |
| `WalkCorrect` | `Spec => []WalkIsExact` |

* **Numbers.** `ConfigInv` says of every key, while the file is read, that a value below
  1 is from the last line so far that names the key, and that number is too wide; or
  that no line has named it yet. After `EndOfFile` only the first is left. A number that
  fits an int survives the cast (`ToIntFits`), which is where the exception comes from.
  A restart begins anew.
* **One socket.** The lines determine the name of the socket (`NameAfter`, `Chosen`,
  `OneName`), so every start asks for the name that the first has bound, and finds
  it taken (`SocketInv`).
* **Sessions.** `IInv` has four parts. `UsersInv`: a descriptor has one user, and a
  user who waits has a descriptor or has lost it; one who was fooled can send nothing
  any more. `AsksInv`: a request under way on a descriptor is the one its user waits
  for, although the descriptor has had other users. `OpenInv` balances the files left
  open: those open under a descriptor, plus one if the request under way has not opened
  its file yet or has closed it already (`Spare`), are at most the failures counted on
  it plus one if its user is between open and close (`Mid`). The last two terms move
  at the two ends of a call, the first two when the server works on it, which is why
  the property alone is not inductive.
* **The walk.** `Below`, which says what is below a list of entries, recurses through
  the list and through the tree. `BelowSolves` shows that it satisfies its definition:
  the solutions for the directories of at most a given height exist and agree
  (`SolutionsExist`, `SolutionsAgree`), because a least height for which they did not
  could be reduced to smaller ones, and within one height a least length
  (`FlatUnique`, `FlatExists`); these are arguments by a least counterexample, which
  need no induction over data. `WalkOK` is the invariant of a run: what was attempted
  followed by some `w` is all there was; `w` is what the open directories still hold,
  the deepest first (`Covers`), as long as the limit is not used up; and the limit and
  the number of attempts add up to what was asked for. A file moves from `w` to the
  attempted ones, a directory is replaced by its entries (`CoversPush`), and one that
  is done had nothing left (`CoversPop`). The theorem rests on `TreeAssumption`, and
  on names of files not being names of directories.

**Only model-checked.** Liveness, which is out of TLAPS's reach: `WaitsGiveUp`,
`ScansEnd`, `RequestsAnswered`, `IntEnds`, `HupEnds`, `EveryoneIsAnswered`,
`SessionsEnd`.

## 5. Not modelled, and why

* Statistics: three maxima updated without a lock and printed once; nothing reads
  them back.
* Log files, what is printed, and the files written to the directory of -d: no
  later step of the program depends on them.
* The parsing of options with getopt, usage errors, -h, -p: they end the client
  before it connects, or change no call it makes.
* Digits, commas and paths inside a text: a field is one unit of the stream. A path
  with a comma or a configuration line longer than the buffer are not in the model.
* Time: waits in the code are `sleep(0)` (`SLEEP_TIME` is cast to an integer), so
  only the number of attempts matters; `-t` delays steps that may be delayed anyway.
* What `main` frees at the end, and `printStorage`.
* `printQueue` and the API's optional functions, which only set `ENOSYS`
  (`API.c:214-241`): nobody calls them.
* `SupportTestDirectory`: web pages, scripts and images that the tests store in the
  server. They are data; no line of them is executed by the program.

## 6. Where it could go on

`StorageWorkers` and `Transport` in one module, so that the lock held while a file is
written meets the eviction loops; the storage in place of `FileTable` under
`Deployment`, which `ImplementsTable` justifies today from outside.
