--------------------------------- MODULE Fifo ---------------------------------
(***************************************************************************)
(* What push and pop of includes/util_server.c promise: requests leave in  *)
(* the order in which they came, none lost and none twice in the queue.    *)
(***************************************************************************)
EXTENDS Sequences

CONSTANT Request

VARIABLE fifo

Enqueue(r) ==
  /\ \A i \in DOMAIN fifo : fifo[i] # r
  /\ fifo' = Append(fifo, r)

Dequeue ==
  /\ fifo # <<>>
  /\ fifo' = Tail(fifo)

FifoSpec == fifo = <<>> /\ [][(\E r \in Request : Enqueue(r)) \/ Dequeue]_fifo
==============================================================================
