----------------------------- MODULE QueueProofs -----------------------------
(***************************************************************************)
(* The linked list of RequestQueue implements Fifo, for every set of       *)
(* clients.  The sequence is a variable that is driven beside the list     *)
(* here; that AbstractQueue computes it is WalkFindsSequence of            *)
(* QueueLemmas, which ServerProofs uses for the server itself.             *)
(***************************************************************************)
EXTENDS QueueLemmas

VARIABLE fifo  \* the sequence

INSTANCE Fifo WITH Request <- Client

(***************************************************************************)
(* The manager pushes clients that are not queued, a worker pops when its  *)
(* test found the list not empty.                                          *)
(***************************************************************************)
PushBoth(r) == Push(r) /\ fifo' = Append(fifo, r)

PopBoth == qhead # NULL /\ Pop /\ fifo' = Tail(fifo)

ListSpec ==
  /\ QueueInit
  /\ fifo = <<>>
  /\ [][(\E r \in Client \ queued : PushBoth(r)) \/ PopBoth]_<<queue, fifo>>

\* A push in ListSpec is an Enqueue.
LEMMA PushIsEnqueue ==
  ASSUME Represents(fifo), NEW r \in Client \ queued, PushBoth(r)
  PROVE  Enqueue(r) /\ Represents(fifo)'
<1>1. PICK s : s = fifo
  OBVIOUS
<1>2. PICK t : t = fifo'
  OBVIOUS
<1>3. Represents(s)
  BY <1>1 DEF Represents, Distinct, Elements, Linked, Ends, SonOf, FatherOf
<1>4. Push(r) /\ t = Append(s, r)
  BY <1>1, <1>2 DEF PushBoth
<1>5. (\A i \in DOMAIN s : s[i] # r) /\ Represents(t)'
  BY <1>3, <1>4, PushAppends, QueueAssumption
<1>6. Represents(fifo)'
  BY <1>2, <1>5 DEF Represents, Distinct, Elements, Linked, Ends, SonOf, FatherOf
<1> QED
  BY <1>1, <1>5, <1>6 DEF Enqueue, PushBoth

\* A pop in ListSpec is a Dequeue, of the request that pop returns.
LEMMA PopIsDequeue ==
  ASSUME Represents(fifo), PopBoth
  PROVE  Dequeue /\ qlast = Head(fifo) /\ Represents(fifo)'
<1>1. PICK s : s = fifo
  OBVIOUS
<1>2. PICK t : t = fifo'
  OBVIOUS
<1>3. Represents(s)
  BY <1>1 DEF Represents, Distinct, Elements, Linked, Ends, SonOf, FatherOf
<1>4. qhead # NULL /\ Pop /\ t = Tail(s)
  BY <1>1, <1>2 DEF PopBoth
<1>5. s # <<>> /\ qlast = Head(s) /\ Represents(t)'
  BY <1>3, <1>4, PopTakesFirst, QueueAssumption
<1>6. Represents(fifo)'
  BY <1>2, <1>5 DEF Represents, Distinct, Elements, Linked, Ends, SonOf, FatherOf
<1> QED
  BY <1>1, <1>5, <1>6 DEF Dequeue, PopBoth

(***************************************************************************)
(* Every behaviour of the list is one of the abstract queue, and the list  *)
(* always stands for the sequence: requests leave in the order in which    *)
(* they came (util_server.c:36-70).                                        *)
(***************************************************************************)
THEOREM ListImplementsFifo == ListSpec => []Represents(fifo) /\ FifoSpec
<1> DEFINE Both == (\E r \in Client \ queued : PushBoth(r)) \/ PopBoth
<1> DEFINE Abs == (\E r \in Client : Enqueue(r)) \/ Dequeue
<1>1. QueueInit /\ fifo = <<>> => Represents(fifo)
  BY InitIsEmpty
<1>2. ASSUME Represents(fifo), [Both]_<<queue, fifo>>
      PROVE  Represents(fifo)' /\ [Abs]_fifo
  <2>1. CASE \E r \in Client \ queued : PushBoth(r)
    BY <1>2, <2>1, PushIsEnqueue
  <2>2. CASE PopBoth
    BY <1>2, <2>2, PopIsDequeue
  <2>3. CASE UNCHANGED <<queue, fifo>>
    BY <1>2, <2>3 DEF queue, Represents, Distinct, Elements, Linked, Ends, queued, SonOf, FatherOf
  <2> QED
    BY <1>2, <2>1, <2>2, <2>3
<1> QED
  BY <1>1, <1>2, PTL DEF ListSpec, FifoSpec
==============================================================================
