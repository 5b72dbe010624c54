---------------------------- MODULE QueueLemmas ----------------------------
(***************************************************************************)
(* The linked list of RequestQueue and the sequence it stands for: what    *)
(* push and pop do to it, for every set of clients.                        *)
(***************************************************************************)
EXTENDS RequestQueue, SequenceTheorems, WellFoundedInduction, TLAPS

(***************************************************************************)
(* The list holds exactly the requests of s, which are distinct; last is   *)
(* the oldest, father leads to the next younger and son to the older.      *)
(***************************************************************************)
Distinct(s) == \A i, j \in 1 .. Len(s) : s[i] = s[j] => i = j

Elements(s) == {s[i] : i \in 1 .. Len(s)}

FatherOf(s, i) == IF i = Len(s) THEN NULL ELSE s[i + 1]

SonOf(s, i) == IF i = 1 THEN NULL ELSE s[i - 1]

Linked(s) ==
  /\ rq \in [queued -> [son : Client \cup {NULL}, father : Client \cup {NULL}]]
  /\ queued = Elements(s)
  /\ \A i \in 1 .. Len(s) : /\ rq[s[i]].son = SonOf(s, i)
                            /\ rq[s[i]].father = FatherOf(s, i)

Ends(s) ==
  /\ qlast = IF s = <<>> THEN NULL ELSE s[1]
  /\ qhead = IF s = <<>> THEN NULL ELSE s[Len(s)]

Represents(s) ==
  /\ s \in Seq(Client)
  /\ Distinct(s)
  /\ Linked(s)
  /\ Ends(s)
  /\ count_rq = Len(s)

\* Positions.
LEMMA NextPosition == \A k \in Nat : \A i \in 1 .. k : i # k => i + 1 \in 1 .. k
OBVIOUS

\* Append of what was not there.
LEMMA AppendDistinct ==
  ASSUME NEW s \in Seq(Client), Distinct(s), NEW r \in Client \ Elements(s),
         NEW t, t = Append(s, r)
  PROVE  Distinct(t) /\ Elements(t) = Elements(s) \cup {r}
<1> DEFINE n == Len(s)
<1>1. n \in Nat /\ \A i \in 1 .. n : s[i] \in Elements(s)
  BY LenProperties DEF Elements
<1>2. /\ Len(t) = n + 1
      /\ \A i \in 1 .. n : t[i] = s[i]
      /\ t[n + 1] = r
  BY AppendProperties
<1>3. Distinct(t)
  <2> SUFFICES ASSUME NEW i \in 1 .. n + 1, NEW j \in 1 .. n + 1, t[i] = t[j]
               PROVE  i = j
    BY <1>2 DEF Distinct
  <2>1. CASE i \in 1 .. n /\ j \in 1 .. n
    BY <1>2, <2>1 DEF Distinct
  <2>2. CASE i = n + 1 \/ j = n + 1
    BY <1>1, <1>2, <2>2
  <2> QED
    BY <1>1, <2>1, <2>2
<1>4. ASSUME NEW x \in Elements(t)
      PROVE  x \in Elements(s) \cup {r}
  BY <1>1, <1>2 DEF Elements
<1>5. ASSUME NEW x \in Elements(s) \cup {r}
      PROVE  x \in Elements(t)
  <2>1. CASE x = r
    BY <1>1, <1>2, <2>1 DEF Elements
  <2>2. CASE x \in Elements(s)
    <3>1. PICK i \in 1 .. n : x = s[i]
      BY <2>2 DEF Elements
    <3>2. i \in 1 .. n + 1 /\ x = t[i]
      BY <1>1, <1>2, <3>1
    <3> QED
      BY <1>2, <3>2 DEF Elements
  <2> QED
    BY <1>5, <2>1, <2>2
<1> QED
  BY <1>3, <1>4, <1>5

\* Tail, which takes the first away.
LEMMA TailDistinct ==
  ASSUME NEW s \in Seq(Client), s # <<>>, Distinct(s), NEW t, t = Tail(s)
  PROVE  Distinct(t) /\ Head(s) \in Elements(s) /\ Elements(t) = Elements(s) \ {Head(s)}
<1> DEFINE n == Len(s)
<1>1. n \in Nat \ {0} /\ Head(s) = s[1]
  BY EmptySeq
<1>2. Len(t) = n - 1 /\ \A i \in 1 .. n - 1 : t[i] = s[i + 1]
  BY <1>1, HeadTailProperties
<1>3. Distinct(t)
  BY <1>1, <1>2 DEF Distinct
<1>4. ASSUME NEW x \in Elements(s) \ {Head(s)}
      PROVE  x \in Elements(t)
  <2>1. PICK i \in 1 .. n : x = s[i]
    BY DEF Elements
  <2>2. i # 1
    BY <1>1, <2>1
  <2>3. i - 1 \in 1 .. n - 1 /\ x = t[i - 1]
    BY <1>1, <1>2, <2>1, <2>2
  <2> QED
    BY <1>2, <2>3 DEF Elements
<1>5. ASSUME NEW i \in 1 .. n - 1
      PROVE  t[i] \in Elements(s) \ {Head(s)}
  <2>1. i + 1 \in 1 .. n /\ 1 \in 1 .. n /\ t[i] = s[i + 1]
    BY <1>1, <1>2
  <2>2. s[i + 1] # s[1]
    BY <2>1 DEF Distinct
  <2> QED
    BY <1>1, <2>1, <2>2 DEF Elements
<1>6. 1 \in 1 .. n
  BY <1>1
<1>7. Elements(t) = {t[i] : i \in 1 .. n - 1}
  BY <1>2 DEF Elements
<1>8. Head(s) \in Elements(s)
  BY <1>1, <1>6 DEF Elements
<1> QED
  BY <1>3, <1>4, <1>5, <1>7, <1>8

\* The test of push (both ends) and that of the worker (head), for the sequence.
LEMMA EmptyIffEmpty ==
  ASSUME QueueAssumption, NEW s, Represents(s)
  PROVE  /\ Empty <=> s = <<>>
         /\ qhead = NULL <=> s = <<>>
         /\ queued = {} <=> s = <<>>
<1>1. CASE s = <<>>
  BY <1>1 DEF Represents, Ends, Linked, Elements, Empty
<1>2. CASE s # <<>>
  <2>1. Len(s) \in Nat \ {0}
    BY <1>2, EmptySeq DEF Represents
  <2>2. 1 \in 1 .. Len(s)
    BY <2>1
  <2>3. s[1] \in Client
    BY <2>2, ElementOfSeq DEF Represents
  <2>4. s[1] \in queued
    BY <2>2 DEF Represents, Linked, Elements
  <2>5. s[Len(s)] \in Client
    BY <2>1, ElementOfSeq DEF Represents
  <2> QED
    BY <1>2, <2>3, <2>4, <2>5 DEF Represents, Ends, Empty
<1> QED
  BY <1>1, <1>2

(***************************************************************************)
(* push (util_server.c:36-55) of a client that is not in the queue appends *)
(* it to the sequence.                                                     *)
(***************************************************************************)
LEMMA PushAppends ==
  ASSUME QueueAssumption, NEW s, Represents(s),
         NEW r \in Client \ queued, Push(r), NEW t, t = Append(s, r)
  PROVE  /\ \A i \in DOMAIN s : s[i] # r
         /\ queued' = queued \cup {r}
         /\ Represents(t)'
<1> DEFINE n == Len(s)
<1>1. /\ n \in Nat
      /\ \A i \in 1 .. n : s[i] \in Client /\ s[i] \in queued
      /\ DOMAIN s = 1 .. n
  BY LenProperties, ElementOfSeq DEF Represents, Linked, Elements
<1>2. /\ t \in Seq(Client)
      /\ Len(t) = n + 1
      /\ \A i \in 1 .. n : t[i] = s[i]
      /\ t[n + 1] = r
  BY AppendProperties DEF Represents
<1>3. \A i \in DOMAIN s : s[i] # r
  BY <1>1
<1>4. Distinct(t) /\ Elements(t) = queued \cup {r}
  BY AppendDistinct DEF Represents, Linked
<1>5. queued' = queued \cup {r}
  BY DEF Push, queued
<1>6. queued' = Elements(t)
  BY <1>4, <1>5
<1>7. CASE s = <<>>
  <2>1. Empty /\ n = 0 /\ qhead = NULL /\ queued = {}
    BY <1>7, EmptyIffEmpty, EmptySeq DEF Represents, Ends
  <2>2. /\ rq' = [x \in {r} |-> [son |-> NULL, father |-> NULL]]
        /\ qhead' = r /\ qlast' = r /\ count_rq' = 1
    BY <2>1 DEF Push, Represents
  <2>3. Linked(t)'
    BY <1>2, <1>5, <1>6, <2>1, <2>2 DEF Linked, SonOf, FatherOf
  <2>4. Ends(t)'
    BY <1>2, <2>1, <2>2, EmptySeq DEF Ends
  <2> QED
    BY <1>2, <1>3, <1>4, <1>5, <2>1, <2>2, <2>3, <2>4 DEF Represents
<1>8. CASE s # <<>>
  <2>1. ~Empty /\ n > 0
    BY <1>1, <1>8, EmptyIffEmpty, EmptySeq DEF Represents
  <2>2. qhead = s[n] /\ qlast = s[1] /\ qhead \in Client /\ qhead \in queued
    BY <1>1, <1>8, <2>1 DEF Represents, Ends
  <2>3. ASSUME NEW x \in queued
        PROVE  rq'[x] = IF x = qhead THEN [rq[x] EXCEPT !.father = r] ELSE rq[x]
    BY <1>5 DEF Push
  <2>4. rq'[r] = [son |-> qhead, father |-> NULL]
    BY DEF Push
  <2>5. ASSUME NEW x \in queued
        PROVE  /\ rq[x] \in [son : Client \cup {NULL}, father : Client \cup {NULL}]
               /\ rq'[x] \in [son : Client \cup {NULL}, father : Client \cup {NULL}]
               /\ rq'[x].son = rq[x].son
               /\ rq'[x].father = IF x = qhead THEN r ELSE rq[x].father
    <3>1. rq[x] \in [son : Client \cup {NULL}, father : Client \cup {NULL}]
      BY DEF Represents, Linked
    <3> QED
      BY <2>3, <3>1
  <2>6. rq' \in [queued' -> [son : Client \cup {NULL}, father : Client \cup {NULL}]]
    <3>1. \A x \in queued' : rq'[x] \in [son : Client \cup {NULL}, father : Client \cup {NULL}]
      BY <1>5, <2>2, <2>4, <2>5
    <3>2. rq' = [x \in queued' |-> rq'[x]]
      BY <1>5 DEF Push
    <3> QED
      BY <3>1, <3>2
  <2>7. ASSUME NEW i \in 1 .. n + 1
        PROVE  rq'[t[i]].son = SonOf(t, i) /\ rq'[t[i]].father = FatherOf(t, i)
    <3>1. CASE i = n + 1
      <4>1. FatherOf(t, i) = NULL
        BY <1>2, <3>1 DEF FatherOf
      <4>2. i # 1 /\ i - 1 = n /\ n \in 1 .. n
        BY <1>1, <2>1, <3>1
      <4>3. SonOf(t, i) = t[i - 1]
        BY <4>2 DEF SonOf
      <4>4. SonOf(t, i) = qhead
        BY <1>2, <2>2, <4>2, <4>3
      <4>5. t[i] = r
        BY <1>2, <3>1
      <4> QED
        BY <2>4, <4>1, <4>4, <4>5
    <3>2. CASE i \in 1 .. n
      <4>1. t[i] = s[i] /\ s[i] \in queued
        BY <1>1, <1>2, <3>2
      <4>2. s[i] = qhead <=> i = n
        BY <1>1, <2>1, <2>2, <3>2 DEF Represents, Distinct
      <4>3. rq[s[i]].son = SonOf(s, i) /\ rq[s[i]].father = FatherOf(s, i)
        BY <3>2 DEF Represents, Linked
      <4>4. SonOf(t, i) = SonOf(s, i)
        BY <1>1, <1>2, <3>2 DEF SonOf
      <4>5. FatherOf(t, i) = IF i = n THEN r ELSE FatherOf(s, i)
        <5>1. FatherOf(t, i) = t[i + 1]
          BY <1>1, <1>2, <3>2 DEF FatherOf
        <5>2. CASE i = n
          BY <1>2, <5>1, <5>2
        <5>3. CASE i # n
          <6>1. i + 1 \in 1 .. n
            BY <1>1, <3>2, <5>3, NextPosition
          <6> QED
            BY <1>2, <5>1, <5>3, <6>1 DEF FatherOf
        <5> QED
          BY <5>2, <5>3
      <4> QED
        BY <2>5, <4>1, <4>2, <4>3, <4>4, <4>5
    <3> QED
      BY <1>1, <3>1, <3>2
  <2>8. Ends(t)'
    <3>1. t # <<>> /\ t[1] = s[1]
      BY <1>1, <1>2, <2>1, EmptySeq
    <3> QED
      BY <1>2, <2>1, <2>2, <3>1 DEF Ends, Push
  <2>9. count_rq' = n + 1
    BY DEF Push, Represents
  <2> QED
    BY <1>2, <1>3, <1>4, <1>5, <1>6, <2>6, <2>7, <2>8, <2>9 DEF Represents, Linked
<1> QED
  BY <1>7, <1>8

(***************************************************************************)
(* pop (util_server.c:58-70) of a queue that is not empty takes the first  *)
(* of the sequence, and last, which it returns, was it.                    *)
(***************************************************************************)
LEMMA PopTakesFirst ==
  ASSUME QueueAssumption, NEW s, Represents(s), qhead # NULL, Pop, NEW t, t = Tail(s)
  PROVE  /\ s # <<>> /\ qlast = Head(s)
         /\ qlast \in queued
         /\ queued' = queued \ {qlast}
         /\ Represents(t)'
<1> DEFINE n == Len(s)
<1>1. s # <<>> /\ n \in Nat \ {0}
  BY EmptyIffEmpty, EmptySeq DEF Represents
<1>2. \A i \in 1 .. n : s[i] \in Client /\ s[i] \in queued
  BY ElementOfSeq DEF Represents, Linked, Elements
<1>3. /\ t \in Seq(Client)
      /\ Len(t) = n - 1
      /\ \A i \in 1 .. n - 1 : t[i] = s[i + 1]
  BY <1>1, HeadTailProperties DEF Represents
<1>4. qlast \in queued /\ qlast = s[1] /\ qhead = s[n] /\ Head(s) = s[1]
  BY <1>1, <1>2 DEF Represents, Ends
<1>5. queued' = queued \ {s[1]}
  BY <1>4 DEF Pop, queued
<1>6. Distinct(t) /\ Elements(t) = queued \ {s[1]}
  BY <1>1, <1>4, TailDistinct DEF Represents, Linked
<1>7. queued' = Elements(t)
  BY <1>5, <1>6
<1>8. rq[s[1]].father = IF n = 1 THEN NULL ELSE s[2]
  BY <1>1 DEF Represents, Linked, FatherOf
<1> DEFINE next == rq[qlast].father
<1>9. next = IF n = 1 THEN NULL ELSE s[2]
  BY <1>4, <1>8
<1>10. /\ rq' = [x \in queued' |-> IF x = next THEN [rq[x] EXCEPT !.son = NULL] ELSE rq[x]]
       /\ qhead' = IF next = NULL THEN NULL ELSE qhead
       /\ qlast' = next
       /\ count_rq' = n - 1
  BY <1>4, <1>5 DEF Pop, Represents
<1> HIDE DEF next
<1>11. ASSUME NEW x \in queued'
       PROVE  /\ rq'[x] \in [son : Client \cup {NULL}, father : Client \cup {NULL}]
              /\ rq'[x].son = IF x = next THEN NULL ELSE rq[x].son
              /\ rq'[x].father = rq[x].father
  <2>1. rq[x] \in [son : Client \cup {NULL}, father : Client \cup {NULL}]
    BY <1>5 DEF Represents, Linked
  <2> QED
    BY <1>10, <2>1
<1>12. rq' \in [queued' -> [son : Client \cup {NULL}, father : Client \cup {NULL}]]
  BY <1>10, <1>11
<1>13. ASSUME NEW i \in 1 .. n - 1
       PROVE  rq'[t[i]].son = SonOf(t, i) /\ rq'[t[i]].father = FatherOf(t, i)
  <2>1. i + 1 \in 1 .. n /\ t[i] = s[i + 1] /\ t[i] \in queued'
    <3>1. t[i] \in Elements(t)
      BY <1>3 DEF Elements
    <3>2. t[i] \in queued'
      BY <1>7, <3>1
    <3>3. i + 1 \in 1 .. n
      BY <1>1
    <3> QED
      BY <1>3, <3>2, <3>3
  <2>2. /\ rq[s[i + 1]].son = s[i]
        /\ rq[s[i + 1]].father = IF i + 1 = n THEN NULL ELSE s[i + 2]
    BY <1>1, <2>1 DEF Represents, Linked, SonOf, FatherOf
  <2>3. s[i + 1] = next <=> i = 1
    BY <1>1, <1>9, <2>1 DEF Represents, Distinct
  <2>4. SonOf(t, i) = IF i = 1 THEN NULL ELSE s[i]
    BY <1>1, <1>3, <2>1 DEF SonOf
  <2>5. FatherOf(t, i) = IF i + 1 = n THEN NULL ELSE s[i + 2]
    <3>1. FatherOf(t, i) = IF i = n - 1 THEN NULL ELSE t[i + 1]
      BY <1>3 DEF FatherOf
    <3>2. CASE i = n - 1
      BY <1>1, <3>1, <3>2
    <3>3. CASE i # n - 1
      <4>1. i + 1 \in 1 .. n - 1 /\ (i + 1) + 1 = i + 2 /\ i + 1 # n
        BY <1>1, <3>3
      <4> QED
        BY <1>3, <3>1, <3>3, <4>1
    <3> QED
      BY <3>2, <3>3
  <2> QED
    BY <1>11, <2>1, <2>2, <2>3, <2>4, <2>5
<1>14. Ends(t)'
  <2>1. CASE n = 1
    <3>1. t = <<>>
      BY <1>3, <2>1, EmptySeq
    <3> QED
      BY <1>9, <1>10, <2>1, <3>1 DEF Ends
  <2>2. CASE n # 1
    <3>1. t # <<>> /\ t[1] = s[2] /\ t[n - 1] = s[n]
      BY <1>1, <1>3, <2>2, EmptySeq
    <3>2. s[2] # NULL
      <4>1. ASSUME NEW k \in Nat \ {0}, k # 1
            PROVE  2 \in 1 .. k
        BY <4>1
      <4>2. 2 \in 1 .. n
        BY <1>1, <2>2, <4>1
      <4> QED
        BY <1>2, <4>2
    <3> QED
      BY <1>3, <1>4, <1>9, <1>10, <2>2, <3>1, <3>2 DEF Ends
  <2> QED
    BY <2>1, <2>2
<1> QED
  BY <1>1, <1>3, <1>4, <1>5, <1>6, <1>7, <1>10, <1>12, <1>13, <1>14 DEF Represents, Linked

\* createQueue makes the list of the empty sequence.
LEMMA InitIsEmpty == QueueInit => Represents(<<>>)
<1> SUFFICES ASSUME QueueInit PROVE Represents(<<>>)
  OBVIOUS
<1>1. <<>> \in Seq(Client) /\ Len(<<>>) = 0
  BY EmptySeq
<1> QED
  BY <1>1 DEF QueueInit, Represents, Distinct, Elements, Linked, Ends, queued

\* What leaves the list alone leaves the sequence alone.
LEMMA SameList ==
  ASSUME NEW s, Represents(s), UNCHANGED queue
  PROVE  queued' = queued /\ Represents(s)'
BY DEF queue, Represents, Distinct, Linked, Ends, queued, SonOf, FatherOf

(***************************************************************************)
(* The walk from last along father, of which the mapping to Fifo is made.  *)
(***************************************************************************)
\* A set of numbers that is not empty has a least element.
LEMMA LeastPosition ==
  ASSUME NEW B, \A x \in B : x \in Nat, B # {}
  PROVE  \E x \in B : \A y \in B : x <= y
<1>1. IsWellFoundedOn(OpToRel(<, Nat), Nat)
  BY NatLessThanWellFounded
<1>2. PICK x \in B : \A y \in B : ~ (<<y, x>> \in OpToRel(<, Nat))
  BY <1>1, WFMin
<1>3. \A y \in B : ~ (y < x)
  BY <1>2 DEF OpToRel
<1> QED
  BY <1>3

\* What a function that walks the list computes.
Walks(F) ==
  F = [k \in Nat |-> IF k = 0 THEN qlast
                     ELSE IF F[k - 1] \in queued THEN rq[F[k - 1]].father ELSE NULL]

\* Only one function walks the list: two would differ at a first place.
LEMMA WalkUnique == ASSUME NEW F, Walks(F) PROVE FromLast = F
<1>1. Walks(FromLast)
  BY DEF Walks, FromLast
<1> DEFINE B == {k \in Nat : FromLast[k] # F[k]}
<1>2. ASSUME B # {} PROVE FALSE
  <2>1. PICK k \in B : \A y \in B : k <= y
    <3> HIDE DEF B
    <3>1. \A x \in B : x \in Nat
      BY DEF B
    <3> QED
      BY <1>2, <3>1, LeastPosition
  <2>2. k \in Nat /\ FromLast[k] # F[k]
    OBVIOUS
  <2>3. CASE k = 0
    BY <1>1, <2>2, <2>3 DEF Walks
  <2>4. CASE k # 0
    <3>1. k - 1 \in Nat /\ k - 1 \notin B
      BY <2>1, <2>2, <2>4
    <3>2. FromLast[k - 1] = F[k - 1]
      BY <3>1
    <3>3. /\ FromLast[k] = IF FromLast[k - 1] \in queued THEN rq[FromLast[k - 1]].father ELSE NULL
          /\ F[k] = IF F[k - 1] \in queued THEN rq[F[k - 1]].father ELSE NULL
      BY <1>1, <2>2, <2>4, Zenon DEF Walks
    <3> QED
      BY <2>2, <3>2, <3>3
  <2> QED
    BY <2>3, <2>4
<1>3. \A k \in Nat : FromLast[k] = F[k]
  BY <1>2
<1> QED
  BY <1>1, <1>3 DEF Walks

\* The walk finds the sequence the list stands for.
LEMMA WalkFindsSequence ==
  ASSUME QueueAssumption, NEW s, Represents(s)
  PROVE  AbstractQueue = s
<1> DEFINE n == Len(s)
<1>1. /\ n \in Nat
      /\ s = [i \in 1 .. n |-> s[i]]
      /\ \A i \in 1 .. n : s[i] \in Client
  BY LenProperties, ElementOfSeq DEF Represents
<1>2. \A i \in 1 .. n : s[i] \in queued /\ rq[s[i]].father = IF i = n THEN NULL ELSE s[i + 1]
  BY DEF Represents, Linked, Elements, FatherOf
<1>3. NULL \notin queued
  BY <1>1 DEF Represents, Linked, Elements, QueueAssumption
<1>4. qlast = IF n = 0 THEN NULL ELSE s[1]
  BY <1>1, EmptySeq DEF Represents, Ends
<1> HIDE DEF n
<1> DEFINE F == [k \in Nat |-> IF k < n THEN s[k + 1] ELSE NULL]
<1>5. \A k \in Nat : F[k] = IF k < n THEN s[k + 1] ELSE NULL
  OBVIOUS
<1> DEFINE D(k) == IF k = 0 THEN qlast
                   ELSE IF F[k - 1] \in queued THEN rq[F[k - 1]].father ELSE NULL
<1>6. ASSUME NEW k \in Nat PROVE F[k] = D(k)
  <2> HIDE DEF F
  <2>1. CASE k = 0
    BY <1>1, <1>4, <1>5, <2>1
  <2>2. CASE k # 0 /\ k - 1 < n
    <3>1. k - 1 \in Nat /\ (k - 1) + 1 = k /\ k \in 1 .. n
      BY <1>1, <2>2
    <3>2. F[k - 1] = s[k]
      BY <1>5, <2>2, <3>1
    <3>3. D(k) = IF k = n THEN NULL ELSE s[k + 1]
      BY <1>2, <2>2, <3>1, <3>2
    <3>4. k < n <=> k # n
      BY <1>1, <3>1
    <3>5. F[k] = IF k = n THEN NULL ELSE s[k + 1]
      BY <1>5, <3>4, Zenon
    <3> QED
      BY <3>3, <3>5
  <2>3. CASE k # 0 /\ ~ (k - 1 < n)
    <3>1. k - 1 \in Nat /\ ~ (k < n)
      BY <1>1, <2>3
    <3> QED
      BY <1>3, <1>5, <2>3, <3>1
  <2> QED
    BY <2>1, <2>2, <2>3
<1>7. Walks(F)
  <2>1. F = [k \in Nat |-> D(k)]
    <3> HIDE DEF D
    <3> QED
      BY <1>6
  <2> HIDE DEF F
  <2> QED
    BY <2>1 DEF Walks
<1>8. FromLast = F
  BY <1>7, WalkUnique
<1> HIDE DEF F
<1>9. ASSUME NEW i \in 1 .. n PROVE FromLast[i - 1] = s[i]
  <2>1. i - 1 \in Nat /\ i - 1 < n /\ (i - 1) + 1 = i
    BY <1>1
  <2> QED
    BY <1>5, <1>8, <2>1
<1>10. count_rq = n
  BY DEF Represents, n
<1>11. AbstractQueue = [i \in 1 .. n |-> FromLast[i - 1]]
  BY <1>10 DEF AbstractQueue
<1> QED
  BY <1>1, <1>9, <1>11

\* The same for the state after a step.
LEMMA WalkNext == (\A s : QueueAssumption /\ Represents(s) => AbstractQueue = s)'
<1>1. \A s : QueueAssumption /\ Represents(s) => AbstractQueue = s
  BY WalkFindsSequence
<1> QED
  BY <1>1, PTL
=============================================================================
