---------------------------- MODULE TransportProofs ----------------------------
(***************************************************************************)
(* Messages arrive whole, for every number of clients and workers, every   *)
(* capacity of the sockets, every length of messages, and every way in     *)
(* which read and write cut them.                                          *)
(***************************************************************************)
EXTENDS TransportProperties, SequenceTheorems, FiniteSetTheorems, TLAPS

Units == Seq(Int)
Msg == [text : Units, content : Units]

(***************************************************************************)
(* Sequences of units.                                                     *)
(***************************************************************************)
\* c is a followed by b.  The proofs treat it as a relation and know of it
\* what the lemmas of this section say.
Joins(a, b, c) == a \o b = c

\* Two sequences have a concatenation.
LEMMA JoinsExists ==
  ASSUME NEW a \in Units, NEW b \in Units
  PROVE  \E c \in Units : Joins(a, b, c)
BY ConcatProperties DEF Units, Joins

\* It is one, and as long as the two.
LEMMA JoinsLen ==
  ASSUME NEW a \in Units, NEW b \in Units, NEW c, Joins(a, b, c)
  PROVE  /\ c \in Units
         /\ Len(a) \in Nat /\ Len(b) \in Nat /\ Len(c) \in Nat
         /\ Len(c) = Len(a) + Len(b)
<1>1. c = a \o b
  BY DEF Joins
<1>2. a \in Seq(Int) /\ b \in Seq(Int)
  BY DEF Units
<1>3. a \o b \in Seq(Int) /\ Len(a \o b) = Len(a) + Len(b)
  BY <1>2, ConcatProperties
<1>4. c \in Seq(Int) /\ Len(c) = Len(a) + Len(b)
  BY <1>1, <1>3, Zenon
<1> QED
  BY <1>2, <1>4, LenProperties DEF Units

\* Nothing added changes nothing.
LEMMA JoinsEmpty ==
  ASSUME NEW a \in Units
  PROVE  Joins(a, <<>>, a) /\ Joins(<<>>, a, a)
BY ConcatEmptySeq DEF Units, Joins

\* What is empty adds nothing.
LEMMA JoinsNothing ==
  ASSUME NEW a \in Units, NEW c
  PROVE  /\ Joins(a, <<>>, c) => c = a
         /\ Joins(<<>>, a, c) => c = a
BY ConcatEmptySeq DEF Units, Joins

\* Three sequences can be put together in either order.
LEMMA JoinsTwice ==
  ASSUME NEW a \in Units, NEW b \in Units, NEW c \in Units, NEW ab, NEW bc, NEW abc,
         Joins(a, b, ab), Joins(b, c, bc)
  PROVE  Joins(ab, c, abc) <=> Joins(a, bc, abc)
<1>1. (a \o b) \o c = a \o (b \o c)
  BY ConcatAssociative DEF Units
<1> QED
  BY <1>1, Zenon DEF Joins

\* Two cuts of a sequence at the same place give the same parts.
LEMMA JoinsCut ==
  ASSUME NEW a \in Units, NEW b \in Units, NEW c \in Units, NEW d \in Units,
         NEW w, Joins(a, b, w), Joins(c, d, w), Len(a) = Len(c)
  PROVE  a = c /\ b = d
<1>1. a \o b = c \o d
  BY DEF Joins
<1>2. a = c
  <2>1. \A i \in 1 .. Len(a) : a[i] = c[i]
    <3> SUFFICES ASSUME NEW i \in 1 .. Len(a) PROVE a[i] = c[i]
      OBVIOUS
    <3>1. /\ i \in 1 .. Len(a) + Len(b) /\ i <= Len(a)
          /\ i \in 1 .. Len(c) + Len(d) /\ i <= Len(c)
      BY LenProperties DEF Units
    <3> QED
      BY <1>1, <3>1, ConcatProperties DEF Units
  <2> QED
    BY <2>1, SeqEqual DEF Units
<1> QED
  BY <1>1, <1>2, ConcatSimplifications DEF Units

\* The first n units, and the rest.
LEMMA TakeDrop ==
  ASSUME NEW s \in Units, NEW n \in 0 .. Len(s)
  PROVE  /\ Take(s, n) \in Units /\ Len(Take(s, n)) = n
         /\ Drop(s, n) \in Units /\ Len(Drop(s, n)) = Len(s) - n
         /\ Joins(Take(s, n), Drop(s, n), s)
<1>1. Len(s) \in Nat /\ \A i \in 1 .. Len(s) : s[i] \in Int
  BY LenProperties, ElementOfSeq DEF Units
<1>2. Take(s, n) \in Units /\ Len(Take(s, n)) = n
  BY <1>1, SubSeqProperties DEF Units, Take
<1>3. Drop(s, n) \in Units /\ Len(Drop(s, n)) = Len(s) - n
  BY <1>1, SubSeqProperties DEF Units, Drop
<1>4. SubSeq(s, 1, n) \o SubSeq(s, n + 1, Len(s)) = SubSeq(s, 1, Len(s))
  <2>1. /\ 1 \in 1 .. Len(s) + 1 /\ n \in 1 - 1 .. Len(s) /\ Len(s) \in n .. Len(s)
        /\ s \in Seq(Int)
    BY <1>1 DEF Units
  <2> QED
    BY <2>1, ConcatAdjacentSubSeq
<1> QED
  BY <1>2, <1>3, <1>4, SubSeqFull DEF Units, Take, Drop, Joins

\* Sequences without units are one.
LEMMA EmptyUnits ==
  /\ <<>> \in Units /\ Len(<<>>) = 0
  /\ \A s \in Units : Len(s) \in Nat /\ (Len(s) = 0 <=> s = <<>>)
<1>1. \A s \in Seq(Int) : Len(s) \in Nat
  BY LenProperties
<1> QED
  BY <1>1, EmptySeq DEF Units

(***************************************************************************)
(* A reader.  head is the first field that announces a content.            *)
(***************************************************************************)
Framed(m, head) ==
  /\ m \in Msg
  /\ m.text # <<>>
  /\ m.text[1] = head => Len(m.content) = m.text[3]
  /\ m.text[1] # head => m.content = <<>>

Reader == [stage : {"header", "text", "content"}, size : Nat, got : Units, msg : Msg]

Body(m) == m.text \o m.content

\* The reader r has read a part of m, of which the units rest are to come.
Reading(r, m, head, rest) ==
  /\ r \in Reader /\ rest \in Units
  /\ Len(r.got) < r.size
  /\ \/ /\ r.stage = "header" /\ r.size = HEADER /\ r.msg = Nothing
        /\ Joins(r.got, rest, Wire(m))
     \/ /\ r.stage = "text" /\ r.size = Len(m.text) /\ r.msg = Nothing
        /\ Joins(r.got, rest, Body(m))
     \/ /\ r.stage = "content" /\ r.size = Len(m.content)
        /\ r.msg = [text |-> m.text, content |-> <<>>] /\ m.text[1] = head
        /\ Joins(r.got, rest, m.content)

Header(m) == <<Len(m.text)>> \o [i \in 1 .. HEADER - 1 |-> 0]

\* The parts of a message on the wire.
LEMMA WireParts ==
  ASSUME NEW m \in Msg
  PROVE  /\ m.text \in Units /\ m.content \in Units /\ Body(m) \in Units
         /\ Len(m.text) \in Nat /\ Len(m.content) \in Nat
         /\ Header(m) \in Units /\ Len(Header(m)) = HEADER
         /\ Header(m)[1] = Len(m.text)
         /\ Joins(m.text, m.content, Body(m))
         /\ Joins(Header(m), Body(m), Wire(m))
         /\ Wire(m) \in Units
         /\ Len(Body(m)) = Len(m.text) + Len(m.content)
         /\ Len(Wire(m)) = HEADER + Len(Body(m))
<1> DEFINE z == [i \in 1 .. HEADER - 1 |-> 0]
<1>1. m.text \in Units /\ m.content \in Units
  BY DEF Msg
<1>2. Len(m.text) \in Nat /\ Len(m.content) \in Nat
  BY <1>1, EmptyUnits
<1>3. HEADER \in Nat \ {0}
  BY TransportAssumption
<1>4. z \in Units /\ Len(z) = HEADER - 1
  BY <1>3 DEF Units
<1>5. <<Len(m.text)>> \in Units /\ Len(<<Len(m.text)>>) = 1 /\ <<Len(m.text)>>[1] = Len(m.text)
  BY <1>2 DEF Units
<1>6. Header(m) \in Units /\ Len(Header(m)) = HEADER
  <2>1. Joins(<<Len(m.text)>>, z, Header(m))
    BY DEF Joins, Header
  <2>2. Header(m) \in Units /\ Len(Header(m)) = Len(<<Len(m.text)>>) + Len(z)
    BY <1>4, <1>5, <2>1, JoinsLen
  <2> QED
    BY <1>3, <1>4, <1>5, <2>2
<1>7. Header(m)[1] = Len(m.text)
  <2>1. 1 \in 1 .. Len(<<Len(m.text)>>) + Len(z) /\ 1 <= Len(<<Len(m.text)>>)
    BY <1>3, <1>4, <1>5
  <2> QED
    BY <1>4, <1>5, <2>1, ConcatProperties DEF Units, Header
<1>8. Joins(m.text, m.content, Body(m))
  BY DEF Joins, Body
<1>9. Body(m) \in Units /\ Len(Body(m)) = Len(m.text) + Len(m.content)
  BY <1>1, <1>8, JoinsLen
<1>10. Joins(Header(m), Body(m), Wire(m))
  <2>1. PICK t : Joins(Header(m), m.text, t)
    BY <1>1, <1>6, JoinsExists
  <2>2. Joins(t, m.content, Wire(m))
    BY <2>1, Zenon DEF Joins, Wire, Header
  <2> QED
    BY <1>1, <1>6, <1>8, <2>1, <2>2, JoinsTwice
<1>11. Wire(m) \in Units /\ Len(Wire(m)) = HEADER + Len(Body(m))
  <2>1. Wire(m) \in Units /\ Len(Wire(m)) = Len(Header(m)) + Len(Body(m))
    BY <1>6, <1>9, <1>10, JoinsLen
  <2> QED
    BY <1>6, <2>1
<1> QED
  BY <1>1, <1>2, <1>6, <1>7, <1>8, <1>9, <1>10, <1>11

\* Before anything is read.
LEMMA FreshReading ==
  ASSUME NEW m \in Msg, NEW head
  PROVE  Reading(Fresh, m, head, Wire(m))
<1>1. Wire(m) \in Units /\ Joins(<<>>, Wire(m), Wire(m))
  BY WireParts, JoinsEmpty
<1>2. HEADER \in Nat /\ HEADER > 0
  BY TransportAssumption
<1>3. Fresh \in Reader
  BY <1>2, EmptyUnits DEF Fresh, Reader, Nothing, Msg
<1> QED
  BY <1>1, <1>2, <1>3, EmptyUnits DEF Reading, Fresh

\* There is always something to come, and never less than the call wants.
LEMMA ReadingWants ==
  ASSUME NEW m \in Msg, NEW head, NEW r, NEW rest, Reading(r, m, head, rest)
  PROVE  /\ rest # <<>>
         /\ Len(r.got) \in Nat /\ r.size \in Nat /\ Len(r.got) < r.size
         /\ r.size - Len(r.got) <= Len(rest)
<1>1. /\ r.got \in Units /\ rest \in Units /\ r.size \in Nat
      /\ Len(r.got) \in Nat /\ Len(rest) \in Nat /\ Len(r.got) < r.size
  BY EmptyUnits DEF Reading, Reader
<1>2. PICK w : Joins(r.got, rest, w) /\ Len(w) >= r.size
  <2>1. HEADER \in Nat /\ Len(m.text) \in Nat /\ Len(m.content) \in Nat
    BY WireParts, TransportAssumption
  <2>2. /\ Len(Body(m)) = Len(m.text) + Len(m.content)
        /\ Len(Wire(m)) = HEADER + Len(Body(m))
        /\ Len(Body(m)) \in Nat
    BY WireParts, EmptyUnits
  <2>3. \A a, b \in Nat : a + b >= a
    OBVIOUS
  <2>4. Len(Body(m)) >= Len(m.text) /\ Len(Wire(m)) >= HEADER
    BY <2>1, <2>2, <2>3, Zenon
  <2> QED
    BY <2>1, <2>4 DEF Reading
<1>3. Len(w) = Len(r.got) + Len(rest)
  BY <1>1, <1>2, JoinsLen
<1> QED
  BY <1>1, <1>2, <1>3, EmptyUnits

\* A read takes the reader on in the message, or to its end: whatever the
\* size of the read, what comes out is m, and nothing is left of it.
LEMMA ReadsOn ==
  ASSUME NEW m, NEW head, Framed(m, head),
         NEW units \in Units, NEW rest \in Units, NEW all \in Units, NEW r,
         Joins(units, rest, all), Reading(r, m, head, all),
         units # <<>>, Len(units) <= r.size - Len(r.got)
  PROVE  LET s == Reads(r, units, head) IN
         \/ s.stage = "done" /\ s.msg = m /\ rest = <<>>
         \/ s.stage # "done" /\ Reading(s, m, head, rest)
<1> DEFINE s == Reads(r, units, head)
<1>1. m \in Msg /\ m.text # <<>> /\ m = [text |-> m.text, content |-> m.content]
  BY DEF Framed, Msg
<1>2. /\ r \in Reader /\ r.got \in Units /\ r.size \in Nat
      /\ r.stage \in {"header", "text", "content"} /\ r.msg \in Msg
      /\ Len(r.got) \in Nat /\ Len(r.got) < r.size
  BY EmptyUnits DEF Reading, Reader
<1>3. PICK g \in Units : Joins(r.got, units, g)
  BY <1>2, JoinsExists
<1> DEFINE q == [stage |-> r.stage, size |-> r.size, got |-> g, msg |-> r.msg]
<1>4. [r EXCEPT !.got = @ \o units] = q
  <2>1. r.got \o units = g
    BY <1>3 DEF Joins
  <2>2. [r EXCEPT !.got = g] = q
    BY <1>2 DEF Reader
  <2> QED
    BY <2>1, <2>2, Zenon
<1>5. \A w : Joins(r.got, all, w) <=> Joins(g, rest, w)
  BY <1>2, <1>3, JoinsTwice
<1>6. Len(g) \in Nat /\ Len(units) \in Nat /\ Len(g) = Len(r.got) + Len(units)
  BY <1>2, <1>3, JoinsLen
<1>7. Len(units) > 0
  BY EmptyUnits
<1>8. s = LET t == Settle(q, head) IN IF t.size = 0 THEN Settle(t, head) ELSE t
  BY <1>4, Zenon DEF Reads
<1> HIDE DEF s
<1>9. CASE Len(g) < r.size
  <2>1. Settle(q, head) = q
    BY <1>2, <1>6, <1>9 DEF Settle
  <2>2. s = q
    BY <1>2, <1>6, <1>8, <1>9, <2>1
  <2>3. Reading(q, m, head, rest)
    BY <1>2, <1>5, <1>9 DEF Reading, Reader
  <2> QED
    BY <1>2, <2>2, <2>3 DEF s
<1>10. CASE Len(g) = r.size
  <2>1. Settle(q, head) = Advance(q, head)
    BY <1>2, <1>10 DEF Settle
  <2> DEFINE a == Advance(q, head)
  <2>2. s = IF a.size = 0 THEN Settle(a, head) ELSE a
    BY <1>8, <2>1, Zenon
  <2> HIDE DEF a
  <2>3. CASE r.stage = "header"
    <3>1. Joins(g, rest, Wire(m)) /\ r.size = HEADER /\ r.msg = Nothing
      BY <1>5, <2>3 DEF Reading
    <3>2. /\ Header(m) \in Units /\ Body(m) \in Units /\ Len(Header(m)) = HEADER
          /\ Joins(Header(m), Body(m), Wire(m)) /\ Header(m)[1] = Len(m.text)
          /\ Len(m.text) \in Nat /\ m.text \in Units
      BY <1>1, WireParts
    <3>3. g = Header(m) /\ rest = Body(m)
      BY <1>10, <3>1, <3>2, JoinsCut
    <3>4. a = [stage |-> "text", size |-> Len(m.text), got |-> <<>>, msg |-> Nothing]
      BY <2>3, <3>1, <3>2, <3>3 DEF a, Advance
    <3>5. Len(m.text) > 0
      BY <1>1, <3>2, EmptyUnits
    <3>6. s = a
      BY <2>2, <3>4, <3>5
    <3>7. Joins(<<>>, rest, Body(m))
      BY <3>3, JoinsEmpty
    <3>8. Reading(a, m, head, rest)
      BY <3>2, <3>4, <3>5, <3>7, EmptyUnits DEF Reading, Reader, Nothing, Msg
    <3> QED
      BY <3>4, <3>6, <3>8 DEF s
  <2>4. CASE r.stage = "text"
    <3>1. Joins(g, rest, Body(m)) /\ r.size = Len(m.text) /\ r.msg = Nothing
      BY <1>5, <2>4 DEF Reading
    <3>2. /\ m.text \in Units /\ m.content \in Units /\ Body(m) \in Units
          /\ Joins(m.text, m.content, Body(m)) /\ Len(m.content) \in Nat
      BY <1>1, WireParts
    <3>3. g = m.text /\ rest = m.content
      BY <1>10, <3>1, <3>2, JoinsCut
    <3>4. CASE m.text[1] = head
      <4>1. Len(m.content) = m.text[3]
        BY <3>4 DEF Framed
      <4>2. a = [stage |-> "content", size |-> Len(m.content), got |-> <<>>,
                 msg |-> [text |-> m.text, content |-> <<>>]]
        <5>1. q.stage = "text" /\ q.got = m.text /\ q.msg = Nothing
          BY <2>4, <3>1, <3>3
        <5> HIDE DEF q
        <5>2. a = [q EXCEPT !.stage = "content", !.size = m.text[3], !.got = <<>>,
                            !.msg.text = m.text]
          BY <3>4, <5>1 DEF a, Advance
        <5>3. [q.msg EXCEPT !.text = m.text] = [text |-> m.text, content |-> <<>>]
          BY <5>1 DEF Nothing
        <5> QED
          BY <4>1, <5>2, <5>3 DEF q
      <4>3. CASE m.content = <<>>
        <5>1. Len(m.content) = 0
          BY <4>3, EmptyUnits
        <5>2. a = [stage |-> "content", size |-> 0, got |-> <<>>,
                   msg |-> [text |-> m.text, content |-> <<>>]]
          BY <4>2, <5>1
        <5>3. Settle(a, head) = Advance(a, head)
          BY <5>2, EmptyUnits DEF Settle
        <5>4. Advance(a, head).stage = "done"
              /\ Advance(a, head).msg = [text |-> m.text, content |-> <<>>]
          BY <5>2 DEF Advance
        <5>5. s.stage = "done" /\ s.msg = m
          BY <1>1, <2>2, <4>3, <5>2, <5>3, <5>4
        <5> QED
          BY <3>3, <4>3, <5>5 DEF s
      <4>4. CASE m.content # <<>>
        <5>1. Len(m.content) > 0
          BY <3>2, <4>4, EmptyUnits
        <5>2. s = a
          BY <2>2, <4>2, <5>1
        <5>3. Joins(<<>>, rest, m.content)
          BY <3>3, JoinsEmpty
        <5>4. Reading(a, m, head, rest)
          BY <3>2, <3>4, <4>2, <5>1, <5>3, EmptyUnits DEF Reading, Reader, Msg
        <5> QED
          BY <4>2, <5>2, <5>4 DEF s
      <4> QED
        BY <4>3, <4>4
    <3>5. CASE m.text[1] # head
      <4>1. m.content = <<>>
        BY <3>5 DEF Framed
      <4>2. a = [stage |-> "done", size |-> r.size, got |-> g,
                 msg |-> [text |-> m.text, content |-> <<>>]]
        <5>1. q.stage = "text" /\ q.got = m.text /\ q.msg = Nothing
          BY <2>4, <3>1, <3>3
        <5> HIDE DEF q
        <5>2. a = [q EXCEPT !.stage = "done", !.msg.text = m.text]
          BY <3>5, <5>1 DEF a, Advance
        <5>3. [q.msg EXCEPT !.text = m.text] = [text |-> m.text, content |-> <<>>]
          BY <5>1 DEF Nothing
        <5> QED
          BY <3>3, <5>2, <5>3 DEF q
      <4>3. s = a
        BY <1>2, <2>2, <4>2
      <4> QED
        BY <1>1, <3>3, <4>1, <4>2, <4>3 DEF s
    <3> QED
      BY <3>4, <3>5
  <2>5. CASE r.stage = "content"
    <3>1. /\ Joins(g, rest, m.content) /\ r.size = Len(m.content)
          /\ r.msg = [text |-> m.text, content |-> <<>>]
      BY <1>5, <2>5 DEF Reading
    <3>2. m.content \in Units /\ Joins(m.content, <<>>, m.content)
      BY <1>1, WireParts, JoinsEmpty
    <3>3. g = m.content /\ rest = <<>>
      BY <1>10, <3>1, <3>2, EmptyUnits, JoinsCut
    <3>4. a = [stage |-> "done", size |-> r.size, got |-> g,
               msg |-> [text |-> m.text, content |-> m.content]]
      <4>1. /\ q.stage = "content" /\ q.got = m.content
            /\ q.msg = [text |-> m.text, content |-> <<>>]
        BY <2>5, <3>1, <3>3
      <4>2. a = [q EXCEPT !.stage = "done", !.msg.content = m.content]
        BY <4>1 DEF a, Advance
      <4>3. [q.msg EXCEPT !.content = m.content]
              = [text |-> m.text, content |-> m.content]
        BY <4>1
      <4> QED
        BY <3>3, <4>2, <4>3
    <3>5. s = a
      BY <1>2, <2>2, <3>4
    <3> QED
      BY <1>1, <3>3, <3>4, <3>5 DEF s
  <2> QED
    BY <1>2, <2>3, <2>4, <2>5
<1> QED
  BY <1>2, <1>6, <1>9, <1>10

(***************************************************************************)
(* The answers in a socket.                                                *)
(***************************************************************************)
\* s is the messages of t after the first k, on the wire: x[i] is what is
\* left behind the i-th.
Chain(s, t, k) ==
  \E x \in [k .. Len(t) -> Units] :
    /\ x[k] = s /\ x[Len(t)] = <<>>
    /\ \A i \in k + 1 .. Len(t) : Joins(Wire(t[i]), x[i], x[i - 1])

\* s is what the reader r, which has got k messages of t, has not read.
Stream(s, r, head, t, k) ==
  \/ k = Len(t) /\ s = <<>> /\ r = Fresh
  \/ /\ k < Len(t)
     /\ \E x, y \in Units : /\ Joins(x, y, s)
                            /\ Reading(r, t[k + 1], head, x)
                            /\ Chain(y, t, k + 1)

(***************************************************************************)
(* The invariant.                                                          *)
(***************************************************************************)
\* k is cl[c], u and d are its sockets, t and h what was told and heard, r
\* the reader at the server's end, and y what a worker has yet to write.
AtRest(k, u, d) == k = NewClient /\ u = <<>> /\ d = <<>>

Sending(k, u, d, t, h, r) ==
  /\ k.pc \in {"write", "read"} /\ (k.pc = "read" <=> k.out = <<>>)
  /\ k.msg \in Message /\ k.in = Fresh
  /\ d = <<>> /\ t = <<>> /\ h = <<>>
  /\ Reading(r, k.msg, APPEND, u \o k.out)

\* The first field that announces a content to k.
Announces(k) == IF k.msg.text[1] \in {READ, READN} THEN FILE ELSE NULL

Listening(k, d, y, t, h) ==
  /\ k.pc = "read" /\ k.msg \in Message /\ k.out = <<>>
  /\ Len(h) <= Len(t) /\ \A i \in 1 .. Len(h) : h[i] = t[i]
  /\ \A i \in 1 .. Len(t) : Framed(t[i], Announces(k))
  /\ \A i \in 1 .. Len(t) - 1 : ~ LastFrame(k.msg, t[i])
  /\ Stream(d \o y, k.in, Announces(k), t, Len(h))

\* The workers and the queue have c's request.
Serves(w, c) == wk[w].fd = c /\ wk[w].pc \in {"serve", "last", "write"}
Writes(w, c) == wk[w].fd = c /\ wk[w].pc = "write"
Queued(c) == \E i \in 1 .. Len(requests) : requests[i].fd = c
Held(c) == Queued(c) \/ \E w \in Worker : Serves(w, c)

\* What is left to write to c.
Out(c) == IF \E w \in Worker : Writes(w, c)
          THEN wk[CHOOSE w \in Worker : Writes(w, c)].out ELSE <<>>

ReaderOf(c) == IF mgr.fd = c THEN mgr.in ELSE Fresh

\* A client that is alive asks, and listens when its request is taken.
Talks(c) ==
  Alive(c) /\ ~ended =>
    \/ AtRest(cl[c], up[c], down[c]) /\ ~ Held(c) /\ mgr.fd # c
    \/ /\ Sending(cl[c], up[c], down[c], told[c], heard[c], ReaderOf(c))
       /\ ~ Held(c)
    \/ /\ Listening(cl[c], down[c], Out(c), told[c], heard[c])
       /\ up[c] = <<>> /\ mgr.fd # c
       /\ Held(c) \/ Answered(c)

\* Of one that has died the manager reads a part of a request.
HasLeft(c) ==
  ~ Alive(c) /\ ~ended =>
    IF Held(c) THEN up[c] = <<>>
    ELSE \E m \in Msg, x \in Units :
           Framed(m, APPEND) /\ Reading(ReaderOf(c), m, APPEND, up[c] \o x)

\* And of a server that has died a client reads a part of the frames.
IsLeft(c) ==
  Alive(c) /\ ended =>
    \/ cl[c].in = Fresh /\ down[c] = <<>>
    \/ \E y \in Units : Listening(cl[c], down[c], y, told[c], heard[c])

Begun(r) == r \in Reader /\ Len(r.got) < r.size

ClientState ==
  [pc : {"idle", "write", "read", "gone"}, msg : Msg, out : Units, in : Reader]

WorkerState ==
  [pc : {"none", "idle", "serve", "last", "write", "repipe"}, fd : Client \cup {NULL},
   msg : Msg, frame : Frame \cup {Nothing}, out : Units]

Typed ==
  /\ cl \in [Client -> ClientState]
  /\ up \in [Client -> Units] /\ down \in [Client -> Units]
  /\ \A c \in Client : /\ Begun(cl[c].in)
                       /\ Len(up[c]) <= Capacity /\ Len(down[c]) <= Capacity
  /\ listened \subseteq Client /\ back \subseteq Client
  /\ mgr \in [fd : Client \cup {NULL}, in : Reader] /\ Begun(mgr.in)
  /\ requests \in Seq([fd : Client, msg : Msg])
  /\ wk \in [Worker -> WorkerState]
  /\ lock \in Worker \cup {NULL}
  /\ told \in [Client -> Seq(Frame)] /\ heard \in [Client -> Seq(Msg)]
  /\ ended \in BOOLEAN

\* The descriptor of a client is in one place.
Places ==
  /\ listened \cap back = {}
  /\ mgr.fd \notin listened \cup back
  /\ \A i \in 1 .. Len(requests) : requests[i].fd \notin listened \cup back \cup {mgr.fd}
  /\ \A i, j \in 1 .. Len(requests) : requests[i].fd = requests[j].fd => i = j
  /\ \A w \in Worker :
       wk[w].pc \notin {"idle", "none"} =>
         /\ wk[w].fd \in Client \ (listened \cup back \cup {mgr.fd})
         /\ ~ Queued(wk[w].fd)
         /\ \A x \in Worker : wk[x].pc \notin {"idle", "none"} /\ wk[x].fd = wk[w].fd => x = w

\* What the workers and the queue know of the requests.
Hands ==
  /\ mgr.fd = NULL => mgr = Unread
  /\ \A i \in 1 .. Len(requests) :
       LET c == requests[i].fd IN
       Alive(c) => requests[i].msg = cl[c].msg /\ told[c] = <<>>
  /\ \A w \in Worker :
       LET c == wk[w].fd IN
       /\ wk[w].pc = "idle" => wk[w] = Free
       /\ wk[w].pc = "write" => /\ wk[w].out # <<>>
                                /\ told[c] # <<>> /\ wk[w].frame = Last(told[c])
       /\ Serves(w, c) /\ Alive(c) => wk[w].msg = cl[c].msg
       /\ wk[w].pc \in {"serve", "last"} /\ Alive(c) => ~ Answered(c)
  /\ lock # NULL => wk[lock].pc = "write"

\* Nothing is left of a server that has died.
Over == ended => /\ mgr = Unread /\ requests = <<>> /\ lock = NULL
                 /\ \A w \in Worker : wk[w] = Free

Conversation(c) == Talks(c) /\ HasLeft(c) /\ IsLeft(c)

IInv == Typed /\ Places /\ Hands /\ Over /\ \A c \in Client : Conversation(c)

\* The messages of the clients and the frames of the workers can be read:
\* their lengths are what they say.
LEMMA Messages ==
  /\ \A m \in Message : m \in Msg /\ Framed(m, APPEND)
  /\ \A f \in Frame : f \in Msg /\ Framed(f, FILE)
  /\ \A t \in Int : Framed(Plain(t), NULL) /\ (t # APPEND => Framed(Plain(t), APPEND))
  /\ \A m \in Msg : Wire(m) \in Units
<1>1. \A m \in Message \cup Files : m \in Msg /\ m.text # <<>>
  BY TransportAssumption DEF Msg, Units
<1>2. \A t \in Int : /\ Plain(t) \in Msg /\ Plain(t).text # <<>> /\ Plain(t).text[1] = t
                     /\ Plain(t).content = <<>>
  BY EmptyUnits DEF Plain, Msg, Units
<1>3. \A m \in Message : Framed(m, APPEND)
  BY <1>1, TransportAssumption DEF Framed
<1>4. \A f \in Files : Framed(f, FILE)
  BY <1>1, TransportAssumption DEF Framed, FILE
<1>5. \A t \in Int : /\ Framed(Plain(t), NULL)
                     /\ t # APPEND => Framed(Plain(t), APPEND)
                     /\ t # FILE => Framed(Plain(t), FILE)
  BY <1>2, TransportAssumption DEF Framed
<1>6. OK \in Int /\ KO \in Int /\ OK # FILE /\ KO # FILE
  BY DEF OK, KO, FILE
<1> QED
  BY <1>1, <1>2, <1>3, <1>4, <1>5, <1>6, WireParts DEF Frame

\* The last of a chain.
LEMMA ChainEnd ==
  ASSUME NEW s, NEW t, Len(t) \in Nat
  PROVE  Chain(s, t, Len(t)) <=> s = <<>>
<1>1. ASSUME s = <<>> PROVE Chain(s, t, Len(t))
  <2> DEFINE x == [i \in Len(t) .. Len(t) |-> s]
  <2>1. x \in [Len(t) .. Len(t) -> Units] /\ x[Len(t)] = s
    BY <1>1, EmptyUnits
  <2>2. Len(t) + 1 .. Len(t) = {}
    OBVIOUS
  <2> HIDE DEF x
  <2> QED
    BY <1>1, <2>1, <2>2, Zenon DEF Chain
<1> QED
  BY <1>1, Zenon DEF Chain

\* The first of a chain, and what is behind it.
LEMMA ChainNext ==
  ASSUME NEW s, NEW t, NEW k \in Nat, Len(t) \in Nat, k < Len(t), Chain(s, t, k)
  PROVE  \E y \in Units : Joins(Wire(t[k + 1]), y, s) /\ Chain(y, t, k + 1)
<1>1. PICK x \in [k .. Len(t) -> Units] :
        /\ x[k] = s /\ x[Len(t)] = <<>>
        /\ \A i \in k + 1 .. Len(t) : Joins(Wire(t[i]), x[i], x[i - 1])
  BY Zenon DEF Chain
<1> DEFINE y == [i \in k + 1 .. Len(t) |-> x[i]]
<1>2. /\ y \in [k + 1 .. Len(t) -> Units]
      /\ y[k + 1] = x[k + 1] /\ y[Len(t)] = <<>>
  BY <1>1
<1>3. ASSUME NEW i \in (k + 1) + 1 .. Len(t) PROVE Joins(Wire(t[i]), y[i], y[i - 1])
  <2>1. /\ i \in k + 1 .. Len(t) /\ i - 1 \in k + 1 .. Len(t)
    OBVIOUS
  <2> QED
    BY <1>1, <2>1, Zenon
<1>4. Chain(x[k + 1], t, k + 1)
  BY <1>2, <1>3, Zenon DEF Chain
<1>5. Joins(Wire(t[k + 1]), x[k + 1], s) /\ x[k + 1] \in Units
  <2>1. /\ k + 1 \in k + 1 .. Len(t) /\ (k + 1) - 1 = k /\ k + 1 \in k .. Len(t)
    OBVIOUS
  <2> QED
    BY <1>1, <2>1, Zenon
<1> QED
  BY <1>4, <1>5

\* One more behind the last.
LEMMA ChainAppend ==
  ASSUME NEW t \in Seq(Frame), NEW f \in Frame, NEW k \in 0 .. Len(t),
         NEW s \in Units, NEW all, Chain(s, t, k), Joins(s, Wire(f), all)
  PROVE  Chain(all, Append(t, f), k)
<1>0. \A g \in Frame : Wire(g) \in Units
  BY Messages
<1> DEFINE u == Append(t, f)
           n == Len(t)
<1>1. n \in Nat /\ Len(u) = n + 1 /\ u[n + 1] = f /\ \A i \in 1 .. n : u[i] = t[i] /\ t[i] \in Frame
  BY AppendProperties, LenProperties, ElementOfSeq
<1> HIDE DEF u, n
<1>2. PICK x \in [k .. n -> Units] :
        /\ x[k] = s /\ x[n] = <<>>
        /\ \A i \in k + 1 .. n : Joins(Wire(t[i]), x[i], x[i - 1])
  BY Zenon DEF Chain, n
<1>3. \A i \in k .. n : \E c \in Units : Joins(x[i], Wire(f), c)
  <2> SUFFICES ASSUME NEW i \in k .. n PROVE \E c \in Units : Joins(x[i], Wire(f), c)
    OBVIOUS
  <2> QED
    BY <1>0, JoinsExists
<1> DEFINE y == [i \in k .. n + 1 |->
                   IF i = n + 1 THEN <<>> ELSE CHOOSE c \in Units : Joins(x[i], Wire(f), c)]
<1>4. \A i \in k .. n : y[i] \in Units /\ Joins(x[i], Wire(f), y[i])
  <2> SUFFICES ASSUME NEW i \in k .. n PROVE y[i] \in Units /\ Joins(x[i], Wire(f), y[i])
    OBVIOUS
  <2>1. y[i] = CHOOSE c \in Units : Joins(x[i], Wire(f), c)
    BY <1>1
  <2>2. \E c \in Units : Joins(x[i], Wire(f), c)
    BY <1>3
  <2> HIDE DEF y
  <2> QED
    BY <2>1, <2>2, Zenon
<1>5. y[n + 1] = <<>>
  BY <1>1 DEF n
<1>6. y \in [k .. n + 1 -> Units]
  <2>1. y = [i \in k .. n + 1 |-> y[i]]
    OBVIOUS
  <2>2. \A i \in k .. n + 1 : i = n + 1 \/ i \in k .. n
    BY <1>1
  <2> HIDE DEF y
  <2> QED
    BY <1>4, <1>5, <2>1, <2>2, EmptyUnits
<1> HIDE DEF y
<1>7. y[k] = all
  <2>1. k \in k .. n
    BY <1>1 DEF n
  <2> QED
    BY <1>2, <1>4, <2>1, Zenon DEF Joins
<1>8. ASSUME NEW i \in k + 1 .. n + 1 PROVE Joins(Wire(u[i]), y[i], y[i - 1])
  <2>1. CASE i = n + 1
    <3>1. i - 1 = n /\ n \in k .. n
      BY <1>1, <2>1 DEF n
    <3>2. y[n] \in Units /\ Joins(<<>>, Wire(f), y[n])
      BY <1>2, <1>4, <3>1, Zenon
    <3>3. y[n] = Wire(f)
      BY <1>0, <3>2, JoinsNothing
    <3>4. Joins(Wire(f), <<>>, Wire(f))
      BY <1>0, JoinsEmpty
    <3> QED
      BY <1>1, <1>5, <2>1, <3>1, <3>3, <3>4, Zenon
  <2>2. CASE i # n + 1
    <3>1. i \in k + 1 .. n /\ i \in 1 .. n /\ i \in k .. n /\ i - 1 \in k .. n
      BY <1>1, <2>2 DEF n
    <3>2. Joins(Wire(t[i]), x[i], x[i - 1]) /\ u[i] = t[i]
      BY <1>1, <1>2, <3>1, Zenon
    <3>3. /\ Joins(x[i], Wire(f), y[i]) /\ Joins(x[i - 1], Wire(f), y[i - 1])
          /\ x[i] \in Units /\ Wire(t[i]) \in Units
      BY <1>0, <1>1, <1>2, <1>4, <3>1
    <3> QED
      BY <1>0, <3>2, <3>3, JoinsTwice
  <2> QED
    BY <2>1, <2>2
<1> QED
  <2>1. Len(u) = n + 1
    BY <1>1
  <2> QED
    BY <1>5, <1>6, <1>7, <1>8, <2>1, Zenon DEF Chain, u

\* The readers of a stream are in the middle of a call.
LEMMA StreamBegun ==
  ASSUME NEW s, NEW r, NEW head, NEW t, NEW k, Stream(s, r, head, t, k)
  PROVE  Begun(r)
<1>1. Begun(Fresh)
  BY TransportAssumption, EmptyUnits DEF Begun, Fresh, Reader, Nothing, Msg
<1> QED
  BY <1>1 DEF Stream, Reading, Begun

\* A reader that is done starts with the next message, if there is one.
LEMMA StreamNext ==
  ASSUME NEW t \in Seq(Frame), NEW k \in 0 .. Len(t), NEW s, NEW head, Chain(s, t, k)
  PROVE  Stream(s, Fresh, head, t, k)
<1>1. Len(t) \in Nat
  BY LenProperties
<1>2. CASE k = Len(t)
  BY <1>1, <1>2, ChainEnd DEF Stream
<1>3. CASE k < Len(t)
  <2>1. PICK y \in Units : Joins(Wire(t[k + 1]), y, s) /\ Chain(y, t, k + 1)
    BY <1>1, <1>3, ChainNext
  <2>2. t[k + 1] \in Msg
    BY <1>1, <1>3, ElementOfSeq, Messages
  <2>3. Wire(t[k + 1]) \in Units /\ Reading(Fresh, t[k + 1], head, Wire(t[k + 1]))
    BY <2>2, WireParts, FreshReading
  <2> QED
    BY <1>3, <2>1, <2>3, Zenon DEF Stream
<1> QED
  BY <1>1, <1>2, <1>3

\* A frame more is written.
LEMMA StreamAppend ==
  ASSUME NEW t \in Seq(Frame), NEW f \in Frame, NEW k \in 0 .. Len(t), NEW s \in Units,
         NEW r, NEW head, NEW all, Stream(s, r, head, t, k), Joins(s, Wire(f), all)
  PROVE  Stream(all, r, head, Append(t, f), k)
<1> DEFINE u == Append(t, f)
<1>1. /\ Len(t) \in Nat /\ Len(u) = Len(t) + 1 /\ u[Len(t) + 1] = f
      /\ \A i \in 1 .. Len(t) : u[i] = t[i]
  BY AppendProperties, LenProperties
<1>2. f \in Msg /\ Wire(f) \in Units
  BY Messages
<1> HIDE DEF u
<1>3. CASE k = Len(t) /\ s = <<>> /\ r = Fresh
  <2>1. all = Wire(f)
    BY <1>2, <1>3, JoinsNothing
  <2>2. Joins(Wire(f), <<>>, Wire(f)) /\ Reading(Fresh, f, head, Wire(f))
    BY <1>2, JoinsEmpty, FreshReading
  <2>3. Chain(<<>>, u, Len(u)) /\ Len(u) = k + 1 /\ u[k + 1] = f
    BY <1>1, <1>3, ChainEnd
  <2>4. k < Len(u) /\ Chain(<<>>, u, k + 1)
    BY <2>3
  <2> QED
    BY <1>2, <1>3, <2>1, <2>2, <2>3, <2>4, EmptyUnits, Zenon DEF Stream, u
<1>4. CASE k < Len(t)
  <2>1. PICK x \in Units, y \in Units : /\ Joins(x, y, s)
                                        /\ Reading(r, t[k + 1], head, x)
                                        /\ Chain(y, t, k + 1)
    BY <1>4 DEF Stream
  <2>2. PICK z \in Units : Joins(y, Wire(f), z)
    BY <1>2, JoinsExists
  <2>3. Joins(x, z, all)
    BY <1>2, <2>1, <2>2, JoinsTwice
  <2>4. k + 1 \in 0 .. Len(t) /\ k < Len(u) /\ u[k + 1] = t[k + 1]
    BY <1>1, <1>4
  <2>5. Chain(z, u, k + 1)
    BY <2>1, <2>2, <2>4, ChainAppend DEF u
  <2> QED
    BY <2>1, <2>3, <2>4, <2>5, Zenon DEF Stream, u
<1> QED
  BY <1>1, <1>3, <1>4 DEF Stream

\* A read from a stream gets a message, or a part of one, and leaves the rest.
LEMMA StreamRead ==
  ASSUME NEW t \in Seq(Frame), NEW k \in 0 .. Len(t), NEW s \in Units, NEW r, NEW head,
         \A i \in 1 .. Len(t) : Framed(t[i], head),
         Stream(s, r, head, t, k),
         NEW units \in Units, NEW rest \in Units, Joins(units, rest, s),
         units # <<>>, Len(units) <= r.size - Len(r.got)
  PROVE  LET q == Reads(r, units, head) IN
         /\ k < Len(t)
         /\ \/ /\ q.stage = "done" /\ q.msg = t[k + 1]
               /\ Stream(rest, Fresh, head, t, k + 1)
            \/ q.stage # "done" /\ Stream(rest, q, head, t, k)
<1> DEFINE q == Reads(r, units, head)
<1>1. Len(units) \in Nat /\ Len(units) # 0
  BY EmptyUnits
<1>2. s # <<>>
  BY <1>1, JoinsLen, EmptyUnits
<1>3. k < Len(t)
  BY <1>2 DEF Stream
<1>4. PICK x \in Units, y \in Units : /\ Joins(x, y, s)
                                      /\ Reading(r, t[k + 1], head, x)
                                      /\ Chain(y, t, k + 1)
  BY <1>2 DEF Stream
<1>5. Framed(t[k + 1], head) /\ t[k + 1] \in Msg
  BY <1>3, LenProperties DEF Framed
<1>6. Len(units) \in 0 .. Len(x)
  <2>1. r.size \in Nat /\ Len(r.got) \in Nat /\ r.size - Len(r.got) <= Len(x)
    BY <1>4, <1>5, ReadingWants
  <2>2. Len(x) \in Nat
    BY EmptyUnits
  <2> QED
    BY <1>1, <2>1, <2>2
<1>7. PICK x1 \in Units, x2 \in Units : Len(x1) = Len(units) /\ Joins(x1, x2, x)
  BY <1>6, TakeDrop
<1>8. PICK z \in Units : Joins(x2, y, z)
  BY JoinsExists
<1>9. Joins(x1, z, s)
  BY <1>4, <1>7, <1>8, JoinsTwice
<1>10. units = x1 /\ rest = z
  BY <1>7, <1>9, JoinsCut
<1>11. \/ q.stage = "done" /\ q.msg = t[k + 1] /\ x2 = <<>>
       \/ q.stage # "done" /\ Reading(q, t[k + 1], head, x2)
  BY <1>4, <1>5, <1>7, <1>10, ReadsOn
<1> HIDE DEF q
<1>12. CASE q.stage = "done" /\ q.msg = t[k + 1] /\ x2 = <<>>
  <2>1. rest = y
    BY <1>8, <1>10, <1>12, JoinsNothing
  <2>2. k + 1 \in 0 .. Len(t)
    BY <1>3, LenProperties
  <2>3. Stream(rest, Fresh, head, t, k + 1)
    BY <1>4, <2>1, <2>2, StreamNext
  <2> QED
    BY <1>3, <1>12, <2>3 DEF q
<1>13. CASE q.stage # "done" /\ Reading(q, t[k + 1], head, x2)
  <2>1. Stream(rest, q, head, t, k)
    BY <1>3, <1>4, <1>8, <1>10, <1>13, Zenon DEF Stream
  <2> QED
    BY <1>3, <1>13, <2>1 DEF q
<1> QED
  BY <1>11, <1>12, <1>13

(***************************************************************************)
(* The invariant is inductive: what the actions have in common.            *)
(***************************************************************************)
\* A part is not empty, and within both bounds.
LEMMA PartsOfMin ==
  ASSUME NEW a \in Nat, NEW b \in Nat, NEW n \in Parts(Min({a, b}))
  PROVE  n \in Nat /\ n > 0 /\ n <= a /\ n <= b
<1>1. \E x \in {a, b} : \A y \in {a, b} : x <= y
  OBVIOUS
<1>2. Min({a, b}) \in {a, b} /\ \A y \in {a, b} : Min({a, b}) <= y
  BY <1>1 DEF Min
<1> QED
  BY <1>2 DEF Parts

\* The client, the manager and the workers start with nothing under way.
LEMMA InitInv == Init => IInv
<1> SUFFICES ASSUME Init PROVE IInv
  OBVIOUS
<1> USE DEF Init
<1>1. Nothing \in Msg /\ Fresh \in Reader /\ Begun(Fresh)
  BY EmptyUnits, TransportAssumption DEF Nothing, Msg, Fresh, Reader, Begun
<1>2. NewClient \in ClientState /\ Free \in WorkerState /\ NotCreated \in WorkerState
  BY <1>1, EmptyUnits DEF NewClient, Free, NotCreated, ClientState, WorkerState
<1>3. Typed
  <2>1. cl \in [Client -> ClientState] /\ wk \in [Worker -> WorkerState]
    BY <1>2
  <2>2. up \in [Client -> Units] /\ down \in [Client -> Units]
    BY EmptyUnits
  <2>3. \A c \in Client : /\ Begun(cl[c].in)
                          /\ Len(up[c]) <= Capacity /\ Len(down[c]) <= Capacity
    BY <1>1, EmptyUnits, TransportAssumption DEF NewClient
  <2>4. mgr \in [fd : Client \cup {NULL}, in : Reader] /\ Begun(mgr.in)
    BY <1>1 DEF Unread
  <2>5. told \in [Client -> Seq(Frame)] /\ heard \in [Client -> Seq(Msg)]
    OBVIOUS
  <2>6. requests \in Seq([fd : Client, msg : Msg])
    OBVIOUS
  <2> QED
    BY <2>1, <2>2, <2>3, <2>4, <2>5, <2>6 DEF Typed
<1>7. \A w \in Worker : wk[w].pc \in {"idle", "none"} /\ (wk[w].pc = "idle" => wk[w] = Free)
  BY DEF Free, NotCreated
<1>4. Places
  BY <1>7, EmptyUnits, TransportAssumption DEF Places, Unread
<1>5. Hands
  BY <1>7, EmptyUnits DEF Hands, Serves
<1>6. ASSUME NEW c \in Client PROVE Conversation(c)
  <2>1. AtRest(cl[c], up[c], down[c]) /\ mgr.fd # c
    BY TransportAssumption DEF AtRest, Unread
  <2>2. ~ Held(c) /\ Alive(c)
    BY <1>7, EmptyUnits DEF Held, Queued, Serves, Alive, NewClient
  <2> QED
    BY <2>1, <2>2 DEF Conversation, Talks, HasLeft, IsLeft
<1> QED
  BY <1>3, <1>4, <1>5, <1>6 DEF IInv, Over

\* What there is between a client and the server does not change.
SameView(c) ==
  /\ cl'[c] = cl[c] /\ up'[c] = up[c] /\ down'[c] = down[c]
  /\ told'[c] = told[c] /\ heard'[c] = heard[c]
  /\ (Held(c))' = Held(c) /\ (Out(c))' = Out(c)
  /\ (mgr'.fd = c) = (mgr.fd = c) /\ (ReaderOf(c))' = ReaderOf(c)
  /\ ended' = ended

\* A step that shows a conversation the same requests, descriptor and
\* sockets as before keeps it.
LEMMA ViewKept ==
  ASSUME NEW c \in Client, SameView(c), Conversation(c)
  PROVE  Conversation(c)'
<1> USE DEF SameView, Conversation
<1>1. Alive(c)' = Alive(c) /\ Answered(c)' = Answered(c)
  BY DEF Alive, Answered
<1>2. Talks(c)'
  BY <1>1 DEF Talks
<1>3. HasLeft(c)'
  BY <1>1 DEF HasLeft
<1>4. IsLeft(c)'
  BY <1>1 DEF IsLeft
<1> QED
  BY <1>2, <1>3, <1>4

\* A step of a client keeps the invariant if it keeps it for this client,
\* and if the server does not know better than the client.
LEMMA ClientStep ==
  ASSUME IInv, NEW c \in Client, UNCHANGED SRV,
         \A d \in Client \ {c} : /\ cl'[d] = cl[d] /\ up'[d] = up[d] /\ down'[d] = down[d]
                                 /\ told'[d] = told[d] /\ heard'[d] = heard[d],
         Held(c) => /\ told'[c] = told[c]
                    /\ Alive(c)' => Alive(c) /\ cl'[c].msg = cl[c].msg,
         Typed', Conversation(c)'
  PROVE  IInv'
<1>1. /\ listened' = listened /\ back' = back /\ mgr' = mgr /\ requests' = requests
      /\ wk' = wk /\ lock' = lock /\ ended' = ended
  BY DEF SRV
<1>2. \A d \in Client : /\ Held(d)' = Held(d) /\ Out(d)' = Out(d)
                        /\ ReaderOf(d)' = ReaderOf(d)
  BY <1>1 DEF Held, Queued, Serves, Out, Writes, ReaderOf
<1>3. \A d \in Client : Conversation(d)'
  <2> SUFFICES ASSUME NEW d \in Client, d # c PROVE Conversation(d)'
    OBVIOUS
  <2>1. SameView(d)
    BY <1>1, <1>2 DEF SameView
  <2> QED
    BY <2>1, ViewKept DEF IInv
<1>4. Places'
  BY <1>1 DEF IInv, Places, Queued
<1>5. Over'
  BY <1>1 DEF IInv, Over
<1>6. Hands'
  <2>1. \A d \in Client : Held(d) => /\ told'[d] = told[d]
                                     /\ Alive(d)' => Alive(d) /\ cl'[d].msg = cl[d].msg
    BY DEF Alive
  <2>2. ASSUME NEW i \in 1 .. Len(requests), NEW d \in Client, requests[i].fd = d, Alive(d)'
        PROVE  requests[i].msg = cl'[d].msg /\ told'[d] = <<>>
    <3>1. Held(d)
      BY <2>2 DEF Held, Queued
    <3>2. Alive(d) /\ told'[d] = told[d] /\ cl'[d].msg = cl[d].msg
      BY <2>1, <2>2, <3>1
    <3> QED
      BY <2>2, <3>2 DEF IInv, Hands
  <2>3. ASSUME NEW w \in Worker, NEW d \in Client, wk[w].fd = d, Serves(w, d)
        PROVE  /\ wk[w].pc = "write" => told'[d] # <<>> /\ wk[w].frame = Last(told'[d])
               /\ Alive(d)' => wk[w].msg = cl'[d].msg
               /\ wk[w].pc \in {"serve", "last"} /\ Alive(d)' => ~ Answered(d)'
    <3>1. Held(d)
      BY <2>3 DEF Held
    <3>2. told'[d] = told[d] /\ (Alive(d)' => Alive(d) /\ cl'[d].msg = cl[d].msg)
      BY <2>1, <3>1
    <3>3. Alive(d)' => Answered(d)' = Answered(d)
      BY <3>2 DEF Answered
    <3> QED
      BY <2>3, <3>2, <3>3 DEF IInv, Hands
  <2>4. \A i \in 1 .. Len(requests) : requests[i].fd \in Client
    <3>1. requests \in Seq([fd : Client, msg : Msg])
      BY DEF IInv, Typed
    <3>2. \A i \in 1 .. Len(requests) : requests[i] \in [fd : Client, msg : Msg]
      BY <3>1, ElementOfSeq
    <3> QED
      BY <3>2
  <2>5. \A w \in Worker : /\ wk[w].pc = "idle" => wk[w] = Free
                          /\ wk[w].pc = "write" => wk[w].out # <<>>
                          /\ wk[w].pc \notin {"idle", "none"} => wk[w].fd \in Client
    BY DEF IInv, Hands, Places
  <2>6. (mgr.fd = NULL => mgr = Unread) /\ (lock # NULL => wk[lock].pc = "write")
    BY DEF IInv, Hands
  <2>7. ASSUME NEW i \in 1 .. Len(requests), Alive(requests[i].fd)'
        PROVE  /\ requests[i].msg = cl'[requests[i].fd].msg
               /\ told'[requests[i].fd] = <<>>
    BY <1>1, <2>2, <2>4, <2>7
  <2>8. ASSUME NEW w \in Worker, Serves(w, wk[w].fd)
        PROVE  LET d == wk[w].fd IN
               /\ wk[w].pc = "write" => told'[d] # <<>> /\ wk[w].frame = Last(told'[d])
               /\ Alive(d)' => wk[w].msg = cl'[d].msg
               /\ wk[w].pc \in {"serve", "last"} /\ Alive(d)' => ~ Answered(d)'
    <3>1. wk[w].fd \in Client
      BY <2>5, <2>8 DEF Serves
    <3>2. PICK d \in Client : wk[w].fd = d /\ wk'[w].fd = d
      BY <1>1, <3>1
    <3> QED
      BY <1>1, <2>3, <2>8, <3>2
  <2> QED
    BY <1>1, <2>5, <2>6, <2>7, <2>8 DEF Hands, Serves
<1> QED
  BY <1>3, <1>4, <1>5, <1>6 DEF IInv

\* A client that is idle is at rest, and its request is nowhere.
LEMMA IdleAtRest ==
  ASSUME IInv, NEW c \in Client, cl[c].pc = "idle"
  PROVE  /\ down[c] = <<>> /\ cl[c].in = Fresh /\ ~ Held(c)
         /\ ~ended => up[c] = <<>> /\ mgr.fd # c
<1>1. Conversation(c) /\ Alive(c)
  BY DEF IInv, Alive
<1>2. CASE ~ended
  BY <1>1, <1>2 DEF Conversation, Talks, AtRest, NewClient, Sending, Listening
<1>3. CASE ended
  <2>1. requests = <<>> /\ \A w \in Worker : wk[w].pc = "idle"
    BY <1>3 DEF IInv, Over, Free
  <2>2. ~ Held(c)
    BY <2>1, EmptyUnits DEF Held, Queued, Serves
  <2> QED
    BY <1>1, <1>3, <2>2 DEF Conversation, IsLeft, Listening
<1> QED
  BY <1>2, <1>3

\* A request is written to a socket in which nothing is.
LEMMA AskKeeps ==
  ASSUME IInv, NEW c \in Client, NEW m \in Message, Ask(c, m)
  PROVE  IInv'
<1> USE DEF Ask
<1>1. m \in Msg /\ Wire(m) \in Units /\ Fresh \in Reader /\ Begun(Fresh)
  BY Messages, EmptyUnits, TransportAssumption DEF Nothing, Msg, Fresh, Reader, Begun
<1> DEFINE k == [pc |-> "write", msg |-> m, out |-> Wire(m), in |-> Fresh]
<1>2. k \in ClientState
  BY <1>1 DEF ClientState
<1>3. /\ cl' = [cl EXCEPT ![c] = k] /\ cl'[c] = k /\ told'[c] = <<>> /\ heard'[c] = <<>>
      /\ up'[c] = up[c] /\ down'[c] = down[c] /\ ended' = ended /\ mgr' = mgr
      /\ requests' = requests /\ wk' = wk
  BY DEF IInv, Typed, SRV
<1>4. Typed'
  <2>1. cl' \in [Client -> ClientState] /\ \A d \in Client : Begun(cl'[d].in)
    BY <1>1, <1>2, <1>3 DEF IInv, Typed
  <2>2. told' \in [Client -> Seq(Frame)] /\ heard' \in [Client -> Seq(Msg)]
    BY DEF IInv, Typed
  <2> QED
    BY <2>1, <2>2 DEF IInv, Typed, SRV
<1>5. /\ down[c] = <<>> /\ ~ Held(c)
      /\ ~ended => up[c] = <<>> /\ mgr.fd # c
  BY IdleAtRest
<1>6. Conversation(c)'
  <2>1. Held(c)' = Held(c) /\ ReaderOf(c)' = ReaderOf(c) /\ Alive(c)'
    BY <1>3 DEF Held, Queued, Serves, ReaderOf, Alive
  <2>2. CASE ~ended
    <3>1. Reading(Fresh, m, APPEND, Wire(m)) /\ Wire(m) # <<>>
      BY <1>1, FreshReading, ReadingWants
    <3>2. <<>> \o Wire(m) = Wire(m)
      BY <1>1, JoinsEmpty DEF Joins
    <3>3. Reading(Fresh, k.msg, APPEND, <<>> \o k.out)
      BY <3>1, <3>2, Zenon
    <3>4. Sending(k, <<>>, <<>>, <<>>, <<>>, Fresh)
      BY <3>1, <3>3 DEF Sending
    <3>5. ReaderOf(c) = Fresh
      BY <1>5, <2>2 DEF ReaderOf
    <3> QED
      BY <1>3, <1>5, <2>1, <2>2, <3>4, <3>5 DEF Conversation, Talks, HasLeft, IsLeft
  <2>3. CASE ended
    BY <1>3, <1>5, <2>1, <2>3 DEF Conversation, Talks, HasLeft, IsLeft
  <2> QED
    BY <2>2, <2>3
<1> QED
  <2>1. UNCHANGED SRV
    OBVIOUS
  <2>2. \A d \in Client \ {c} :
          /\ cl'[d] = cl[d] /\ up'[d] = up[d] /\ down'[d] = down[d]
          /\ told'[d] = told[d] /\ heard'[d] = heard[d]
    BY DEF IInv, Typed
  <2> QED
    BY <1>4, <1>5, <1>6, <2>1, <2>2, ClientStep

\* The fields of a client.
LEMMA ClientFields ==
  ASSUME NEW k \in ClientState, NEW pc, NEW out
  PROVE  [k EXCEPT !.out = out, !.pc = pc]
           = [pc |-> pc, msg |-> k.msg, out |-> out, in |-> k.in]
<1>1. k = [pc |-> k.pc, msg |-> k.msg, out |-> k.out, in |-> k.in]
  BY DEF ClientState
<1>2. [k EXCEPT !.out = out] = [pc |-> k.pc, msg |-> k.msg, out |-> out, in |-> k.in]
  BY <1>1
<1>3. [[pc |-> k.pc, msg |-> k.msg, out |-> out, in |-> k.in] EXCEPT !.pc = pc]
        = [pc |-> pc, msg |-> k.msg, out |-> out, in |-> k.in]
  OBVIOUS
<1> QED
  BY <1>2, <1>3, Zenon

\* A write moves a part of the request into the socket.
LEMMA PutKeeps ==
  ASSUME IInv, NEW c \in Client, Put(c)
  PROVE  IInv'
<1>1. /\ cl[c] \in ClientState /\ up[c] \in Units /\ cl[c].out \in Units /\ Begun(cl[c].in)
      /\ Len(up[c]) <= Capacity
  BY DEF IInv, Typed, ClientState
<1>2. /\ UNCHANGED SRV /\ ended' = ended /\ down' = down /\ told' = told /\ heard' = heard
      /\ mgr' = mgr /\ requests' = requests /\ wk' = wk
  BY DEF Put, SRV
<1>3. CASE ended
  <2>1. cl' = [cl EXCEPT ![c].pc = "gone"] /\ up' = up
    BY <1>3 DEF Put
  <2>2. /\ cl'[c] \in ClientState /\ cl'[c].in = cl[c].in /\ ~ Alive(c)'
        /\ \A d \in Client \ {c} : cl'[d] = cl[d]
        /\ cl' \in [Client -> ClientState]
    <3>1. [cl[c] EXCEPT !.pc = "gone"] \in ClientState
      BY <1>1 DEF ClientState
    <3>2. [cl[c] EXCEPT !.pc = "gone"].pc = "gone" /\ [cl[c] EXCEPT !.pc = "gone"].in = cl[c].in
      BY <1>1 DEF ClientState
    <3>3. cl \in [Client -> ClientState] /\ cl' = [cl EXCEPT ![c] = [cl[c] EXCEPT !.pc = "gone"]]
      BY <2>1 DEF IInv, Typed
    <3> QED
      BY <3>1, <3>2, <3>3 DEF Alive
  <2>3. Typed'
    BY <1>2, <2>1, <2>2 DEF IInv, Typed, SRV
  <2>4. Conversation(c)'
    BY <1>2, <1>3, <2>2 DEF Conversation, Talks, HasLeft, IsLeft
  <2> QED
    BY <1>2, <2>1, <2>2, <2>3, <2>4, ClientStep
<1>4. CASE ~ended
  <2>1. PICK n \in Parts(Min({Room(up[c]), Len(cl[c].out)})) :
          /\ up' = [up EXCEPT ![c] = @ \o Take(cl[c].out, n)]
          /\ cl' = [cl EXCEPT ![c].out = Drop(@, n),
                              ![c].pc = IF n = Len(cl[c].out) THEN "read" ELSE @]
    BY <1>4 DEF Put
  <2> DEFINE part == Take(cl[c].out, n)
             left == Drop(cl[c].out, n)
  <2>2. /\ n \in Nat /\ n > 0 /\ n <= Room(up[c]) /\ n <= Len(cl[c].out)
        /\ Len(up[c]) \in Nat
    <3>1. Room(up[c]) \in Nat /\ Len(cl[c].out) \in Nat /\ Len(up[c]) \in Nat
      BY <1>1, EmptyUnits, TransportAssumption DEF Room
    <3> QED
      BY <2>1, <3>1, PartsOfMin
  <2>3. /\ part \in Units /\ left \in Units /\ Len(part) = n
        /\ Len(left) = Len(cl[c].out) - n /\ Joins(part, left, cl[c].out)
    BY <1>1, <2>2, TakeDrop
  <2>4. (n = Len(cl[c].out)) <=> left = <<>>
    BY <1>1, <2>2, <2>3, EmptyUnits
  <2> HIDE DEF part, left
  <2>5. PICK u : Joins(up[c], part, u)
    BY <1>1, <2>3, JoinsExists
  <2>6. u \in Units /\ Len(u) <= Capacity
    <3>1. u \in Units /\ Len(u) = Len(up[c]) + n
      BY <1>1, <2>3, <2>5, JoinsLen
    <3> QED
      BY <2>2, <3>1, TransportAssumption DEF Room
  <2> DEFINE k == [pc |-> IF left = <<>> THEN "read" ELSE "write", msg |-> cl[c].msg,
                   out |-> left, in |-> cl[c].in]
  <2>7. k \in ClientState
    BY <1>1, <2>3 DEF ClientState
  <2>8. cl' = [cl EXCEPT ![c] = k]
    <3>1. cl' = [cl EXCEPT ![c].out = left,
                           ![c].pc = IF left = <<>> THEN "read" ELSE "write"]
      BY <2>1, <2>4 DEF Put, left
    <3> DEFINE pc == IF left = <<>> THEN "read" ELSE "write"
    <3>2. k = [pc |-> pc, msg |-> cl[c].msg, out |-> left, in |-> cl[c].in]
      OBVIOUS
    <3>3. cl' = [cl EXCEPT ![c] = [cl[c] EXCEPT !.out = left, !.pc = pc]]
      BY <3>1 DEF IInv, Typed
    <3> HIDE DEF k, pc
    <3>4. [cl[c] EXCEPT !.out = left, !.pc = pc] = k
      <4>1. PICK r \in ClientState : r = cl[c]
        BY <1>1
      <4>2. [r EXCEPT !.out = left, !.pc = pc]
              = [pc |-> pc, msg |-> r.msg, out |-> left, in |-> r.in]
        BY ClientFields
      <4> QED
        BY <3>2, <4>1, <4>2, Zenon
    <3> QED
      BY <3>3, <3>4, Zenon
  <2>9. up' = [up EXCEPT ![c] = u]
    BY <2>1, <2>5, Zenon DEF Joins, part
  <2> HIDE DEF k
  <2>10. /\ cl' \in [Client -> ClientState] /\ up' \in [Client -> Units]
         /\ cl'[c] = k /\ up'[c] = u
         /\ \A d \in Client \ {c} : cl'[d] = cl[d] /\ up'[d] = up[d]
    BY <2>6, <2>7, <2>8, <2>9 DEF IInv, Typed
  <2>11. k.msg = cl[c].msg /\ k.in = cl[c].in /\ k.out = left /\ k.pc \in {"read", "write"}
         /\ (k.pc = "read" <=> left = <<>>)
    BY DEF k
  <2>12. Typed'
    <3>1. \A d \in Client : /\ Begun(cl'[d].in)
                            /\ Len(up'[d]) <= Capacity /\ Len(down'[d]) <= Capacity
      BY <1>1, <1>2, <2>6, <2>10, <2>11 DEF IInv, Typed
    <3> QED
      BY <1>2, <2>10, <3>1 DEF IInv, Typed, SRV
  <2>13. /\ Sending(cl[c], up[c], down[c], told[c], heard[c], ReaderOf(c))
         /\ ~ Held(c) /\ Alive(c)
    BY <1>4 DEF IInv, Put, Conversation, Talks, AtRest, NewClient, Listening, Alive
  <2>14. Reading(ReaderOf(c), k.msg, APPEND, u \o k.out)
    <3>1. PICK all : Joins(up[c], cl[c].out, all)
      BY DEF Joins
    <3>2. Joins(u, left, all)
      BY <1>1, <2>3, <2>5, <3>1, JoinsTwice
    <3>3. Reading(ReaderOf(c), cl[c].msg, APPEND, all)
      BY <2>13, <3>1, Zenon DEF Sending, Joins
    <3>4. u \o k.out = all
      BY <2>11, <3>2, Zenon DEF Joins
    <3> QED
      BY <2>11, <3>3, <3>4, Zenon
  <2>15. Sending(k, u, down[c], told[c], heard[c], ReaderOf(c))
    BY <2>11, <2>13, <2>14 DEF Sending
  <2>16. Conversation(c)'
    <3>1. ReaderOf(c)' = ReaderOf(c) /\ Held(c)' = Held(c) /\ Alive(c)'
      BY <1>2, <2>10, <2>11 DEF ReaderOf, Held, Queued, Serves, Alive
    <3> QED
      BY <1>2, <1>4, <2>10, <2>13, <2>15, <3>1 DEF Conversation, Talks, HasLeft, IsLeft
  <2> QED
    BY <1>2, <2>10, <2>12, <2>13, <2>16, ClientStep
<1> QED
  BY <1>3, <1>4

\* What is left to write is units, and the only writer's.
LEMMA OutIs ==
  ASSUME IInv, NEW c \in Client
  PROVE  /\ Out(c) \in Units
         /\ \A w \in Worker : Writes(w, c) => Out(c) = wk[w].out
<1>1. CASE \E w \in Worker : Writes(w, c)
  <2> DEFINE w0 == CHOOSE w \in Worker : Writes(w, c)
  <2>1. w0 \in Worker /\ Writes(w0, c) /\ Out(c) = wk[w0].out
    BY <1>1, Zenon DEF Out
  <2> HIDE DEF w0
  <2>2. \A w \in Worker : Writes(w, c) => w = w0
    BY <2>1 DEF IInv, Places, Writes
  <2> QED
    BY <2>1, <2>2 DEF IInv, Typed, WorkerState
<1>2. CASE ~ \E w \in Worker : Writes(w, c)
  BY <1>2, EmptyUnits DEF Out
<1> QED
  BY <1>1, <1>2

\* One read of a client that listens.
LEMMA ListeningGets ==
  ASSUME NEW k \in ClientState, NEW d \in Units, NEW y \in Units,
         NEW t \in Seq(Frame), NEW h \in Seq(Msg), Listening(k, d, y, t, h),
         NEW n \in 1 .. Len(d), n <= k.in.size - Len(k.in.got)
  PROVE  LET q == Reads(k.in, Take(d, n), Announces(k)) IN
         /\ Len(h) \in Nat /\ Len(t) \in Nat /\ Len(h) < Len(t)
         /\ \/ /\ q.stage = "done" /\ q.msg = t[Len(h) + 1]
               /\ Stream(Drop(d, n) \o y, Fresh, Announces(k), t, Len(h) + 1)
            \/ /\ q.stage # "done"
               /\ Stream(Drop(d, n) \o y, q, Announces(k), t, Len(h))
<1>1. Len(d) \in Nat
  BY EmptyUnits
<1>2. /\ Take(d, n) \in Units /\ Drop(d, n) \in Units /\ Len(Take(d, n)) = n
      /\ Joins(Take(d, n), Drop(d, n), d) /\ Take(d, n) # <<>>
  BY <1>1, TakeDrop, EmptyUnits
<1>3. PICK s \in Units : Joins(d, y, s)
  BY JoinsExists
<1>4. PICK z \in Units : Joins(Drop(d, n), y, z)
  BY <1>2, JoinsExists
<1>5. Joins(Take(d, n), z, s)
  BY <1>2, <1>3, <1>4, JoinsTwice
<1>6. Stream(s, k.in, Announces(k), t, Len(h))
  BY <1>3, Zenon DEF Listening, Joins
<1>7. Len(h) \in 0 .. Len(t) /\ Len(t) \in Nat
  BY LenProperties DEF Listening
<1>8. \A i \in 1 .. Len(t) : Framed(t[i], Announces(k))
  BY DEF Listening
<1> DEFINE q == Reads(k.in, Take(d, n), Announces(k))
<1>9. /\ Len(h) < Len(t)
      /\ \/ /\ q.stage = "done" /\ q.msg = t[Len(h) + 1]
            /\ Stream(z, Fresh, Announces(k), t, Len(h) + 1)
         \/ q.stage # "done" /\ Stream(z, q, Announces(k), t, Len(h))
  BY <1>2, <1>5, <1>6, <1>7, <1>8, StreamRead
<1>10. Drop(d, n) \o y = z
  BY <1>4 DEF Joins
<1> HIDE DEF q
<1>11. \/ /\ q.stage = "done" /\ q.msg = t[Len(h) + 1]
          /\ Stream(Drop(d, n) \o y, Fresh, Announces(k), t, Len(h) + 1)
       \/ /\ q.stage # "done"
          /\ Stream(Drop(d, n) \o y, q, Announces(k), t, Len(h))
  BY <1>9, <1>10, Zenon
<1> QED
  BY <1>7, <1>9, <1>11 DEF q

\* What a call returns at the end of a file is a message.
LEMMA ReadsEndMsg ==
  ASSUME NEW r, Begun(r)
  PROVE  ReadsEnd(r) \in Msg
<1>1. /\ r.stage \in {"header", "text", "content"} /\ r.got \in Units /\ r.size \in Nat
      /\ r.msg \in Msg
  BY DEF Begun, Reader
<1>2. Buffer(r) \in Units
  <2>1. \A i \in 1 .. Len(r.got) : r.got[i] \in Int
    BY <1>1, ElementOfSeq DEF Units
  <2>2. \A i \in 1 .. r.size : (IF i <= Len(r.got) THEN r.got[i] ELSE 0) \in Int
    BY <1>1, <2>1, EmptyUnits
  <2> QED
    BY <1>1, <2>2 DEF Buffer, Units
<1>3. Nothing \in Msg /\ [Nothing EXCEPT !.text = r.got] \in Msg
  BY <1>1, EmptyUnits DEF Nothing, Msg
<1>4. [r.msg EXCEPT !.content = Buffer(r)] \in Msg
  BY <1>1, <1>2 DEF Msg
<1> QED
  BY <1>1, <1>3, <1>4 DEF ReadsEnd

\* A client that has no answer, or has read all of one, has none in hand.
LEMMA HeardAll ==
  ASSUME IInv, NEW c \in Client, Alive(c), Answered(c), Out(c) = <<>>
  PROVE  ~ Held(c)
<1>1. ~ Queued(c)
  BY DEF IInv, Hands, Queued, Answered
<1>2. \A w \in Worker : ~ Serves(w, c)
  <2> SUFFICES ASSUME NEW w \in Worker, Serves(w, c) PROVE FALSE
    OBVIOUS
  <2>1. wk[w].pc = "write" /\ wk[w].fd = c
    BY DEF IInv, Hands, Serves
  <2>2. wk[w].out # <<>>
    BY <2>1 DEF IInv, Hands
  <2> QED
    BY <2>1, <2>2, OutIs DEF Writes
<1> QED
  BY <1>1, <1>2 DEF Held

\* The step of a client that reads.
LEMMA ReadStep ==
  ASSUME IInv, NEW c \in Client, UNCHANGED SRV, NEW k \in ClientState, Begun(k.in),
         cl' = [cl EXCEPT ![c] = k], up' = up, told' = told,
         NEW d \in Units, Len(d) <= Capacity, down' = [down EXCEPT ![c] = d],
         NEW h \in Seq(Msg), heard' = [heard EXCEPT ![c] = h],
         Held(c) => Alive(c) /\ k.msg = cl[c].msg, Conversation(c)'
  PROVE  IInv'
<1>1. /\ cl \in [Client -> ClientState] /\ down \in [Client -> Units]
      /\ heard \in [Client -> Seq(Msg)]
      /\ \A e \in Client : Begun(cl[e].in) /\ Len(down[e]) <= Capacity
  BY DEF IInv, Typed
<1>2. /\ cl' \in [Client -> ClientState] /\ down' \in [Client -> Units]
      /\ heard' \in [Client -> Seq(Msg)]
      /\ \A e \in Client : Begun(cl'[e].in) /\ Len(down'[e]) <= Capacity
  BY <1>1
<1>3. Typed'
  BY <1>2 DEF IInv, Typed, SRV
<1>4. /\ cl'[c] = k
      /\ \A e \in Client \ {c} : /\ cl'[e] = cl[e] /\ up'[e] = up[e] /\ down'[e] = down[e]
                                 /\ told'[e] = told[e] /\ heard'[e] = heard[e]
  BY <1>1
<1> QED
  BY <1>3, <1>4, ClientStep

\* What a client hears is the next of what it was told.
HearsNext(c) ==
  \/ heard' = heard /\ cl'[c].pc = cl[c].pc /\ cl'[c].msg = cl[c].msg
  \/ Len(heard[c]) < Len(told[c]) /\ Hear(c, told[c][Len(heard[c]) + 1])

\* A read takes a part of a frame out of the socket, or the end of one.
LEMMA GetKeeps ==
  ASSUME IInv, NEW c \in Client, Get(c)
  PROVE  IInv' /\ HearsNext(c)
<1>1. /\ cl[c] \in ClientState /\ down[c] \in Units /\ Begun(cl[c].in) /\ cl[c].pc = "read"
      /\ Len(down[c]) <= Capacity /\ told[c] \in Seq(Frame) /\ heard[c] \in Seq(Msg)
      /\ cl \in [Client -> ClientState] /\ heard \in [Client -> Seq(Msg)]
      /\ down \in [Client -> Units] /\ cl[c].msg \in Msg /\ cl[c].out \in Units
  BY DEF IInv, Typed, Get, ClientState
<1>2. /\ UNCHANGED SRV /\ ended' = ended /\ up' = up /\ told' = told
      /\ mgr' = mgr /\ requests' = requests /\ wk' = wk
  BY DEF Get, SRV
<1> DEFINE q(n) == Reads(cl[c].in, Take(down[c], n), AskedFile(c))
<1>3. PICK n \in Parts(Min({Len(down[c]), cl[c].in.size - Len(cl[c].in.got)})) :
        /\ down' = [down EXCEPT ![c] = Drop(@, n)]
        /\ IF q(n).stage = "done" THEN Hear(c, q(n).msg)
           ELSE cl' = [cl EXCEPT ![c].in = q(n)] /\ heard' = heard
  BY DEF Get
<1> DEFINE r == q(n)
           d == Drop(down[c], n)
<1>4. n \in 1 .. Len(down[c]) /\ n <= cl[c].in.size - Len(cl[c].in.got)
  <2>1. /\ Len(down[c]) \in Nat /\ cl[c].in.size \in Nat /\ Len(cl[c].in.got) \in Nat
        /\ Len(cl[c].in.got) < cl[c].in.size
    BY <1>1, EmptyUnits DEF Begun, Reader
  <2> QED
    <3>1. PICK a, b : a = Len(down[c]) /\ b = cl[c].in.size - Len(cl[c].in.got)
      OBVIOUS
    <3>4. a \in Nat /\ b \in Nat
      BY <2>1, <3>1
    <3>2. n \in Parts(Min({a, b}))
      BY <1>3, <3>1, Zenon
    <3>3. n \in Nat /\ n > 0 /\ n <= a /\ n <= b
      BY <3>2, <3>4, PartsOfMin
    <3> QED
      BY <3>1, <3>3, <3>4
<1>5. d \in Units /\ Len(d) <= Capacity
  <2>1. n \in 0 .. Len(down[c]) /\ Len(down[c]) \in Nat
    BY <1>1, <1>4, EmptyUnits
  <2>2. d \in Units /\ Len(d) = Len(down[c]) - n
    BY <1>1, <2>1, TakeDrop
  <2> QED
    BY <1>1, <1>4, <2>1, <2>2, TransportAssumption
<1>6. PICK y \in Units : /\ Listening(cl[c], down[c], y, told[c], heard[c])
                         /\ ~ended => /\ y = Out(c) /\ up[c] = <<>> /\ mgr.fd # c
                                      /\ Held(c) \/ Answered(c)
  <2>1. down[c] # <<>>
    BY <1>1, <1>4, EmptyUnits
  <2>2. Conversation(c) /\ Alive(c) /\ Out(c) \in Units
    BY <1>1, OutIs DEF IInv, Alive
  <2> QED
    BY <2>1, <2>2 DEF Conversation, Talks, IsLeft, AtRest, Sending
<1>7. /\ Len(heard[c]) \in Nat /\ Len(told[c]) \in Nat /\ Len(heard[c]) < Len(told[c])
      /\ \/ /\ r.stage = "done" /\ r.msg = told[c][Len(heard[c]) + 1]
            /\ Stream(d \o y, Fresh, Announces(cl[c]), told[c], Len(heard[c]) + 1)
         \/ /\ r.stage # "done"
            /\ Stream(d \o y, r, Announces(cl[c]), told[c], Len(heard[c]))
  <2>1. AskedFile(c) = Announces(cl[c])
    BY DEF AskedFile, Announces
  <2> QED
    BY <1>1, <1>4, <1>6, <2>1, ListeningGets
<1> HIDE DEF r, d
<1>8. down' = [down EXCEPT ![c] = d]
  BY <1>3 DEF d
<1>9. Held(c)' = Held(c) /\ Out(c)' = Out(c) /\ ReaderOf(c)' = ReaderOf(c)
  BY <1>2 DEF Held, Queued, Serves, Out, Writes, ReaderOf
<1>10. down'[c] = d
  BY <1>1, <1>8
<1>11. ASSUME r.stage # "done" PROVE IInv'
  <2>1. cl' = [cl EXCEPT ![c].in = r] /\ heard' = [heard EXCEPT ![c] = heard[c]]
    BY <1>1, <1>3, <1>11 DEF r
  <2> DEFINE k == [pc |-> cl[c].pc, msg |-> cl[c].msg, out |-> cl[c].out, in |-> r]
  <2>2. cl' = [cl EXCEPT ![c] = k]
    <3>1. [cl[c] EXCEPT !.in = r] = k
      BY <1>1 DEF ClientState
    <3> QED
      BY <1>1, <2>1, <3>1
  <2>3. Stream(d \o y, r, Announces(cl[c]), told[c], Len(heard[c])) /\ Begun(r)
    BY <1>7, <1>11, StreamBegun
  <2>4. k \in ClientState /\ Announces(k) = Announces(cl[c])
    BY <1>1, <2>3 DEF ClientState, Begun, Announces
  <2>5. Listening(k, d, y, told[c], heard[c])
    BY <1>6, <2>3, <2>4 DEF Listening
  <2>6. cl'[c] = k /\ heard'[c] = heard[c] /\ k.pc = "read"
    BY <1>1, <2>1, <2>2
  <2>7. Alive(c)' /\ Answered(c)' = Answered(c)
    BY <1>2, <2>6 DEF Alive, Answered
  <2>8. Conversation(c)'
    BY <1>2, <1>6, <1>9, <1>10, <2>5, <2>6, <2>7 DEF Conversation, Talks, HasLeft, IsLeft
  <2>9. Held(c) => Alive(c) /\ k.msg = cl[c].msg
    BY <1>1 DEF Alive
  <2> HIDE DEF k
  <2> QED
    BY <1>1, <1>2, <1>5, <1>8, <2>1, <2>2, <2>3, <2>4, <2>8, <2>9, ReadStep DEF k
<1>12. ASSUME r.stage = "done" PROVE IInv'
  <2> DEFINE h == Append(heard[c], r.msg)
             f == told[c][Len(heard[c]) + 1]
  <2>1. /\ heard' = [heard EXCEPT ![c] = h]
        /\ cl' = [cl EXCEPT ![c] = IF LastFrame(cl[c].msg, r.msg) THEN NewClient
                                   ELSE [@ EXCEPT !.in = Fresh]]
    BY <1>3, <1>12 DEF r, Hear
  <2>2. /\ r.msg = f
        /\ Stream(d \o y, Fresh, Announces(cl[c]), told[c], Len(heard[c]) + 1)
    BY <1>7, <1>12
  <2>3. f \in Frame /\ f \in Msg
    <3>1. Len(heard[c]) + 1 \in 1 .. Len(told[c])
      BY <1>7
    <3> QED
      BY <1>1, <3>1, ElementOfSeq, Messages
  <2>4. /\ h \in Seq(Msg) /\ Len(h) = Len(heard[c]) + 1 /\ h[Len(heard[c]) + 1] = f
        /\ \A i \in 1 .. Len(heard[c]) : h[i] = heard[c][i]
    BY <1>1, <2>2, <2>3, AppendProperties
  <2> HIDE DEF h
  <2>5. Fresh \in Reader /\ Begun(Fresh)
    BY <2>2, StreamBegun DEF Begun
  <2>6. heard'[c] = h
    BY <1>1, <2>1
  <2>7. CASE ~ LastFrame(cl[c].msg, f)
    <3> DEFINE k == [pc |-> cl[c].pc, msg |-> cl[c].msg, out |-> cl[c].out, in |-> Fresh]
    <3>1. cl' = [cl EXCEPT ![c] = k]
      <4>1. [cl[c] EXCEPT !.in = Fresh] = k
        BY <1>1 DEF ClientState
      <4> QED
        BY <1>1, <2>1, <2>2, <2>7, <4>1
    <3>2. k \in ClientState /\ Announces(k) = Announces(cl[c])
      BY <1>1, <2>5 DEF ClientState, Announces
    <3>3. Listening(k, d, y, told[c], h)
      <4>1. Len(h) <= Len(told[c]) /\ \A i \in 1 .. Len(h) : h[i] = told[c][i]
        BY <1>6, <1>7, <2>2, <2>4 DEF Listening
      <4>2. Stream(d \o y, Fresh, Announces(k), told[c], Len(h))
        BY <2>2, <2>4, <3>2
      <4> QED
        BY <1>6, <3>2, <4>1, <4>2 DEF Listening
    <3>4. cl'[c] = k /\ k.pc = "read"
      BY <1>1, <3>1
    <3>5. Alive(c)' /\ Answered(c)' = Answered(c)
      BY <1>2, <3>4 DEF Alive, Answered
    <3>6. Conversation(c)'
      BY <1>2, <1>6, <1>9, <1>10, <2>6, <3>3, <3>4, <3>5
         DEF Conversation, Talks, HasLeft, IsLeft
    <3>7. (Held(c) => Alive(c) /\ k.msg = cl[c].msg) /\ k.in = Fresh
      BY <1>1 DEF Alive
    <3> HIDE DEF k
    <3> QED
      BY <1>2, <1>5, <1>8, <2>1, <2>4, <2>5, <3>1, <3>2, <3>6, <3>7, ReadStep
  <2>8. CASE LastFrame(cl[c].msg, f)
    <3>1. Len(heard[c]) + 1 = Len(told[c])
      BY <1>6, <1>7, <2>8 DEF Listening
    <3>2. d \o y = <<>>
      BY <2>2, <3>1 DEF Stream
    <3>3. d = <<>> /\ y = <<>>
      BY <1>5, <3>2, ConcatEqualIffEmpty DEF Units
    <3>4. ~ended => ~ Held(c)
      <4>1. Answered(c)
        <5>1. told[c] # <<>> /\ Last(told[c]) = f
          BY <1>1, <1>7, <3>1, EmptySeq DEF Last
        <5> QED
          BY <2>8, <5>1 DEF Answered
      <4> QED
        BY <1>1, <1>6, <3>3, <4>1, HeardAll DEF Alive
    <3>5. ended => ~ Held(c)
      BY EmptyUnits DEF IInv, Over, Free, Held, Queued, Serves
    <3>6. NewClient \in ClientState /\ NewClient.in = Fresh
      BY <2>5, EmptyUnits DEF NewClient, ClientState, Nothing, Msg
    <3>7. cl' = [cl EXCEPT ![c] = NewClient] /\ cl'[c] = NewClient
      BY <1>1, <2>1, <2>2, <2>8
    <3>8. Alive(c)'
      BY <3>7 DEF Alive, NewClient
    <3>9. Conversation(c)'
      BY <1>2, <1>6, <1>9, <1>10, <3>3, <3>4, <3>6, <3>7, <3>8
         DEF Conversation, Talks, HasLeft, IsLeft, AtRest
    <3> QED
      BY <1>2, <1>5, <1>8, <2>1, <2>4, <2>5, <3>4, <3>5, <3>6, <3>7, <3>9, ReadStep
  <2> QED
    BY <2>7, <2>8
<1>13. HearsNext(c)
  <2>1. CASE r.stage # "done"
    BY <1>1, <1>3, <2>1 DEF HearsNext, ClientState, r
  <2>2. CASE r.stage = "done"
    BY <1>3, <1>7, <2>2 DEF HearsNext, r
  <2> QED
    BY <2>1, <2>2
<1> QED
  BY <1>11, <1>12, <1>13

\* At the end of the answers of a server that has died.
LEMMA GetEndKeeps ==
  ASSUME IInv, NEW c \in Client, GetEnd(c)
  PROVE  IInv'
<1> DEFINE f == ReadsEnd(cl[c].in)
<1>1. /\ UNCHANGED SRV /\ ended' = ended /\ up' = up /\ told' = told /\ down' = down
      /\ ended /\ down[c] = <<>>
  BY DEF GetEnd, SRV
<1>2. /\ cl[c] \in ClientState /\ Begun(cl[c].in) /\ heard[c] \in Seq(Msg)
      /\ cl \in [Client -> ClientState] /\ heard \in [Client -> Seq(Msg)]
      /\ down \in [Client -> Units] /\ down[c] \in Units /\ Len(down[c]) <= Capacity
  BY DEF IInv, Typed
<1>3. f \in Msg
  BY <1>2, ReadsEndMsg
<1>4. ~ Held(c)
  BY <1>1, EmptyUnits DEF IInv, Over, Free, Held, Queued, Serves
<1>5. Fresh \in Reader /\ Begun(Fresh)
  BY EmptyUnits, TransportAssumption DEF Nothing, Msg, Fresh, Reader, Begun
<1>6. ASSUME NEW k \in ClientState, Begun(k.in), cl' = [cl EXCEPT ![c] = k],
             NEW h \in Seq(Msg), heard' = [heard EXCEPT ![c] = h],
             k.pc = "gone" \/ k.in = Fresh
      PROVE  IInv'
  <2>1. cl'[c] = k /\ down' = [down EXCEPT ![c] = down[c]]
    BY <1>1, <1>2, <1>6
  <2>2. Conversation(c)'
    BY <1>1, <1>6, <2>1 DEF Conversation, Talks, HasLeft, IsLeft, Alive
  <2> QED
    BY <1>1, <1>2, <1>4, <1>6, <2>1, <2>2, ReadStep
<1> HIDE DEF f
<1>7. CASE cl' = [cl EXCEPT ![c].pc = "gone"] /\ heard' = heard
  <2> DEFINE k == [cl[c] EXCEPT !.pc = "gone"]
  <2>1. k \in ClientState /\ k.in = cl[c].in /\ k.pc = "gone"
    BY <1>2 DEF ClientState
  <2>2. cl' = [cl EXCEPT ![c] = k] /\ heard' = [heard EXCEPT ![c] = heard[c]]
    BY <1>2, <1>7
  <2> HIDE DEF k
  <2> QED
    BY <1>2, <1>6, <2>1, <2>2
<1>8. CASE Hear(c, f)
  <2>1. /\ heard' = [heard EXCEPT ![c] = Append(heard[c], f)]
        /\ Append(heard[c], f) \in Seq(Msg)
    BY <1>2, <1>3, <1>8, AppendProperties DEF Hear
  <2>2. NewClient \in ClientState /\ NewClient.in = Fresh
    BY <1>5, EmptyUnits DEF NewClient, ClientState, Nothing, Msg
  <2>3. [cl[c] EXCEPT !.in = Fresh] \in ClientState /\ [cl[c] EXCEPT !.in = Fresh].in = Fresh
    BY <1>2, <1>5 DEF ClientState
  <2>4. PICK k \in ClientState : k.in = Fresh /\ cl' = [cl EXCEPT ![c] = k]
    <3>1. \/ cl' = [cl EXCEPT ![c] = NewClient]
          \/ cl' = [cl EXCEPT ![c] = [cl[c] EXCEPT !.in = Fresh]]
      BY <1>2, <1>8 DEF Hear
    <3> QED
      BY <2>2, <2>3, <3>1, Zenon
  <2> QED
    BY <1>5, <1>6, <2>1, <2>4
<1> QED
  BY <1>7, <1>8 DEF GetEnd, f

\* Of what a client has written, a part of its request is not read when it dies.
LEMMA DieKeeps ==
  ASSUME IInv, NEW c \in Client, Die(c)
  PROVE  IInv'
<1> DEFINE k == [NewClient EXCEPT !.pc = "gone"]
<1>1. /\ UNCHANGED SRV /\ ended' = ended /\ up' = up /\ told' = told /\ down' = down
      /\ heard' = heard /\ cl' = [cl EXCEPT ![c] = k] /\ Alive(c)
      /\ mgr' = mgr /\ requests' = requests /\ wk' = wk
  BY DEF Die, SRV
<1>2. Fresh \in Reader /\ Begun(Fresh)
  BY EmptyUnits, TransportAssumption DEF Nothing, Msg, Fresh, Reader, Begun
<1>3. k \in ClientState /\ k.in = Fresh /\ k.pc = "gone"
  BY <1>2, EmptyUnits DEF NewClient, ClientState, Nothing, Msg
<1> HIDE DEF k
<1>4. /\ cl \in [Client -> ClientState] /\ \A d \in Client : Begun(cl[d].in)
      /\ up[c] \in Units /\ cl[c].out \in Units
  BY DEF IInv, Typed, ClientState
<1>5. /\ cl'[c] = k /\ cl' \in [Client -> ClientState]
      /\ \A d \in Client \ {c} : cl'[d] = cl[d]
      /\ \A d \in Client : Begun(cl'[d].in)
  BY <1>1, <1>2, <1>3, <1>4
<1>6. Typed'
  BY <1>1, <1>5 DEF IInv, Typed, SRV
<1>7. Held(c)' = Held(c) /\ ReaderOf(c)' = ReaderOf(c)
  BY <1>1 DEF Held, Queued, Serves, ReaderOf
<1>8. ~ended => IF Held(c) THEN up[c] = <<>>
                ELSE \E m \in Msg, x \in Units :
                       Framed(m, APPEND) /\ Reading(ReaderOf(c), m, APPEND, up[c] \o x)
  <2> SUFFICES ASSUME ~ended
               PROVE  IF Held(c) THEN up[c] = <<>>
                      ELSE \E m \in Msg, x \in Units :
                             Framed(m, APPEND) /\ Reading(ReaderOf(c), m, APPEND, up[c] \o x)
    OBVIOUS
  <2>1. CASE Sending(cl[c], up[c], down[c], told[c], heard[c], ReaderOf(c)) /\ ~ Held(c)
    BY <1>4, <2>1, Messages DEF Sending
  <2>2. CASE up[c] = <<>> /\ mgr.fd # c
    <3> DEFINE m == Plain(OK)
    <3>1. Framed(m, APPEND) /\ m \in Msg
      BY Messages DEF OK, APPEND, Framed
    <3>2. Wire(m) \in Units /\ Reading(Fresh, m, APPEND, Wire(m))
      BY <3>1, Messages, FreshReading
    <3>3. <<>> \o Wire(m) = Wire(m)
      BY <3>2, JoinsEmpty DEF Joins
    <3>4. ReaderOf(c) = Fresh
      BY <2>2 DEF ReaderOf
    <3>5. Reading(ReaderOf(c), m, APPEND, up[c] \o Wire(m))
      BY <2>2, <3>2, <3>3, <3>4, Zenon
    <3> HIDE DEF m
    <3> QED
      BY <2>2, <3>1, <3>2, <3>5
  <2> QED
    BY <1>1, <2>1, <2>2 DEF IInv, Conversation, Talks, AtRest
<1>9. Conversation(c)'
  BY <1>1, <1>3, <1>5, <1>7, <1>8 DEF Conversation, Talks, HasLeft, IsLeft, Alive
<1>10. ~ Alive(c)'
  BY <1>3, <1>5 DEF Alive
<1> QED
  BY <1>1, <1>5, <1>6, <1>9, <1>10, ClientStep

(***************************************************************************)
(* The manager keeps the invariant.                                        *)
(***************************************************************************)
\* The descriptors of the requests are clients.
LEMMA QueueTyped ==
  ASSUME IInv
  PROVE  /\ requests \in Seq([fd : Client, msg : Msg]) /\ Len(requests) \in Nat
         /\ \A i \in 1 .. Len(requests) : requests[i].fd \in Client /\ requests[i].msg \in Msg
<1>1. requests \in Seq([fd : Client, msg : Msg])
  BY DEF IInv, Typed
<1>2. \A i \in 1 .. Len(requests) : requests[i] \in [fd : Client, msg : Msg]
  BY <1>1, ElementOfSeq
<1> QED
  BY <1>1, <1>2, LenProperties

\* Fresh is where a reader begins.
LEMMA FreshBegun == Fresh \in Reader /\ Begun(Fresh) /\ Nothing \in Msg
BY EmptyUnits, TransportAssumption DEF Nothing, Msg, Fresh, Reader, Begun

\* The request of the client the manager reads from is nowhere else.
LEMMA MgrHolds ==
  ASSUME IInv, NEW c \in Client, mgr.fd = c
  PROVE  /\ ~ Held(c) /\ Out(c) = <<>> /\ c \notin listened \cup back
         /\ ~ Queued(c) /\ \A w \in Worker : wk[w].pc \notin {"idle", "none"} => wk[w].fd # c
<1>1. ~ Queued(c) /\ c \notin listened \cup back
  BY DEF IInv, Places, Queued
<1>2. \A w \in Worker : wk[w].pc \notin {"idle", "none"} => wk[w].fd # c
  BY DEF IInv, Places
<1>3. ~ Held(c) /\ Out(c) = <<>>
  BY <1>1, <1>2 DEF Held, Serves, Out, Writes
<1> QED
  BY <1>1, <1>2, <1>3

\* select gives the manager a descriptor that was in its set.
LEMMA SelectKeepsInv ==
  ASSUME IInv, NEW c \in Client, Select(c)
  PROVE  IInv'
<1>1. /\ cl' = cl /\ up' = up /\ down' = down /\ told' = told /\ heard' = heard
      /\ requests' = requests /\ wk' = wk /\ lock' = lock /\ back' = back /\ ended' = ended
      /\ mgr' = [fd |-> c, in |-> Fresh] /\ listened' = listened \ {c}
      /\ ~ended /\ mgr.fd = NULL /\ c \in listened /\ c # NULL
  BY TransportAssumption DEF Select, CLI
<1>2. Typed'
  BY <1>1, FreshBegun DEF IInv, Typed
<1>3. Places'
  <2>1. /\ c \notin listened' \cup back' /\ ~ Queued(c)
        /\ \A w \in Worker : wk[w].pc \notin {"idle", "none"} => wk[w].fd # c
    BY <1>1 DEF IInv, Places, Queued
  <2>2. \A d \in Client : Queued(d)' = Queued(d)
    BY <1>1 DEF Queued
  <2>3. \A i \in 1 .. Len(requests) : requests[i].fd # c
    BY <2>1 DEF Queued
  <2> QED
    BY <1>1, <2>1, <2>2, <2>3 DEF IInv, Places
<1>4. Hands'
  BY <1>1 DEF IInv, Hands, Serves, Alive, Answered
<1>5. Over'
  BY <1>1 DEF IInv, Over
<1>6. ASSUME NEW d \in Client PROVE Conversation(d)'
  <2>1. Held(d)' = Held(d) /\ Out(d)' = Out(d)
    BY <1>1 DEF Held, Queued, Serves, Out, Writes
  <2>2. ReaderOf(d)' = ReaderOf(d)
    BY <1>1, TransportAssumption DEF ReaderOf
  <2>3. CASE d # c
    <3>1. SameView(d)
      BY <1>1, <2>1, <2>2, <2>3, TransportAssumption DEF SameView
    <3> QED
      BY <3>1, ViewKept DEF IInv
  <2>4. CASE d = c
    <3>1. Alive(c) => up[c] # <<>>
      BY DEF Select
    <3>2. Alive(c)' = Alive(c)
      BY <1>1 DEF Alive
    <3>3. Conversation(c)
      BY DEF IInv
    <3>4. Alive(c) => /\ Sending(cl[c], up[c], down[c], told[c], heard[c], ReaderOf(c))
                      /\ ~ Held(c)
      BY <1>1, <3>1, <3>3 DEF Conversation, Talks, AtRest
    <3> QED
      BY <1>1, <2>1, <2>2, <2>4, <3>2, <3>3, <3>4
         DEF Conversation, Talks, HasLeft, IsLeft
  <2> QED
    BY <2>3, <2>4
<1> QED
  BY <1>2, <1>3, <1>4, <1>5, <1>6 DEF IInv

\* A descriptor that comes back through the pipe returns to the set.
LEMMA RelistenKeeps ==
  ASSUME IInv, NEW c \in Client, Relisten(c)
  PROVE  IInv'
<1>1. /\ cl' = cl /\ up' = up /\ down' = down /\ told' = told /\ heard' = heard
      /\ requests' = requests /\ wk' = wk /\ lock' = lock /\ mgr' = mgr /\ ended' = ended
      /\ listened' = listened \cup {c} /\ back' = back \ {c} /\ c \in back
  BY DEF Relisten, CLI
<1>2. Typed'
  BY <1>1 DEF IInv, Typed
<1>3. Places'
  <2>1. \A d \in Client : Queued(d)' = Queued(d)
    BY <1>1 DEF Queued
  <2>2. listened' \cup back' = listened \cup back /\ listened' \cap back' = {}
    BY <1>1 DEF IInv, Places
  <2> QED
    BY <1>1, <2>1, <2>2 DEF IInv, Places
<1>4. Hands' /\ Over'
  BY <1>1 DEF IInv, Hands, Serves, Alive, Answered, Over
<1>5. ASSUME NEW d \in Client PROVE Conversation(d)'
  <2>1. SameView(d)
    BY <1>1 DEF SameView, Held, Queued, Serves, Out, Writes, ReaderOf
  <2> QED
    BY <2>1, ViewKept DEF IInv
<1> QED
  BY <1>2, <1>3, <1>4, <1>5 DEF IInv

\* A request is read to its end, by all it has or by the end of its client.
LEMMA PushKeeps ==
  ASSUME IInv, ~ended, NEW c \in Client, mgr.fd = c, NEW m \in Msg, Push(c, m),
         cl' = cl, down' = down, told' = told, heard' = heard, ended' = ended,
         listened' = listened, back' = back, wk' = wk, lock' = lock,
         up' = [up EXCEPT ![c] = <<>>],
         Alive(c) => /\ m = cl[c].msg /\ cl[c].out = <<>>
                     /\ Sending(cl[c], up[c], down[c], told[c], heard[c], ReaderOf(c))
  PROVE  IInv'
<1> DEFINE e == [fd |-> c, msg |-> m]
           n == Len(requests)
<1>1. requests' = Append(requests, e) /\ mgr' = Unread /\ mgr'.fd = NULL /\ c # NULL
  BY TransportAssumption DEF Push, Unread
<1>2. /\ requests' \in Seq([fd : Client, msg : Msg]) /\ n \in Nat /\ Len(requests') = n + 1
      /\ requests'[n + 1] = e /\ \A i \in 1 .. n : requests'[i] = requests[i]
  BY <1>1, QueueTyped, AppendProperties
<1>3. /\ ~ Held(c) /\ Out(c) = <<>> /\ c \notin listened \cup back /\ ~ Queued(c)
      /\ \A w \in Worker : wk[w].pc \notin {"idle", "none"} => wk[w].fd # c
  BY MgrHolds
<1>4. \A d \in Client : Queued(d)' <=> Queued(d) \/ d = c
  <2>1. \A i \in 1 .. n + 1 : i \in 1 .. n \/ i = n + 1
    BY <1>2
  <2>2. \A i \in 1 .. n : i \in 1 .. n + 1
    BY <1>2
  <2>3. n + 1 \in 1 .. n + 1
    BY <1>2
  <2> HIDE DEF n
  <2> QED
    BY <1>2, <2>1, <2>2, <2>3 DEF Queued, n
<1>5. Typed'
  <2>1. up' \in [Client -> Units] /\ \A d \in Client : Len(up'[d]) <= Capacity
    BY EmptyUnits, TransportAssumption DEF IInv, Typed
  <2>2. mgr' \in [fd : Client \cup {NULL}, in : Reader] /\ Begun(mgr'.in)
    BY <1>1, FreshBegun DEF Unread
  <2> QED
    BY <1>2, <2>1, <2>2 DEF IInv, Typed
<1> HIDE DEF n
<1>6. Places'
  <2>1. \A i \in 1 .. n : requests[i].fd # c /\ requests[i].fd \notin listened \cup back
                          /\ requests[i].fd \in Client
    BY <1>3, QueueTyped DEF IInv, Places, Queued, n
  <2>2. \A i \in 1 .. n + 1 : requests'[i].fd \notin listened \cup back \cup {NULL}
    <3> SUFFICES ASSUME NEW i \in 1 .. n + 1
                 PROVE  requests'[i].fd \notin listened \cup back \cup {NULL}
      OBVIOUS
    <3>1. CASE i = n + 1
      BY <1>1, <1>2, <1>3, <3>1
    <3>2. CASE i \in 1 .. n
      BY <1>2, <2>1, <3>2, TransportAssumption
    <3> QED
      BY <1>2, <3>1, <3>2
  <2>3. \A i, j \in 1 .. n + 1 : requests'[i].fd = requests'[j].fd => i = j
    <3> SUFFICES ASSUME NEW i \in 1 .. n + 1, NEW j \in 1 .. n + 1,
                        requests'[i].fd = requests'[j].fd
                 PROVE  i = j
      OBVIOUS
    <3>1. (i = n + 1 \/ i \in 1 .. n) /\ (j = n + 1 \/ j \in 1 .. n)
      BY <1>2
    <3>2. \A x, y \in 1 .. n : requests[x].fd = requests[y].fd => x = y
      BY DEF IInv, Places, n
    <3> QED
      BY <1>2, <2>1, <3>1, <3>2
  <2>4. ASSUME NEW w \in Worker, wk[w].pc \notin {"idle", "none"}
        PROVE  /\ wk[w].fd \in Client \ (listened \cup back \cup {NULL})
               /\ ~ Queued(wk[w].fd)'
               /\ \A x \in Worker : wk[x].pc \notin {"idle", "none"} /\ wk[x].fd = wk[w].fd => x = w
    <3>1. PICK d \in Client : wk[w].fd = d /\ wk'[w].fd = d /\ d # NULL
      BY <2>4, TransportAssumption DEF IInv, Places
    <3>2. d # c /\ ~ Queued(d)
      BY <1>3, <2>4, <3>1 DEF IInv, Places
    <3>3. ~ Queued(d)'
      BY <1>4, <3>2
    <3>4. (Queued(wk[w].fd))' = Queued(d)'
      BY <3>1 DEF Queued
    <3> QED
      BY <2>4, <3>1, <3>3, <3>4 DEF IInv, Places
  <2>5. listened \cap back = {} /\ NULL \notin listened \cup back
    BY TransportAssumption DEF IInv, Typed, Places
  <2> QED
    BY <1>1, <1>2, <2>2, <2>3, <2>4, <2>5 DEF Places, n
<1>7. Hands'
  <2>1. ASSUME NEW i \in 1 .. n + 1, Alive(requests'[i].fd)
        PROVE  requests'[i].msg = cl[requests'[i].fd].msg /\ told[requests'[i].fd] = <<>>
    <3>1. CASE i = n + 1
      BY <1>2, <2>1, <3>1 DEF Sending
    <3>2. CASE i \in 1 .. n
      BY <1>2, <2>1, <3>2 DEF IInv, Hands, n
    <3> QED
      BY <1>2, <3>1, <3>2
  <2>2. \A i \in 1 .. n + 1 : Alive(requests[i].fd)' = Alive(requests'[i].fd)
    BY DEF Alive
  <2> QED
    BY <1>1, <1>2, <2>1, <2>2 DEF IInv, Hands, Serves, Alive, Answered
<1>8. Over'
  BY DEF Over
<1>9. ASSUME NEW d \in Client PROVE Conversation(d)'
  <2>1. Held(d)' <=> Held(d) \/ d = c
    BY <1>4 DEF Held, Serves
  <2>2. Out(d)' = Out(d)
    BY DEF Out, Writes
  <2>3. CASE d # c
    <3>1. d # NULL /\ mgr'.fd # d /\ mgr.fd # d /\ up'[d] = up[d]
      BY <1>1, <2>3, TransportAssumption DEF IInv, Typed
    <3>2. ReaderOf(d)' = ReaderOf(d) /\ Held(d)' = Held(d)
      BY <2>1, <2>3, <3>1 DEF ReaderOf, Held
    <3>3. SameView(d)
      BY <2>2, <3>1, <3>2 DEF SameView
    <3> QED
      BY <3>3, ViewKept DEF IInv
  <2>4. CASE d = c
    <3>1. Alive(c)' = Alive(c) /\ up'[c] = <<>>
      BY DEF Alive, IInv, Typed
    <3>2. Alive(c) => Listening(cl[c], down[c], <<>>, told[c], heard[c])
      <4> SUFFICES ASSUME Alive(c) PROVE Listening(cl[c], down[c], <<>>, told[c], heard[c])
        OBVIOUS
      <4>1. <<>> \o <<>> = <<>>
        BY EmptyUnits, JoinsEmpty DEF Joins
      <4>2. Stream(<<>>, Fresh, Announces(cl[c]), <<>>, 0)
        BY EmptyUnits DEF Stream
      <4>3. /\ cl[c].pc = "read" /\ cl[c].msg \in Message /\ cl[c].out = <<>>
            /\ cl[c].in = Fresh /\ down[c] = <<>> /\ told[c] = <<>> /\ heard[c] = <<>>
        BY DEF Sending
      <4>4. Stream(down[c] \o <<>>, cl[c].in, Announces(cl[c]), told[c], Len(heard[c]))
        BY <4>1, <4>2, <4>3, EmptyUnits, Zenon
      <4> QED
        BY <4>3, <4>4, EmptyUnits DEF Listening
    <3> QED
      BY <1>1, <1>3, <2>1, <2>2, <2>4, <3>1, <3>2 DEF Conversation, Talks, HasLeft, IsLeft
  <2> QED
    BY <2>3, <2>4
<1> QED
  BY <1>5, <1>6, <1>7, <1>8, <1>9 DEF IInv

\* One read of the manager takes a part of the request, or the end of it.
LEMMA FillKeeps ==
  ASSUME IInv, Fill
  PROVE  IInv'
<1>0. PICK c \in Client : c = mgr.fd
  BY DEF IInv, Typed, Fill
<1>1. /\ c # NULL /\ ~ended /\ up[c] \in Units /\ Len(up[c]) <= Capacity
      /\ up \in [Client -> Units] /\ mgr.in \in Reader /\ Begun(mgr.in)
      /\ cl[c].out \in Units /\ mgr = [fd |-> c, in |-> mgr.in]
      /\ \A d \in Client : Len(up[d]) <= Capacity
  BY <1>0 DEF IInv, Typed, Fill, ClientState
<1>2. /\ cl' = cl /\ down' = down /\ told' = told /\ heard' = heard /\ ended' = ended
      /\ listened' = listened /\ back' = back /\ wk' = wk /\ lock' = lock
  BY DEF Fill, CLI
<1> DEFINE q(n) == Reads(mgr.in, Take(up[c], n), APPEND)
<1>3. PICK n \in Parts(Min({Len(up[c]), mgr.in.size - Len(mgr.in.got)})) :
        /\ up' = [up EXCEPT ![c] = Drop(@, n)]
        /\ IF q(n).stage = "done" THEN Push(c, q(n).msg)
           ELSE mgr' = [mgr EXCEPT !.in = q(n)] /\ requests' = requests
  BY <1>0 DEF Fill
<1> DEFINE r == q(n)
           u == Drop(up[c], n)
<1>4. n \in 1 .. Len(up[c]) /\ n <= mgr.in.size - Len(mgr.in.got)
  <2>1. /\ Len(up[c]) \in Nat /\ mgr.in.size \in Nat /\ Len(mgr.in.got) \in Nat
        /\ Len(mgr.in.got) < mgr.in.size
    BY <1>1, EmptyUnits DEF Begun, Reader
  <2>2. mgr.in.size - Len(mgr.in.got) \in Nat
    BY <2>1
  <2> QED
    BY <1>3, <2>1, <2>2, PartsOfMin
<1>5. /\ Take(up[c], n) \in Units /\ Take(up[c], n) # <<>> /\ Len(Take(up[c], n)) = n
      /\ u \in Units /\ Len(u) <= Capacity /\ Joins(Take(up[c], n), u, up[c])
  <2>1. Len(up[c]) \in Nat /\ n \in 0 .. Len(up[c]) /\ n # 0
    BY <1>1, <1>4, EmptyUnits
  <2>2. /\ Take(up[c], n) \in Units /\ Len(Take(up[c], n)) = n
        /\ u \in Units /\ Len(u) = Len(up[c]) - n /\ Joins(Take(up[c], n), u, up[c])
    BY <1>1, <2>1, TakeDrop
  <2> QED
    BY <1>1, <2>1, <2>2, EmptyUnits, TransportAssumption
<1>6. ~ Held(c) /\ Out(c) = <<>> /\ mgr.fd = c /\ ReaderOf(c) = mgr.in
  BY <1>0, <1>1, MgrHolds DEF ReaderOf
<1>7. PICK m \in Msg, x \in Units :
        /\ Framed(m, APPEND) /\ Reading(mgr.in, m, APPEND, up[c] \o x)
        /\ Alive(c) => /\ m = cl[c].msg /\ x = cl[c].out
                       /\ Sending(cl[c], up[c], down[c], told[c], heard[c], ReaderOf(c))
  <2>1. CASE Alive(c)
    <3>1. Sending(cl[c], up[c], down[c], told[c], heard[c], ReaderOf(c))
      BY <1>1, <1>6, <2>1 DEF IInv, Conversation, Talks
    <3>2. cl[c].msg \in Msg /\ Framed(cl[c].msg, APPEND)
      BY <3>1, Messages DEF Sending
    <3>3. Reading(mgr.in, cl[c].msg, APPEND, up[c] \o cl[c].out)
      BY <1>6, <3>1 DEF Sending
    <3> QED
      BY <1>1, <3>1, <3>2, <3>3
  <2>2. CASE ~ Alive(c)
    BY <1>1, <1>6, <2>2 DEF IInv, Conversation, HasLeft
  <2> QED
    BY <2>1, <2>2
<1>8. PICK all \in Units : Joins(up[c], x, all)
  BY <1>1, JoinsExists
<1>9. PICK z \in Units : Joins(u, x, z)
  BY <1>5, JoinsExists
<1>10. Joins(Take(up[c], n), z, all) /\ Reading(mgr.in, m, APPEND, all)
  <2>1. Joins(Take(up[c], n), z, all)
    BY <1>1, <1>5, <1>8, <1>9, JoinsTwice
  <2>2. Reading(mgr.in, m, APPEND, all)
    BY <1>7, <1>8, Zenon DEF Joins
  <2> QED
    BY <2>1, <2>2
<1>11. \/ r.stage = "done" /\ r.msg = m /\ z = <<>>
       \/ r.stage # "done" /\ Reading(r, m, APPEND, z)
  BY <1>4, <1>5, <1>7, <1>10, ReadsOn
<1>12. u \o x = z
  BY <1>9 DEF Joins
<1> HIDE DEF r, u
<1>13. up' = [up EXCEPT ![c] = u] /\ up'[c] = u
  BY <1>1, <1>3 DEF u
<1>14. CASE r.stage = "done"
  <2>1. r.msg = m /\ z = <<>>
    BY <1>11, <1>14
  <2>2. u = <<>> /\ x = <<>>
    BY <1>5, <1>12, <2>1, ConcatEqualIffEmpty DEF Units
  <2>3. Push(c, m)
    BY <1>3, <1>14, <2>1 DEF r
  <2>4. up' = [up EXCEPT ![c] = <<>>]
    BY <1>13, <2>2
  <2> QED
    BY <1>1, <1>2, <1>6, <1>7, <2>2, <2>3, <2>4, PushKeeps
<1>15. CASE r.stage # "done"
  <2>1. Reading(r, m, APPEND, z) /\ Begun(r)
    BY <1>11, <1>15 DEF Reading, Begun
  <2>2. mgr' = [fd |-> c, in |-> r] /\ requests' = requests
    <3>1. mgr' = [mgr EXCEPT !.in = r] /\ requests' = requests
      BY <1>3, <1>15 DEF r
    <3>2. [mgr EXCEPT !.in = r] = [fd |-> c, in |-> r]
      BY <1>1
    <3> QED
      BY <3>1, <3>2
  <2>3. Typed'
    <3>1. up' \in [Client -> Units] /\ \A d \in Client : Len(up'[d]) <= Capacity
      BY <1>1, <1>5, <1>13
    <3>2. mgr' \in [fd : Client \cup {NULL}, in : Reader] /\ Begun(mgr'.in)
      BY <1>1, <2>1, <2>2 DEF Begun
    <3> QED
      BY <1>2, <2>2, <3>1, <3>2 DEF IInv, Typed
  <2>4. Places'
    <3>1. mgr'.fd = mgr.fd
      BY <1>6, <2>2
    <3> QED
      BY <1>2, <2>2, <3>1 DEF IInv, Places, Queued
  <2>5. Hands' /\ Over'
    BY <1>1, <1>2, <2>2 DEF IInv, Hands, Serves, Alive, Answered, Over
  <2>6. ASSUME NEW d \in Client PROVE Conversation(d)'
    <3>1. Held(d)' = Held(d) /\ Out(d)' = Out(d) /\ (mgr'.fd = mgr.fd)
      BY <1>2, <1>6, <2>2 DEF Held, Queued, Serves, Out, Writes
    <3>2. CASE d # c
      <4>1. ReaderOf(d)' = ReaderOf(d)
        BY <1>6, <2>2, <3>1, <3>2 DEF ReaderOf
      <4>2. up'[d] = up[d]
        BY <1>1, <1>13, <3>2
      <4>3. SameView(d)
        BY <1>2, <3>1, <4>1, <4>2 DEF SameView
      <4> QED
        BY <4>3, ViewKept DEF IInv
    <3>3. CASE d = c
      <4>1. ReaderOf(c)' = r
        BY <2>2 DEF ReaderOf
      <4>2. Reading(r, m, APPEND, u \o x)
        BY <1>12, <2>1
      <4>3. Alive(c) => Sending(cl[c], u, down[c], told[c], heard[c], r)
        BY <1>7, <4>2 DEF Sending
      <4>4. Alive(c)' = Alive(c)
        BY <1>2 DEF Alive
      <4> QED
        BY <1>1, <1>2, <1>6, <1>7, <1>13, <3>1, <3>3, <4>1, <4>2, <4>3, <4>4
           DEF Conversation, Talks, HasLeft, IsLeft
    <3> QED
      BY <3>2, <3>3
  <2> QED
    BY <2>3, <2>4, <2>5, <2>6 DEF IInv
<1> QED
  BY <1>14, <1>15

\* When the server ends, clients have in their sockets what was written.
LEMMA EndsKeep ==
  ASSUME IInv, ~ended, Ends, UNCHANGED <<cl, up, down, told, heard>>
  PROVE  IInv'
<1>1. /\ cl' = cl /\ up' = up /\ down' = down /\ told' = told /\ heard' = heard
      /\ ended' = TRUE /\ mgr' = Unread /\ requests' = <<>> /\ lock' = NULL
      /\ wk' = [w \in Worker |-> Free] /\ listened' = {} /\ back' = {}
  BY DEF Ends
<1>2. Free \in WorkerState
  BY FreshBegun, EmptyUnits DEF Free, WorkerState
<1>3. Typed'
  <2>1. mgr' \in [fd : Client \cup {NULL}, in : Reader] /\ Begun(mgr'.in)
    BY <1>1, FreshBegun DEF Unread
  <2>2. wk' \in [Worker -> WorkerState] /\ requests' \in Seq([fd : Client, msg : Msg])
    BY <1>1, <1>2
  <2> QED
    BY <1>1, <2>1, <2>2 DEF IInv, Typed
<1>4. Places'
  BY <1>1, EmptyUnits DEF Places, Free
<1>5. Hands' /\ Over'
  BY <1>1, EmptyUnits DEF Hands, Over, Free, Serves
<1>6. ASSUME NEW d \in Client PROVE Conversation(d)'
  <2>1. Alive(d) => \/ cl[d].in = Fresh /\ down[d] = <<>>
                    \/ Listening(cl[d], down[d], Out(d), told[d], heard[d])
    BY DEF IInv, Conversation, Talks, AtRest, NewClient, Sending
  <2>2. Out(d) \in Units
    BY OutIs
  <2>3. Alive(d)' = Alive(d)
    BY <1>1 DEF Alive
  <2> QED
    BY <1>1, <2>1, <2>2, <2>3 DEF Conversation, Talks, HasLeft, IsLeft
<1> QED
  BY <1>3, <1>4, <1>5, <1>6 DEF IInv

\* The end of a client that has died in the middle of a request.
LEMMA FillEndKeeps ==
  ASSUME IInv, FillEnd
  PROVE  IInv'
<1>0. PICK c \in Client : c = mgr.fd
  BY DEF IInv, Typed, FillEnd
<1>1. /\ ~ended /\ ~ Alive(c) /\ up[c] = <<>> /\ Begun(mgr.in)
      /\ up \in [Client -> Units]
  BY <1>0 DEF IInv, Typed, FillEnd
<1>2. /\ cl' = cl /\ up' = up /\ down' = down /\ told' = told /\ heard' = heard
  BY DEF FillEnd, CLI
<1>3. PICK m \in Msg : m = ReadsEnd(mgr.in)
  BY <1>1, ReadsEndMsg
<1>4. CASE m.text = <<>>
  <2>1. Ends
    BY <1>3, <1>4 DEF FillEnd
  <2> QED
    BY <1>1, <1>2, <2>1, EndsKeep
<1>5. CASE m.text # <<>>
  <2>1. /\ Push(c, m) /\ listened' = listened /\ back' = back /\ wk' = wk /\ lock' = lock
        /\ ended' = ended
    BY <1>0, <1>3, <1>5 DEF FillEnd
  <2>2. up' = [up EXCEPT ![c] = <<>>]
    BY <1>1, <1>2
  <2> QED
    BY <1>0, <1>1, <1>2, <2>1, <2>2, PushKeeps
<1> QED
  BY <1>4, <1>5

(***************************************************************************)
(* The workers keep the invariant.                                         *)
(***************************************************************************)
\* The fields of a worker that has written.
LEMMA WrittenFields ==
  ASSUME NEW k \in WorkerState, NEW pc, NEW out
  PROVE  [k EXCEPT !.out = out, !.pc = pc]
           = [pc |-> pc, fd |-> k.fd, msg |-> k.msg, frame |-> k.frame, out |-> out]
<1>1. k = [pc |-> k.pc, fd |-> k.fd, msg |-> k.msg, frame |-> k.frame, out |-> k.out]
  BY DEF WorkerState
<1>2. [k EXCEPT !.out = out]
        = [pc |-> k.pc, fd |-> k.fd, msg |-> k.msg, frame |-> k.frame, out |-> out]
  BY <1>1
<1>3. [[pc |-> k.pc, fd |-> k.fd, msg |-> k.msg, frame |-> k.frame, out |-> out]
         EXCEPT !.pc = pc]
        = [pc |-> pc, fd |-> k.fd, msg |-> k.msg, frame |-> k.frame, out |-> out]
  OBVIOUS
<1> QED
  BY <1>2, <1>3, Zenon

\* A step of a worker that keeps the client it had, or gives it back.
LEMMA WorkerStep ==
  ASSUME IInv, NEW w \in Worker, NEW c \in Client, wk[w].fd = c, wk[w].pc \notin {"idle", "none"},
         cl' = cl, up' = up, heard' = heard, mgr' = mgr, requests' = requests,
         ended' = ended, NEW k \in WorkerState, wk' = [wk EXCEPT ![w] = k],
         k.fd = c \/ k = Free,
         \A d \in Client \ {c} : down'[d] = down[d] /\ told'[d] = told[d]
  PROVE  /\ \A d \in Client \ {c} : Conversation(d)' /\ (Held(d)' <=> Held(d))
         /\ ~ Queued(c) /\ \A d \in Client : Queued(d)' = Queued(d)
         /\ Held(c) <=> wk[w].pc \in {"serve", "last", "write"}
         /\ Held(c)' <=> wk'[w].pc \in {"serve", "last", "write"}
         /\ ReaderOf(c)' = ReaderOf(c) /\ mgr.fd # c
         /\ Out(c) = IF wk[w].pc = "write" THEN wk[w].out ELSE <<>>
         /\ Out(c)' = IF wk'[w].pc = "write" THEN wk'[w].out ELSE <<>>
<1>1. /\ wk \in [Worker -> WorkerState] /\ c # NULL /\ Free.pc = "idle" /\ Free.fd = NULL
  BY TransportAssumption DEF IInv, Typed, Free
<1>2. wk'[w] = k /\ \A x \in Worker \ {w} : wk'[x] = wk[x]
  BY <1>1
<1>3. /\ ~ Queued(c) /\ mgr.fd # c
      /\ \A x \in Worker : wk[x].pc \notin {"idle", "none"} /\ wk[x].fd = c => x = w
  BY DEF IInv, Places
<1>4. \A d \in Client : Queued(d)' = Queued(d)
  BY DEF Queued
<1>5. \A d \in Client \ {c}, x \in Worker : /\ Serves(x, d)' = Serves(x, d)
                                            /\ Writes(x, d)' = Writes(x, d)
  BY <1>1, <1>2 DEF Serves, Writes
<1>6. \A d \in Client : ReaderOf(d)' = ReaderOf(d)
  BY DEF ReaderOf
<1>7. \A x \in Worker : /\ Serves(x, c) <=> x = w /\ wk[w].pc \in {"serve", "last", "write"}
                        /\ Serves(x, c)' <=> x = w /\ k.pc \in {"serve", "last", "write"}
                        /\ Writes(x, c) <=> x = w /\ wk[w].pc = "write"
                        /\ Writes(x, c)' <=> x = w /\ k.pc = "write"
  BY <1>1, <1>2, <1>3 DEF Serves, Writes
<1>8. /\ Held(c) <=> wk[w].pc \in {"serve", "last", "write"}
      /\ Held(c)' <=> k.pc \in {"serve", "last", "write"}
  BY <1>3, <1>4, <1>7 DEF Held
<1>9. Out(c) = IF wk[w].pc = "write" THEN wk[w].out ELSE <<>>
  BY <1>7 DEF Out
<1>10. Out(c)' = IF k.pc = "write" THEN k.out ELSE <<>>
  BY <1>2, <1>7 DEF Out
<1>11. ASSUME NEW d \in Client \ {c} PROVE Conversation(d)' /\ (Held(d)' <=> Held(d))
  <2>1. Held(d)' = Held(d)
    BY <1>4, <1>5 DEF Held
  <2>2. Out(d)' = Out(d)
    <3>1. CASE \E x \in Worker : Writes(x, d)
      <4>1. PICK y \in Worker : Writes(y, d)
        BY <3>1
      <4>2. y # w /\ \A x \in Worker : Writes(x, d) <=> x = y
        BY <4>1 DEF IInv, Places, Writes
      <4>3. \A x \in Worker : Writes(x, d)' <=> x = y
        BY <1>5, <4>2
      <4>4. Out(d) = wk[y].out
        BY <4>2 DEF Out
      <4>5. Out(d)' = wk'[y].out
        BY <4>3 DEF Out
      <4> QED
        BY <1>2, <4>2, <4>4, <4>5
    <3>2. CASE ~ \E x \in Worker : Writes(x, d)
      BY <1>5, <3>2 DEF Out
    <3> QED
      BY <3>1, <3>2
  <2>3. SameView(d)
    BY <1>6, <2>1, <2>2 DEF SameView
  <2> QED
    BY <2>1, <2>3, ViewKept DEF IInv
<1> QED
  BY <1>2, <1>3, <1>4, <1>6, <1>8, <1>9, <1>10, <1>11

\* A thread takes the first request.
LEMMA PopKeeps ==
  ASSUME IInv, NEW w \in Worker, Pop(w)
  PROVE  IInv' /\ \A d \in Client : Held(d)' <=> Held(d)
<1>1. /\ cl' = cl /\ up' = up /\ down' = down /\ told' = told /\ heard' = heard
      /\ listened' = listened /\ back' = back /\ mgr' = mgr /\ lock' = lock
      /\ ended' = ended /\ ~ended /\ wk[w].pc = "idle" /\ requests # <<>>
      /\ requests' = Tail(requests)
  BY DEF Pop, CLI
<1> DEFINE n == Len(requests)
<1>2. /\ n \in Nat /\ n > 0 /\ Head(requests) = requests[1]
      /\ requests' \in Seq([fd : Client, msg : Msg]) /\ Len(requests') = n - 1
      /\ \A i \in 1 .. n - 1 : requests'[i] = requests[i + 1]
  <2>1. requests \in Seq([fd : Client, msg : Msg]) /\ n \in Nat
    BY QueueTyped
  <2>2. n # 0
    BY <1>1, <2>1, EmptySeq
  <2> QED
    BY <1>1, <2>1, <2>2, HeadTailProperties
<1>3. PICK c \in Client, m \in Msg : c = requests[1].fd /\ m = requests[1].msg
  BY <1>2, QueueTyped
<1>4. PICK pc \in {"serve", "last"} :
        wk' = [wk EXCEPT ![w] = [pc |-> pc, fd |-> c, msg |-> m, frame |-> Nothing,
                                 out |-> <<>>]]
  BY <1>2, <1>3 DEF Pop, Looks
<1> DEFINE k == [pc |-> pc, fd |-> c, msg |-> m, frame |-> Nothing, out |-> <<>>]
<1>5. k \in WorkerState
  BY EmptyUnits DEF WorkerState
<1>6. /\ wk \in [Worker -> WorkerState] /\ wk' \in [Worker -> WorkerState] /\ wk'[w] = k
      /\ \A x \in Worker \ {w} : wk'[x] = wk[x]
  BY <1>4, <1>5 DEF IInv, Typed
<1>7. Typed'
  BY <1>1, <1>2, <1>6 DEF IInv, Typed
<1> HIDE DEF n, k
<1>8. /\ k.pc \in {"serve", "last"} /\ k.fd = c /\ k.msg = m /\ k.out = <<>>
      /\ k.pc \notin {"idle", "none"} /\ k.pc # "write"
  BY DEF k
<1>9. \A i, j \in 1 .. n : requests[i].fd = requests[j].fd => i = j
  BY DEF IInv, Places, n
<1>10. Queued(c) /\ \A d \in Client : Queued(d)' <=> Queued(d) /\ d # c
  <2>1. 1 \in 1 .. n /\ (\A i \in 1 .. n - 1 : i + 1 \in 1 .. n /\ i + 1 # 1)
        /\ \A i \in 1 .. n : i # 1 => i - 1 \in 1 .. n - 1 /\ (i - 1) + 1 = i
    BY <1>2
  <2>2. Queued(c)
    BY <1>3, <2>1 DEF Queued, n
  <2>3. ASSUME NEW d \in Client, Queued(d)' PROVE Queued(d) /\ d # c
    <3>1. PICK i \in 1 .. n - 1 : requests'[i].fd = d
      BY <1>2, <2>3 DEF Queued
    <3>2. requests[i + 1].fd = d /\ i + 1 \in 1 .. n /\ i + 1 # 1
      BY <1>2, <2>1, <3>1
    <3> QED
      BY <1>3, <1>9, <2>1, <3>2 DEF Queued, n
  <2>4. ASSUME NEW d \in Client, Queued(d), d # c PROVE Queued(d)'
    <3>1. PICK i \in 1 .. n : requests[i].fd = d
      BY <2>4 DEF Queued, n
    <3>2. i # 1 /\ i - 1 \in 1 .. n - 1 /\ requests'[i - 1].fd = d
      BY <1>2, <1>3, <2>1, <2>4, <3>1
    <3> QED
      BY <1>2, <3>2 DEF Queued
  <2> QED
    BY <2>2, <2>3, <2>4
<1>11. /\ c \notin listened \cup back \cup {mgr.fd}
       /\ \A x \in Worker : wk[x].pc \notin {"idle", "none"} => wk[x].fd # c
  <2>1. 1 \in 1 .. Len(requests) /\ requests[1].fd = c
    BY <1>2, <1>3 DEF n
  <2>2. c \notin listened \cup back \cup {mgr.fd}
    BY <2>1 DEF IInv, Places
  <2>3. \A x \in Worker : wk[x].pc \notin {"idle", "none"} => ~ Queued(wk[x].fd)
    BY DEF IInv, Places
  <2> QED
    BY <1>10, <2>2, <2>3
<1>12. Places'
  <2>1. \A i \in 1 .. n - 1 : requests'[i].fd \notin listened \cup back \cup {mgr.fd}
    BY <1>2 DEF IInv, Places, n
  <2>2. \A i, j \in 1 .. n - 1 : requests'[i].fd = requests'[j].fd => i = j
    <3> SUFFICES ASSUME NEW i \in 1 .. n - 1, NEW j \in 1 .. n - 1,
                        requests'[i].fd = requests'[j].fd
                 PROVE  i = j
      OBVIOUS
    <3>1. i + 1 \in 1 .. n /\ j + 1 \in 1 .. n /\ requests[i + 1].fd = requests[j + 1].fd
      BY <1>2
    <3> QED
      BY <1>9, <3>1
  <2>3. ASSUME NEW x \in Worker, wk'[x].pc \notin {"idle", "none"}
        PROVE  /\ wk'[x].fd \in Client \ (listened \cup back \cup {mgr.fd})
               /\ ~ Queued(wk[x].fd)'
               /\ \A y \in Worker : wk'[y].pc \notin {"idle", "none"} /\ wk'[y].fd = wk'[x].fd => y = x
    <3>1. CASE x = w
      <4>1. wk'[x].fd = c /\ ~ Queued(c)'
        BY <1>6, <1>8, <1>10, <3>1
      <4>2. ~ Queued(wk[x].fd)'
        BY <4>1 DEF Queued
      <4> QED
        BY <1>6, <1>11, <3>1, <4>1, <4>2
    <3>2. CASE x # w
      <4>1. PICK d \in Client : d = wk[x].fd /\ wk'[x].fd = d
        BY <1>6, <2>3, <3>2 DEF IInv, Places
      <4>2. d # c /\ ~ Queued(d)
        BY <1>6, <1>11, <2>3, <3>2, <4>1 DEF IInv, Places
      <4>3. ~ Queued(d)'
        BY <1>10, <4>2
      <4>4. ~ Queued(wk[x].fd)'
        BY <4>1, <4>3 DEF Queued
      <4> QED
        BY <1>6, <1>8, <2>3, <3>2, <4>1, <4>2, <4>4 DEF IInv, Places
    <3> QED
      BY <3>1, <3>2
  <2> QED
    BY <1>1, <1>2, <2>1, <2>2, <2>3 DEF IInv, Places
<1>13. Alive(c) => m = cl[c].msg /\ told[c] = <<>>
  <2>1. 1 \in 1 .. Len(requests) /\ requests[1].fd = c /\ requests[1].msg = m
    BY <1>2, <1>3 DEF n
  <2> QED
    BY <2>1 DEF IInv, Hands
<1>14. Hands'
  <2>1. ASSUME NEW i \in 1 .. n - 1, Alive(requests'[i].fd)
        PROVE  requests'[i].msg = cl[requests'[i].fd].msg /\ told[requests'[i].fd] = <<>>
    <3>1. i + 1 \in 1 .. n /\ requests'[i] = requests[i + 1]
      BY <1>2
    <3> QED
      BY <2>1, <3>1 DEF IInv, Hands, n
  <2>2. ASSUME NEW x \in Worker
        PROVE  LET d == wk'[x].fd IN
               /\ wk'[x].pc = "idle" => wk'[x] = Free
               /\ wk'[x].pc = "write" => /\ wk'[x].out # <<>>
                                         /\ told[d] # <<>> /\ wk'[x].frame = Last(told[d])
               /\ wk'[x].pc \in {"serve", "last", "write"} /\ Alive(d) => wk'[x].msg = cl[d].msg
               /\ wk'[x].pc \in {"serve", "last"} /\ Alive(d) => ~ Answered(d)
    <3>1. CASE x = w
      BY <1>6, <1>8, <1>13, <3>1 DEF Answered
    <3>2. CASE x # w
      BY <1>6, <3>2 DEF IInv, Hands, Serves
    <3> QED
      BY <3>1, <3>2
  <2>3. lock # NULL => wk'[lock].pc = "write"
    BY <1>1, <1>6 DEF IInv, Hands, Typed
  <2> QED
    BY <1>1, <1>2, <2>1, <2>2, <2>3 DEF IInv, Hands, Serves, Alive, Answered
<1>15. Over'
  BY <1>1 DEF Over
<1>16. ASSUME NEW d \in Client PROVE Conversation(d)' /\ (Held(d)' <=> Held(d))
  <2>1. \A x \in Worker : /\ Writes(x, d)' = Writes(x, d)
                          /\ Serves(x, d)' <=> Serves(x, d) \/ (x = w /\ d = c)
    BY <1>1, <1>6, <1>8 DEF Writes, Serves
  <2>2. Held(d)' = Held(d)
    BY <1>10, <2>1 DEF Held
  <2>3. Out(d)' = Out(d)
    <3>1. CASE \E x \in Worker : Writes(x, d)
      <4>1. PICK y \in Worker : Writes(y, d)
        BY <3>1
      <4>2. y # w /\ \A x \in Worker : Writes(x, d) <=> x = y
        BY <1>1, <4>1 DEF IInv, Places, Writes
      <4>3. \A x \in Worker : Writes(x, d)' <=> x = y
        BY <2>1, <4>2
      <4>4. Out(d) = wk[y].out
        BY <4>2 DEF Out
      <4>5. Out(d)' = wk'[y].out
        BY <4>3 DEF Out
      <4> QED
        BY <1>6, <4>2, <4>4, <4>5
    <3>2. CASE ~ \E x \in Worker : Writes(x, d)
      BY <2>1, <3>2 DEF Out
    <3> QED
      BY <3>1, <3>2
  <2>4. SameView(d)
    BY <1>1, <2>2, <2>3 DEF SameView, ReaderOf
  <2> QED
    BY <2>2, <2>4, ViewKept DEF IInv
<1> QED
  BY <1>7, <1>12, <1>14, <1>15, <1>16 DEF IInv

\* The places do not change while a worker keeps its client.
LEMMA WorkerPlaces ==
  ASSUME IInv, NEW w \in Worker, NEW c \in Client, wk[w].fd = c, wk[w].pc \notin {"idle", "none"},
         listened' = listened, back' = back, mgr' = mgr, requests' = requests,
         NEW k \in WorkerState, wk' = [wk EXCEPT ![w] = k], k.fd = c
  PROVE  Places'
<1>1. /\ wk \in [Worker -> WorkerState] /\ wk'[w] = k
      /\ \A x \in Worker \ {w} : wk'[x] = wk[x]
  BY DEF IInv, Typed
<1>2. \A x \in Worker : wk'[x].fd = wk[x].fd /\ (wk'[x].pc \notin {"idle", "none"} => wk[x].pc \notin {"idle", "none"})
  BY <1>1
<1>3. \A x \in Worker : Queued(wk[x].fd)' = Queued(wk[x].fd)
  BY <1>2 DEF Queued
<1> QED
  BY <1>2, <1>3 DEF IInv, Places

\* A frame is begun behind those that are in the socket.
LEMMA BeginKeeps ==
  ASSUME IInv, NEW w \in Worker, NEW f \in Frame, Begin(w, f),
         wk[w].pc \in {"serve", "last"}, lock' = lock \/ lock' = w,
         wk[w].msg.text[1] \notin {READ, READN} => Framed(f, NULL)
  PROVE  IInv'
<1>1. PICK c \in Client : c = wk[w].fd
  BY DEF IInv, Places
<1>2. /\ cl' = cl /\ up' = up /\ down' = down /\ heard' = heard
      /\ listened' = listened /\ back' = back /\ mgr' = mgr /\ requests' = requests
      /\ ended' = ended /\ ~ended /\ told' = [told EXCEPT ![c] = Append(told[c], f)]
  BY <1>1 DEF Begin, CLI
<1> DEFINE k == [pc |-> "write", fd |-> c, msg |-> wk[w].msg, frame |-> f, out |-> Wire(f)]
<1>3. /\ wk \in [Worker -> WorkerState] /\ told \in [Client -> Seq(Frame)]
      /\ wk[w] \in WorkerState /\ wk[w].msg \in Msg
  BY DEF IInv, Typed, WorkerState
<1>4. wk' = [wk EXCEPT ![w] = k]
  <2>1. wk' = [wk EXCEPT ![w] = [wk[w] EXCEPT !.pc = "write", !.frame = f, !.out = Wire(f)]]
    BY <1>3 DEF Begin
  <2>2. PICK v, pc, out : v \in WorkerState /\ v = wk[w] /\ pc = "write" /\ out = Wire(f)
    BY <1>3
  <2>3. [v EXCEPT !.pc = pc, !.frame = f, !.out = out]
          = [pc |-> pc, fd |-> v.fd, msg |-> v.msg, frame |-> f, out |-> out]
    <3>1. v = [pc |-> v.pc, fd |-> v.fd, msg |-> v.msg, frame |-> v.frame, out |-> v.out]
      BY <2>2 DEF WorkerState
    <3>2. [v EXCEPT !.pc = pc]
            = [pc |-> pc, fd |-> v.fd, msg |-> v.msg, frame |-> v.frame, out |-> v.out]
      BY <3>1
    <3>3. [[pc |-> pc, fd |-> v.fd, msg |-> v.msg, frame |-> v.frame, out |-> v.out]
             EXCEPT !.frame = f]
            = [pc |-> pc, fd |-> v.fd, msg |-> v.msg, frame |-> f, out |-> v.out]
      OBVIOUS
    <3>4. [[pc |-> pc, fd |-> v.fd, msg |-> v.msg, frame |-> f, out |-> v.out]
             EXCEPT !.out = out]
            = [pc |-> pc, fd |-> v.fd, msg |-> v.msg, frame |-> f, out |-> out]
      OBVIOUS
    <3> QED
      BY <3>2, <3>3, <3>4, Zenon
  <2>4. wk' = [wk EXCEPT ![w] = [pc |-> pc, fd |-> v.fd, msg |-> v.msg, frame |-> f,
                                 out |-> out]]
    BY <2>1, <2>2, <2>3, Zenon
  <2> QED
    BY <1>1, <2>2, <2>4
<1>5. /\ f \in Msg /\ Wire(f) \in Units /\ Wire(f) # <<>> /\ Framed(f, FILE)
  <2>1. f \in Msg /\ Wire(f) \in Units /\ Framed(f, FILE)
    BY Messages
  <2> QED
    BY <2>1, FreshReading, ReadingWants
<1>6. k \in WorkerState
  BY <1>3, <1>5 DEF WorkerState
<1>7. k.fd = c /\ k.pc = "write" /\ k.out = Wire(f) /\ k.frame = f /\ k.msg = wk[w].msg
  OBVIOUS
<1> HIDE DEF k
<1>8. /\ told[c] \in Seq(Frame) /\ Len(told[c]) \in Nat
      /\ told'[c] = Append(told[c], f) /\ told'[c] \in Seq(Frame)
      /\ Len(told'[c]) = Len(told[c]) + 1 /\ told'[c][Len(told[c]) + 1] = f
      /\ told'[c] # <<>>
      /\ \A i \in 1 .. Len(told[c]) : told'[c][i] = told[c][i]
      /\ \A d \in Client \ {c} : told'[d] = told[d]
  BY <1>2, <1>3, AppendProperties, LenProperties
<1>9. Typed'
  <2>1. told' \in [Client -> Seq(Frame)] /\ wk' \in [Worker -> WorkerState]
    BY <1>2, <1>3, <1>4, <1>6, <1>8
  <2> QED
    BY <1>2, <2>1 DEF IInv, Typed
<1>10. Places'
  BY <1>1, <1>2, <1>4, <1>6, <1>7, WorkerPlaces
<1>11. /\ \A d \in Client \ {c} : Conversation(d)'
       /\ ~ Queued(c)
       /\ \A x \in Worker : wk[x].pc \notin {"idle", "none"} /\ wk[x].fd = c => x = w
       /\ wk'[w] = k /\ \A x \in Worker \ {w} : wk'[x] = wk[x]
       /\ Held(c) /\ Held(c)' /\ ReaderOf(c)' = ReaderOf(c) /\ mgr.fd # c
       /\ Out(c) = <<>> /\ Out(c)' = Wire(f)
  <2>1. wk[w].pc \notin {"idle", "none"} /\ wk[w].pc # "write"
    OBVIOUS
  <2>2. \A d \in Client \ {c} : down'[d] = down[d] /\ told'[d] = told[d]
    BY <1>2, <1>8
  <2>3. /\ wk'[w] = k /\ \A x \in Worker \ {w} : wk'[x] = wk[x]
        /\ \A x \in Worker : wk[x].pc \notin {"idle", "none"} /\ wk[x].fd = c => x = w
    BY <1>1, <1>3, <1>4, <2>1 DEF IInv, Places
  <2>4. /\ \A d \in Client \ {c} : Conversation(d)'
        /\ ~ Queued(c)
        /\ Held(c) <=> wk[w].pc \in {"serve", "last", "write"}
        /\ Held(c)' <=> wk'[w].pc \in {"serve", "last", "write"}
        /\ ReaderOf(c)' = ReaderOf(c) /\ mgr.fd # c
        /\ Out(c) = IF wk[w].pc = "write" THEN wk[w].out ELSE <<>>
        /\ Out(c)' = IF wk'[w].pc = "write" THEN wk'[w].out ELSE <<>>
    BY <1>1, <1>2, <1>4, <1>6, <1>7, <2>1, <2>2, WorkerStep
  <2> QED
    BY <1>7, <2>1, <2>3, <2>4
<1>12. Hands'
  <2>1. \A i \in 1 .. Len(requests) : requests[i].fd \in Client \ {c}
    BY <1>11, QueueTyped DEF Queued
  <2>2. ASSUME NEW x \in Worker
        PROVE  LET d == wk'[x].fd IN
               /\ wk'[x].pc = "idle" => wk'[x] = Free
               /\ wk'[x].pc = "write" => /\ wk'[x].out # <<>>
                                         /\ told'[d] # <<>> /\ wk'[x].frame = Last(told'[d])
               /\ wk'[x].pc \in {"serve", "last", "write"} /\ Alive(d)
                    => wk'[x].msg = cl[d].msg
               /\ wk'[x].pc \in {"serve", "last"} /\ Alive(d)
                    => ~ (told'[d] # <<>> /\ LastFrame(cl[d].msg, Last(told'[d])))
    <3>1. CASE x = w
      <4>1. Last(told'[c]) = f
        BY <1>8 DEF Last
      <4>2. Alive(c) => wk[w].msg = cl[c].msg
        BY <1>1 DEF IInv, Hands, Serves
      <4> QED
        BY <1>5, <1>7, <1>8, <1>11, <3>1, <4>1, <4>2
    <3>2. CASE x # w
      <4>1. wk'[x] = wk[x] /\ (wk[x].pc = "idle" => wk[x] = Free)
        BY <1>11, <3>2 DEF IInv, Hands
      <4>2. CASE wk[x].pc \notin {"idle", "none"}
        <5>1. PICK d \in Client : d = wk[x].fd /\ d # c
          BY <1>11, <3>2, <4>2 DEF IInv, Places
        <5>2. told'[d] = told[d]
          BY <1>8, <5>1
        <5> QED
          BY <4>1, <4>2, <5>1, <5>2 DEF IInv, Hands, Serves, Answered
      <4>3. CASE wk[x].pc \in {"idle", "none"}
        BY <4>1, <4>3
      <4> QED
        BY <4>2, <4>3
    <3> QED
      BY <3>1, <3>2
  <2>3. lock' # NULL => wk'[lock'].pc = "write"
    BY <1>7, <1>11 DEF IInv, Hands, Typed
  <2>4. \A i \in 1 .. Len(requests) : Alive(requests[i].fd) =>
          requests[i].msg = cl[requests[i].fd].msg /\ told'[requests[i].fd] = <<>>
    BY <1>8, <2>1 DEF IInv, Hands
  <2> QED
    BY <1>2, <2>2, <2>3, <2>4 DEF IInv, Hands, Serves, Alive, Answered
<1>13. Over'
  BY <1>2 DEF Over
<1>14. Conversation(c)'
  <2>1. Alive(c)' = Alive(c)
    BY <1>2 DEF Alive
  <2>2. CASE ~ Alive(c)
    BY <1>2, <1>11, <2>1, <2>2 DEF IInv, Conversation, Talks, HasLeft, IsLeft
  <2>3. CASE Alive(c)
    <3>1. Listening(cl[c], down[c], <<>>, told[c], heard[c]) /\ up[c] = <<>>
      BY <1>2, <1>11, <2>3 DEF IInv, Conversation, Talks
    <3>2. wk[w].msg = cl[c].msg /\ ~ Answered(c)
      BY <1>1, <2>3 DEF IInv, Hands, Serves
    <3>3. Framed(f, Announces(cl[c]))
      BY <1>5, <3>2 DEF Announces
    <3>4. down[c] \in Units /\ heard[c] \in Seq(Msg) /\ Len(heard[c]) \in Nat
      BY LenProperties DEF IInv, Typed
    <3>5. down[c] \o <<>> = down[c]
      BY <3>4, JoinsEmpty DEF Joins
    <3>6. PICK all : Joins(down[c], Wire(f), all)
      BY DEF Joins
    <3>7. Stream(all, cl[c].in, Announces(cl[c]), told'[c], Len(heard[c]))
      <4>1. Len(heard[c]) \in 0 .. Len(told[c])
        BY <1>8, <3>1, <3>4 DEF Listening
      <4>2. Stream(down[c], cl[c].in, Announces(cl[c]), told[c], Len(heard[c]))
        BY <3>1, <3>5 DEF Listening
      <4> QED
        BY <1>8, <3>4, <3>6, <4>1, <4>2, StreamAppend
    <3>8. Stream(down[c] \o Wire(f), cl[c].in, Announces(cl[c]), told'[c], Len(heard[c]))
      BY <3>6, <3>7, Zenon DEF Joins
    <3>9. \A i \in 1 .. Len(told'[c]) : Framed(told'[c][i], Announces(cl[c]))
      <4>1. \A i \in 1 .. Len(told'[c]) : i = Len(told[c]) + 1 \/ i \in 1 .. Len(told[c])
        BY <1>8
      <4>2. \A i \in 1 .. Len(told[c]) : Framed(told[c][i], Announces(cl[c]))
        BY <3>1 DEF Listening
      <4> QED
        BY <1>8, <3>3, <4>1, <4>2
    <3>10. \A i \in 1 .. Len(told'[c]) - 1 : ~ LastFrame(cl[c].msg, told'[c][i])
      <4> SUFFICES ASSUME NEW i \in 1 .. Len(told'[c]) - 1
                   PROVE  ~ LastFrame(cl[c].msg, told'[c][i])
        OBVIOUS
      <4>1. i \in 1 .. Len(told[c]) /\ told'[c][i] = told[c][i]
        BY <1>8
      <4>2. CASE i = Len(told[c])
        <5>1. told[c] # <<>> /\ Last(told[c]) = told[c][i]
          BY <4>1, <4>2, EmptySeq DEF Last
        <5> QED
          BY <3>2, <4>1, <5>1 DEF Answered
      <4>3. CASE i # Len(told[c])
        <5>1. i \in 1 .. Len(told[c]) - 1
          BY <1>8, <4>1, <4>3
        <5> QED
          BY <3>1, <4>1, <5>1 DEF Listening
      <4> QED
        BY <4>2, <4>3
    <3>11. Len(heard[c]) <= Len(told'[c]) /\ \A i \in 1 .. Len(heard[c]) : heard[c][i] = told'[c][i]
      <4>1. Len(heard[c]) <= Len(told[c]) /\ \A i \in 1 .. Len(heard[c]) : heard[c][i] = told[c][i]
        BY <3>1 DEF Listening
      <4> QED
        BY <1>8, <3>4, <4>1
    <3>12. Listening(cl[c], down[c], Wire(f), told'[c], heard[c])
      BY <3>1, <3>8, <3>9, <3>10, <3>11 DEF Listening
    <3> QED
      BY <1>2, <1>11, <2>1, <2>3, <3>1, <3>12 DEF Conversation, Talks, HasLeft, IsLeft
  <2> QED
    BY <2>2, <2>3
<1> QED
  BY <1>9, <1>10, <1>11, <1>12, <1>13, <1>14 DEF IInv

\* Every way to begin a frame.  Only a reader of files is sent one.
LEMMA BeginsKeep ==
  ASSUME IInv, NEW w \in Worker,
         \/ BeginLate(w) \/ BeginLast(w) \/ BeginAnswer(w)
         \/ \E f \in Files : BeginFile(w, f)
  PROVE  IInv'
<1>1. \A t \in {OK, KO} : Plain(t) \in Frame /\ Framed(Plain(t), NULL)
  BY Messages DEF Frame, OK, KO
<1>2. Files \subseteq Frame
  BY DEF Frame
<1>3. CASE BeginLate(w)
  BY <1>1, <1>3, BeginKeeps DEF BeginLate
<1>4. CASE BeginLast(w)
  <2>1. PICK t \in {OK, KO} : Begin(w, Plain(t))
    BY <1>4 DEF BeginLast
  <2> QED
    BY <1>1, <1>4, <2>1, BeginKeeps DEF BeginLast
<1>5. CASE BeginAnswer(w)
  <2>1. PICK t \in {OK, KO} : Begin(w, Plain(t))
    BY <1>5 DEF BeginAnswer
  <2> QED
    BY <1>1, <1>5, <2>1, BeginKeeps DEF BeginAnswer
<1>6. CASE \E f \in Files : BeginFile(w, f)
  BY <1>2, <1>6, BeginKeeps DEF BeginFile
<1> QED
  BY <1>3, <1>4, <1>5, <1>6

\* A write moves a part of a frame into the socket, or its end.
LEMMA WriteKeeps ==
  ASSUME IInv, NEW w \in Worker, Write(w)
  PROVE  IInv'
<1>1. PICK c \in Client : c = wk[w].fd
  BY DEF IInv, Places, Write
<1>2. /\ cl' = cl /\ up' = up /\ heard' = heard /\ told' = told /\ ~ended
      /\ wk[w].pc = "write"
  BY DEF Write
<1>3. CASE ~ Alive(c)
  <2>1. Ends /\ down' = down
    BY <1>1, <1>3 DEF Write
  <2> QED
    BY <1>2, <2>1, EndsKeep
<1>4. CASE Alive(c)
  <2>1. /\ listened' = listened /\ back' = back /\ mgr' = mgr /\ requests' = requests
        /\ ended' = ended
    BY <1>1, <1>4 DEF Write
  <2>2. PICK n \in Parts(Min({Room(down[c]), Len(wk[w].out)})) :
          /\ down' = [down EXCEPT ![c] = @ \o Take(wk[w].out, n)]
          /\ IF n < Len(wk[w].out)
             THEN wk' = [wk EXCEPT ![w].out = Drop(@, n)] /\ lock' = lock
             ELSE /\ \E pc \in IF LastFrame(wk[w].msg, wk[w].frame)
                              THEN {"repipe"} ELSE Looks(wk[w].msg) :
                       wk' = [wk EXCEPT ![w].out = <<>>, ![w].pc = pc]
                  /\ lock' = Released(w)
    BY <1>1, <1>4 DEF Write
  <2> DEFINE part == Take(wk[w].out, n)
             left == Drop(wk[w].out, n)
  <2>3. /\ wk \in [Worker -> WorkerState] /\ wk[w] \in WorkerState /\ wk[w].out \in Units
        /\ down \in [Client -> Units] /\ down[c] \in Units /\ Len(down[c]) <= Capacity
        /\ told[c] \in Seq(Frame) /\ \A d \in Client : Len(down[d]) <= Capacity
    BY DEF IInv, Typed, WorkerState
  <2>4. /\ n \in Nat /\ n > 0 /\ n <= Room(down[c]) /\ n <= Len(wk[w].out)
        /\ Len(down[c]) \in Nat /\ Len(wk[w].out) \in Nat
    <3>1. Room(down[c]) \in Nat /\ Len(wk[w].out) \in Nat /\ Len(down[c]) \in Nat
      BY <2>3, EmptyUnits, TransportAssumption DEF Room
    <3> QED
      BY <2>2, <3>1, PartsOfMin
  <2>5. /\ part \in Units /\ left \in Units /\ Len(part) = n
        /\ Len(left) = Len(wk[w].out) - n /\ Joins(part, left, wk[w].out)
    <3>1. n \in 0 .. Len(wk[w].out)
      BY <2>4
    <3> QED
      BY <2>3, <3>1, TakeDrop
  <2>6. (n < Len(wk[w].out)) <=> left # <<>>
    BY <2>3, <2>4, <2>5, EmptyUnits
  <2> HIDE DEF part, left
  <2>7. PICK d \in Units : Joins(down[c], part, d)
    BY <2>3, <2>5, JoinsExists
  <2>8. Len(d) <= Capacity
    <3>1. Len(d) = Len(down[c]) + n
      BY <2>3, <2>5, <2>7, JoinsLen
    <3> QED
      BY <2>4, <3>1, TransportAssumption DEF Room
  <2>9. down' = [down EXCEPT ![c] = d]
    BY <2>2, <2>7, Zenon DEF Joins, part
  <2>10. /\ down' \in [Client -> Units] /\ down'[c] = d
         /\ \A e \in Client \ {c} : down'[e] = down[e] /\ told'[e] = told[e]
         /\ \A e \in Client : Len(down'[e]) <= Capacity
    BY <1>2, <2>3, <2>8, <2>9
  <2> DEFINE pcs == IF left # <<>> THEN {"write"}
                    ELSE IF LastFrame(wk[w].msg, wk[w].frame) THEN {"repipe"}
                    ELSE {"serve", "last"}
  <2>11. PICK pc \in pcs : left = <<>> => wk' = [wk EXCEPT ![w].out = <<>>, ![w].pc = pc]
    BY <2>2, <2>6 DEF Looks
  <2>27. pc \in {"write", "repipe", "serve", "last"}
    BY <2>11
  <2> HIDE DEF pcs
  <2> DEFINE k == [pc |-> pc, fd |-> c, msg |-> wk[w].msg, frame |-> wk[w].frame,
                   out |-> left]
  <2>12. wk' = [wk EXCEPT ![w] = k]
    <3>1. PICK v \in WorkerState : v = wk[w]
      BY <2>3
    <3>2. CASE left # <<>>
      <4>1. pc = "write"
        BY <2>11, <3>2 DEF pcs
      <4>2. wk' = [wk EXCEPT ![w] = [v EXCEPT !.out = left]]
        BY <2>2, <2>3, <2>6, <3>1, <3>2 DEF left
      <4>3. [v EXCEPT !.out = left]
              = [pc |-> v.pc, fd |-> v.fd, msg |-> v.msg, frame |-> v.frame, out |-> left]
        <5>1. v = [pc |-> v.pc, fd |-> v.fd, msg |-> v.msg, frame |-> v.frame, out |-> v.out]
          BY DEF WorkerState
        <5> QED
          BY <5>1
      <4>4. v.pc = pc /\ v.fd = c /\ v.msg = wk[w].msg /\ v.frame = wk[w].frame
        BY <1>1, <1>2, <3>1, <4>1
      <4> QED
        BY <4>2, <4>3, <4>4, Zenon
    <3>3. CASE left = <<>>
      <4>2. wk' = [wk EXCEPT ![w].out = <<>>, ![w].pc = pc]
        BY <2>11, <3>3
      <4>3. wk' = [wk EXCEPT ![w] = [v EXCEPT !.out = left, !.pc = pc]]
        BY <2>3, <3>1, <3>3, <4>2
      <4>4. [v EXCEPT !.out = left, !.pc = pc]
              = [pc |-> pc, fd |-> v.fd, msg |-> v.msg, frame |-> v.frame, out |-> left]
        BY WrittenFields
      <4>5. v.fd = c /\ v.msg = wk[w].msg /\ v.frame = wk[w].frame
        BY <1>1, <3>1
      <4> QED
        BY <4>3, <4>4, <4>5, Zenon
    <3> QED
      BY <3>2, <3>3
  <2>13. /\ k \in WorkerState /\ k.fd = c /\ k.pc = pc /\ k.out = left
         /\ k.msg = wk[w].msg /\ k.frame = wk[w].frame
    BY <2>3, <2>5, <2>11 DEF WorkerState, pcs
  <2> HIDE DEF k
  <2>14. /\ wk'[w] = k /\ \A x \in Worker \ {w} : wk'[x] = wk[x]
         /\ \A x \in Worker : wk[x].pc \notin {"idle", "none"} /\ wk[x].fd = c => x = w
         /\ wk' \in [Worker -> WorkerState]
    BY <1>1, <1>2, <2>3, <2>12, <2>13 DEF IInv, Places
  <2>15. /\ \A e \in Client \ {c} : Conversation(e)'
         /\ ~ Queued(c)
         /\ Held(c) <=> wk[w].pc \in {"serve", "last", "write"}
         /\ Held(c)' <=> wk'[w].pc \in {"serve", "last", "write"}
         /\ ReaderOf(c)' = ReaderOf(c) /\ mgr.fd # c
         /\ Out(c) = IF wk[w].pc = "write" THEN wk[w].out ELSE <<>>
         /\ Out(c)' = IF wk'[w].pc = "write" THEN wk'[w].out ELSE <<>>
    BY <1>1, <1>2, <2>1, <2>10, <2>12, <2>13, WorkerStep
  <2>16. pc = "write" <=> left # <<>>
    BY <2>11 DEF pcs
  <2>17. /\ Held(c) /\ Out(c) = wk[w].out /\ Out(c)' = left
         /\ Held(c)' <=> pc # "repipe"
    BY <1>2, <2>13, <2>14, <2>15, <2>16, <2>27
  <2>18. lock' \in Worker \cup {NULL} /\ (lock' = lock \/ lock' = NULL)
         /\ (left = <<>> => lock' # w)
    BY <2>2, <2>6, TransportAssumption DEF IInv, Typed, Released
  <2>19. Typed'
    BY <1>2, <2>1, <2>10, <2>14, <2>18 DEF IInv, Typed
  <2>20. Places'
    <3>1. wk[w].pc \notin {"idle", "none"} /\ wk[w].fd = c
      BY <1>1, <1>2
    <3> QED
      BY <2>1, <2>12, <2>13, <3>1, WorkerPlaces
  <2>21. Over'
    BY <1>2, <2>1 DEF Over
  <2>22. /\ told[c] # <<>> /\ wk[w].frame = Last(told[c]) /\ wk[w].msg = cl[c].msg
    BY <1>1, <1>2, <1>4 DEF IInv, Hands, Serves
  <2>23. pc \in {"serve", "last"} => ~ Answered(c)
    BY <2>11, <2>22 DEF pcs, Answered
  <2>24. pc = "repipe" => Answered(c)
    BY <2>11, <2>22 DEF pcs, Answered
  <2>25. Hands'
    <3>1. ASSUME NEW x \in Worker
          PROVE  LET e == wk'[x].fd IN
                 /\ wk'[x].pc = "idle" => wk'[x] = Free
                 /\ wk'[x].pc = "write" => /\ wk'[x].out # <<>>
                                           /\ told[e] # <<>> /\ wk'[x].frame = Last(told[e])
                 /\ wk'[x].pc \in {"serve", "last", "write"} /\ Alive(e)
                      => wk'[x].msg = cl[e].msg
                 /\ wk'[x].pc \in {"serve", "last"} /\ Alive(e) => ~ Answered(e)
      <4>1. CASE x = w
        BY <2>13, <2>14, <2>16, <2>22, <2>23, <2>27, <4>1
      <4>2. CASE x # w
        BY <2>14, <4>2 DEF IInv, Hands, Serves
      <4> QED
        BY <4>1, <4>2
    <3>2. lock' # NULL => wk'[lock'].pc = "write"
      BY <2>13, <2>14, <2>16, <2>18 DEF IInv, Hands, Typed
    <3> QED
      BY <1>2, <2>1, <3>1, <3>2 DEF IInv, Hands, Serves, Alive, Answered
  <2>26. Conversation(c)'
    <3>1. /\ Listening(cl[c], down[c], wk[w].out, told[c], heard[c]) /\ up[c] = <<>>
      BY <1>2, <1>4, <2>17 DEF IInv, Conversation, Talks
    <3>2. PICK all : Joins(down[c], wk[w].out, all)
      BY DEF Joins
    <3>3. Joins(d, left, all)
      BY <2>3, <2>5, <2>7, <3>2, JoinsTwice
    <3>4. down[c] \o wk[w].out = d \o left
      BY <3>2, <3>3 DEF Joins
    <3>5. Stream(d \o left, cl[c].in, Announces(cl[c]), told[c], Len(heard[c]))
      BY <3>1, <3>4, Zenon DEF Listening
    <3>6. Listening(cl[c], d, left, told[c], heard[c])
      BY <3>1, <3>5 DEF Listening
    <3>7. Alive(c)' /\ Answered(c)' = Answered(c)
      BY <1>2, <1>4 DEF Alive, Answered
    <3>8. Held(c)' \/ Answered(c)
      BY <2>17, <2>24
    <3> QED
      BY <1>2, <2>1, <2>10, <2>15, <2>17, <3>1, <3>6, <3>7, <3>8
         DEF Conversation, Talks, HasLeft, IsLeft
  <2> QED
    BY <2>15, <2>19, <2>20, <2>21, <2>25, <2>26 DEF IInv
<1> QED
  BY <1>3, <1>4

\* A readNFiles that has looked at the last node goes on without the lock.
LEMMA SkipKeeps ==
  ASSUME IInv, NEW w \in Worker, Skip(w)
  PROVE  IInv' /\ \A d \in Client : Held(d)' <=> Held(d)
<1>1. PICK c \in Client : c = wk[w].fd
  BY DEF IInv, Places, Skip
<1>2. /\ cl' = cl /\ up' = up /\ down' = down /\ told' = told /\ heard' = heard
      /\ listened' = listened /\ back' = back /\ mgr' = mgr /\ lock' = lock
      /\ ended' = ended /\ ~ended /\ requests' = requests /\ lock = NULL
      /\ wk[w].pc = "serve" /\ wk' = [wk EXCEPT ![w].pc = "last"]
  BY DEF Skip, CLI
<1>3. PICK v \in WorkerState : v = wk[w]
  BY DEF IInv, Typed
<1> DEFINE k == [pc |-> "last", fd |-> v.fd, msg |-> v.msg, frame |-> v.frame, out |-> v.out]
<1>4. wk' = [wk EXCEPT ![w] = k]
  <2>1. wk' = [wk EXCEPT ![w] = [v EXCEPT !.pc = "last"]]
    BY <1>2, <1>3
  <2>2. [v EXCEPT !.pc = "last"] = k
    BY DEF WorkerState
  <2> QED
    BY <2>1, <2>2, Zenon
<1>5. /\ k \in WorkerState /\ k.fd = c /\ k.pc = "last" /\ k.msg = wk[w].msg
      /\ k.out = wk[w].out
  BY <1>1, <1>3 DEF WorkerState
<1> HIDE DEF k
<1>6. /\ wk' \in [Worker -> WorkerState] /\ wk'[w] = k
      /\ \A x \in Worker \ {w} : wk'[x] = wk[x]
  BY <1>4, <1>5 DEF IInv, Typed
<1>7. Typed' /\ Over'
  BY <1>2, <1>6 DEF IInv, Typed, Over
<1>8. Places'
  BY <1>1, <1>2, <1>4, <1>5, WorkerPlaces
<1>9. Hands'
  BY <1>1, <1>2, <1>5, <1>6 DEF IInv, Hands, Serves, Alive, Answered
<1>10. ASSUME NEW d \in Client PROVE Conversation(d)' /\ (Held(d)' <=> Held(d))
  <2>4. \A x \in Worker : /\ Writes(x, d)' = Writes(x, d)
                          /\ Serves(x, d)' = Serves(x, d)
    <3>1. ASSUME NEW x \in Worker
          PROVE  Writes(x, d)' = Writes(x, d) /\ Serves(x, d)' = Serves(x, d)
      <4>1. CASE x = w
        BY <1>1, <1>2, <1>5, <1>6, <4>1 DEF Writes, Serves
      <4>2. CASE x # w
        BY <1>6, <4>2 DEF Writes, Serves
      <4> QED
        BY <4>1, <4>2
    <3> QED
      BY <3>1
  <2>1. Held(d)' = Held(d)
    BY <1>2, <2>4 DEF Held, Queued
  <2>2. Out(d)' = Out(d)
    <3>1. CASE \E x \in Worker : Writes(x, d)
      <4>1. PICK y \in Worker : Writes(y, d)
        BY <3>1
      <4>2. y # w /\ \A x \in Worker : Writes(x, d) <=> x = y
        BY <1>2, <4>1 DEF IInv, Places, Writes
      <4>3. \A x \in Worker : Writes(x, d)' <=> x = y
        BY <2>4, <4>2
      <4>4. Out(d) = wk[y].out
        BY <4>2 DEF Out
      <4>5. Out(d)' = wk'[y].out
        BY <4>3 DEF Out
      <4> QED
        BY <1>6, <4>2, <4>4, <4>5
    <3>2. CASE ~ \E x \in Worker : Writes(x, d)
      BY <2>4, <3>2 DEF Out
    <3> QED
      BY <3>1, <3>2
  <2>3. SameView(d)
    BY <1>2, <2>1, <2>2 DEF SameView, ReaderOf
  <2> QED
    BY <2>1, <2>3, ViewKept DEF IInv
<1> QED
  BY <1>7, <1>8, <1>9, <1>10 DEF IInv

\* The descriptor goes back to the manager.
LEMMA RepipeKeeps ==
  ASSUME IInv, NEW w \in Worker, Repipe(w)
  PROVE  IInv'
<1>1. PICK c \in Client : c = wk[w].fd
  BY DEF IInv, Places, Repipe
<1>2. /\ cl' = cl /\ up' = up /\ down' = down /\ heard' = heard /\ told' = told /\ ~ended
      /\ wk[w].pc = "repipe" /\ wk' = [wk EXCEPT ![w] = Free] /\ back' = back \cup {c}
      /\ listened' = listened /\ mgr' = mgr /\ requests' = requests /\ lock' = lock
      /\ ended' = ended
  BY <1>1 DEF Repipe, CLI
<1>3. Free \in WorkerState /\ Free.pc = "idle" /\ Free.fd = NULL
  BY FreshBegun, EmptyUnits DEF Free, WorkerState
<1>4. /\ wk'[w] = Free /\ \A x \in Worker \ {w} : wk'[x] = wk[x]
      /\ wk' \in [Worker -> WorkerState]
  BY <1>2, <1>3 DEF IInv, Typed
<1>5. /\ \A d \in Client \ {c} : Conversation(d)'
      /\ ~ Queued(c)
      /\ Held(c) <=> wk[w].pc \in {"serve", "last", "write"}
      /\ Held(c)' <=> wk'[w].pc \in {"serve", "last", "write"}
      /\ ReaderOf(c)' = ReaderOf(c) /\ mgr.fd # c
      /\ Out(c) = IF wk[w].pc = "write" THEN wk[w].out ELSE <<>>
      /\ Out(c)' = IF wk'[w].pc = "write" THEN wk'[w].out ELSE <<>>
  <2>1. /\ \A d \in Client \ {c} : down'[d] = down[d] /\ told'[d] = told[d]
        /\ wk[w].pc \notin {"idle", "none"} /\ wk[w].fd = c
    BY <1>1, <1>2
  <2> QED
    BY <1>2, <1>3, <2>1, WorkerStep
<1>6. Typed'
  BY <1>2, <1>4 DEF IInv, Typed
<1>7. Places'
  <2>1. \A i \in 1 .. Len(requests) : requests[i].fd # c
    BY <1>5 DEF Queued
  <2>2. c \notin listened
    BY <1>1, <1>2 DEF IInv, Places
  <2>3. ASSUME NEW x \in Worker, wk'[x].pc \notin {"idle", "none"}
        PROVE  x # w /\ wk[x].fd # c /\ wk'[x].fd = wk[x].fd /\ wk[x].pc \notin {"idle", "none"}
    BY <1>1, <1>2, <1>3, <1>4, <2>3 DEF IInv, Places
  <2>4. \A x \in Worker : wk'[x].pc \notin {"idle", "none"} => Queued(wk[x].fd)' = Queued(wk[x].fd)
    BY <1>2, <2>3 DEF Queued
  <2> QED
    BY <1>2, <1>5, <2>1, <2>2, <2>3, <2>4 DEF IInv, Places
<1>8. Hands'
  <2>1. lock # NULL => lock # w
    BY <1>2 DEF IInv, Hands
  <2>2. lock # NULL => wk'[lock].pc = "write"
    BY <1>4, <2>1 DEF IInv, Hands, Typed
  <2> QED
    BY <1>2, <1>3, <1>4, <2>2 DEF IInv, Hands, Serves, Alive, Answered
<1>9. Over'
  BY <1>2 DEF Over
<1>10. SameView(c)
  <2>1. ~ Held(c) /\ ~ Held(c)'
    BY <1>2, <1>3, <1>4, <1>5
  <2>2. Out(c) = <<>> /\ Out(c)' = <<>>
    BY <1>2, <1>3, <1>4, <1>5
  <2> QED
    BY <1>2, <1>5, <2>1, <2>2 DEF SameView, Held
<1>11. Conversation(c)'
  BY <1>10, ViewKept DEF IInv
<1> QED
  BY <1>5, <1>6, <1>7, <1>8, <1>9, <1>11 DEF IInv

\* Every step keeps the invariant.
LEMMA NextKeeps == IInv /\ [Next]_vars => IInv'
<1> SUFFICES ASSUME IInv, [Next]_vars PROVE IInv'
  OBVIOUS
<1>1. CASE \E c \in Client : \E m \in Message : Ask(c, m)
  BY <1>1, AskKeeps
<1>2. CASE \E c \in Client : Put(c) \/ Get(c) \/ GetEnd(c)
  BY <1>2, PutKeeps, GetKeeps, GetEndKeeps
<1>3. CASE \E c \in Client : Die(c)
  BY <1>3, DieKeeps
<1>4. CASE Manager
  BY <1>4, FillKeeps, FillEndKeeps, SelectKeepsInv, RelistenKeeps DEF Manager
<1>5. CASE \E w \in Worker : Works(w)
  BY <1>5, PopKeeps, BeginsKeep, SkipKeeps, WriteKeeps, RepipeKeeps DEF Works
<1>6. CASE UNCHANGED vars
  <2>1. /\ cl' = cl /\ up' = up /\ down' = down /\ heard' = heard /\ told' = told
        /\ listened' = listened /\ back' = back /\ mgr' = mgr /\ requests' = requests
        /\ wk' = wk /\ lock' = lock /\ ended' = ended
    BY <1>6 DEF vars
  <2>2. \A c \in Client : Conversation(c)'
    <3>1. ASSUME NEW c \in Client PROVE SameView(c)
      BY <2>1 DEF SameView, Held, Queued, Serves, Out, Writes, ReaderOf
    <3> QED
      BY <3>1, ViewKept DEF IInv
  <2>3. Typed' /\ Over'
    BY <2>1 DEF IInv, Typed, Over
  <2>4. Places'
    BY <2>1 DEF IInv, Places, Queued
  <2>5. Hands'
    BY <2>1 DEF IInv, Hands, Serves, Alive, Answered
  <2> QED
    BY <2>2, <2>3, <2>4, <2>5 DEF IInv
<1> QED
  BY <1>1, <1>2, <1>3, <1>4, <1>5, <1>6 DEF Next, GoesOn

\* A descriptor is in one place, what is in the sockets is what is left to
\* write and to read of the messages, and the server has of a request what
\* its client has of it.
THEOREM Invariance == Spec => []IInv
<1>1. Init => IInv
  BY InitInv
<1>2. IInv /\ [Next]_vars => IInv'
  BY NextKeeps
<1> QED
  BY <1>1, <1>2, PTL DEF Spec

\* Everything has its type; no socket holds more than it can, no reader has
\* read more than it wanted, and no client has two requests in the queue.
THEOREM TypeCorrect == Spec => []TransportTypeOK
<1>1. IInv => TransportTypeOK
  <2> SUFFICES ASSUME IInv PROVE TransportTypeOK
    OBVIOUS
  <2>1. ASSUME NEW c \in Client
        PROVE  /\ cl[c].pc \in {"idle", "write", "read", "gone"}
               /\ Len(up[c]) \in 0 .. Capacity /\ Len(down[c]) \in 0 .. Capacity
               /\ Len(cl[c].in.got) <= cl[c].in.size
    <3>1. cl[c] \in ClientState /\ up[c] \in Units /\ down[c] \in Units /\ Begun(cl[c].in)
          /\ Len(up[c]) <= Capacity /\ Len(down[c]) <= Capacity
      BY DEF IInv, Typed
    <3>2. Len(up[c]) \in Nat /\ Len(down[c]) \in Nat /\ Capacity \in Nat
      BY <3>1, EmptyUnits, TransportAssumption
    <3>3. Len(cl[c].in.got) \in Nat /\ cl[c].in.size \in Nat
      BY <3>1, EmptyUnits DEF Begun, Reader
    <3> QED
      BY <3>1, <3>2, <3>3 DEF ClientState, Begun
  <2>2. mgr.fd \in Client \cup {NULL} /\ Len(mgr.in.got) <= mgr.in.size
    <3>1. Begun(mgr.in) /\ mgr.fd \in Client \cup {NULL}
      BY DEF IInv, Typed
    <3>2. Len(mgr.in.got) \in Nat /\ mgr.in.size \in Nat
      BY <3>1, EmptyUnits DEF Begun, Reader
    <3> QED
      BY <3>1, <3>2 DEF Begun
  <2>3. listened \subseteq Client /\ back \subseteq Client \ listened /\ lock \in Worker \cup {NULL}
    BY DEF IInv, Typed, Places
  <2>4. Len(requests) <= Cardinality(Client)
    <3>1. PICK n \in Nat : n = Len(requests)
      BY QueueTyped
    <3> DEFINE f == [i \in 1 .. n |-> requests[i].fd]
    <3>2. f \in [1 .. n -> Client]
      BY <3>1, QueueTyped
    <3>3. \A i, j \in 1 .. n : f[i] = f[j] => i = j
      BY <3>1 DEF IInv, Places
    <3>4. f \in Injection(1 .. n, Client)
      BY <3>2, <3>3 DEF Injection, IsInjective
    <3>5. IsFiniteSet(Client)
      BY TransportAssumption
    <3>6. Cardinality(1 .. n) <= Cardinality(Client)
      BY <3>4, <3>5, FS_Injection
    <3>7. Cardinality(1 .. n) = n
      BY FS_Interval
    <3> QED
      BY <3>1, <3>6, <3>7
  <2> QED
    BY <2>1, <2>2, <2>3, <2>4 DEF TransportTypeOK
<1> QED
  BY <1>1, Invariance, PTL

\* A client starts a request on empty sockets.
THEOREM EmptySockets == Spec => []NothingLeftOver
<1>1. IInv => NothingLeftOver
  BY IdleAtRest DEF NothingLeftOver, Held, Queued
<1> QED
  BY <1>1, Invariance, PTL

\* A thread writes only to a client that reads, the manager waits only for
\* one that writes, and the lock is held only by a thread that writes: a
\* file, or to a readFile that it has waited too long (util_server.c:250-263).
THEOREM NoCircle == Spec => []BlockedByTheBusyOnly
<1>1. IInv => BlockedByTheBusyOnly
  <2> SUFFICES ASSUME IInv, ~ended PROVE BlockedByTheBusyOnly
    BY DEF BlockedByTheBusyOnly
  <2>1. ASSUME mgr.fd # NULL, Alive(mgr.fd), up[mgr.fd] = <<>>
        PROVE  cl[mgr.fd].pc = "write"
    <3>1. PICK c \in Client : c = mgr.fd
      BY <2>1 DEF IInv, Typed
    <3>2. Sending(cl[c], up[c], down[c], told[c], heard[c], ReaderOf(c))
      BY <2>1, <3>1 DEF IInv, Conversation, Talks
    <3>3. cl[c].out \in Units /\ up[c] = <<>> /\ cl[c].msg \in Msg
      BY <2>1, <3>1 DEF IInv, Typed, ClientState
    <3>4. <<>> \o cl[c].out = cl[c].out
      BY <3>3, ConcatEmptySeq DEF Units
    <3>5. Reading(ReaderOf(c), cl[c].msg, APPEND, cl[c].out)
      BY <3>2, <3>3, <3>4 DEF Sending
    <3>6. cl[c].out # <<>>
      BY <3>3, <3>5, ReadingWants
    <3> QED
      BY <3>1, <3>2, <3>6 DEF Sending
  <2>2. ASSUME NEW w \in Worker, wk[w].pc = "write", Alive(wk[w].fd)
        PROVE  cl[wk[w].fd].pc = "read"
    <3>1. PICK c \in Client : c = wk[w].fd
      BY <2>2 DEF IInv, Places
    <3>2. Held(c)
      BY <2>2, <3>1 DEF Held, Serves
    <3> QED
      BY <2>2, <3>1, <3>2 DEF IInv, Conversation, Talks, Listening
  <2>3. lock # NULL => wk[lock].pc = "write"
    BY DEF IInv, Hands
  <2> QED
    BY <2>1, <2>2, <2>3 DEF BlockedByTheBusyOnly
<1> QED
  BY <1>1, Invariance, PTL

(***************************************************************************)
(* The mailbox.                                                            *)
(***************************************************************************)
Asks == [c \in Client |-> AbstractAsk(c)]
Gone == {c \in Client : ~ Alive(c)}
NoAsk == [state |-> "idle", msg |-> <<>>]

\* What AbstractAsk comes to.
View(c) ==
  IF cl[c].pc \in {"idle", "gone"} THEN NoAsk
  ELSE [state |-> IF ended THEN "lost"
                  ELSE IF Answered(c) \/ Held(c) THEN "taken" ELSE "posted",
        msg   |-> cl[c].msg]

\* What the server has in hand of a client that is alive is its request.
LEMMA AskIs == IInv => \A c \in Client : AbstractAsk(c) = View(c)
<1> SUFFICES ASSUME IInv, NEW c \in Client PROVE AbstractAsk(c) = View(c)
  OBVIOUS
<1>1. CASE cl[c].pc \in {"idle", "gone"}
  BY <1>1 DEF AbstractAsk, View, NoAsk
<1>2. CASE cl[c].pc \notin {"idle", "gone"}
  <2>1. Alive(c)
    BY <1>2 DEF Alive
  <2>2. \A i \in 1 .. Len(requests) : requests[i].fd = c => requests[i].msg = cl[c].msg
    BY <2>1 DEF IInv, Hands
  <2>3. \A w \in Worker : Serves(w, c) => wk[w].msg = cl[c].msg
    BY <2>1 DEF IInv, Hands, Serves
  <2>4. Held(c) => InHand(c) = {cl[c].msg}
    BY <2>2, <2>3 DEF InHand, Held, Queued, Serves
  <2>5. ~ Held(c) => InHand(c) = {}
    BY DEF InHand, Held, Queued, Serves
  <2>6. (CHOOSE m \in {cl[c].msg} : TRUE) = cl[c].msg
    OBVIOUS
  <2>7. InHand(c) # {} <=> Held(c)
    BY <2>4, <2>5
  <2>8. (IF InHand(c) = {} THEN cl[c].msg ELSE CHOOSE m \in InHand(c) : TRUE) = cl[c].msg
    BY <2>4, <2>5, <2>6, <2>7
  <2> QED
    BY <1>2, <2>7, <2>8 DEF AbstractAsk, View
<1> QED
  BY <1>1, <1>2

\* So it is after a step.
LEMMA AskIsNext == IInv' => (\A c \in Client : AbstractAsk(c) = View(c))'
BY AskIs, PTL

\* A step between one client and the server.
LEMMA Moves ==
  ASSUME IInv, IInv', NEW c \in Client, ended' = ended,
         \A d \in Client \ {c} : /\ cl'[d] = cl[d] /\ told'[d] = told[d] /\ heard'[d] = heard[d]
                                 /\ Held(d)' <=> Held(d)
  PROVE  /\ Asks[c] = View(c) /\ Asks' = [Asks EXCEPT ![c] = View(c)']
         /\ IfAlive(told)' = [IfAlive(told) EXCEPT ![c] = IF Alive(c)' THEN told'[c] ELSE <<>>]
         /\ IfAlive(heard)' = [IfAlive(heard) EXCEPT ![c] = IF Alive(c)' THEN heard'[c] ELSE <<>>]
         /\ Gone' = IF Alive(c)' THEN Gone \ {c} ELSE Gone \cup {c}
<1>1. \A d \in Client \ {c} : View(d)' = View(d) /\ (Alive(d)' <=> Alive(d))
  BY DEF View, Answered, Alive
<1>2. Asks = [d \in Client |-> View(d)]
  BY AskIs DEF Asks
<1>3. Asks' = [d \in Client |-> View(d)']
  BY AskIsNext DEF Asks
<1>4. Asks' = [Asks EXCEPT ![c] = View(c)']
  BY <1>1, <1>2, <1>3
<1>5. IfAlive(told)' = [IfAlive(told) EXCEPT ![c] = IF Alive(c)' THEN told'[c] ELSE <<>>]
  BY <1>1 DEF IfAlive
<1>6. IfAlive(heard)' = [IfAlive(heard) EXCEPT ![c] = IF Alive(c)' THEN heard'[c] ELSE <<>>]
  BY <1>1 DEF IfAlive
<1>7. Gone' = IF Alive(c)' THEN Gone \ {c} ELSE Gone \cup {c}
  BY <1>1 DEF Gone
<1> QED
  BY <1>2, <1>4, <1>5, <1>6, <1>7

\* What the mailbox does not show.
LEMMA Unseen ==
  ASSUME IInv, IInv', ended' = ended,
         \A c \in Client : /\ Alive(c)' <=> Alive(c)
                           /\ View(c)' = View(c)
                           /\ Alive(c) => told'[c] = told[c] /\ heard'[c] = heard[c]
  PROVE  UNCHANGED Box!box
<1>1. Asks = [d \in Client |-> View(d)]
  BY AskIs DEF Asks
<1>2. Asks' = [d \in Client |-> View(d)']
  BY AskIsNext DEF Asks
<1>3. Asks' = Asks
  BY <1>1, <1>2
<1>4. IfAlive(told)' = IfAlive(told) /\ IfAlive(heard)' = IfAlive(heard) /\ Gone' = Gone
  BY DEF IfAlive, Gone
<1> QED
  BY <1>3, <1>4 DEF Box!box, Asks, Gone

\* Nobody is given what was not in hand.
LEMMA HeldKept ==
  ASSUME requests' = requests, wk' = wk
  PROVE  \A c \in Client : Held(c)' <=> Held(c)
BY DEF Held, Queued, Serves

\* A request is posted when a call of the api begins.
LEMMA AskPosts ==
  ASSUME IInv, IInv', NEW c \in Client, NEW m \in Message, Ask(c, m)
  PROVE  Box!Post(c, m)
<1>1. /\ cl[c].pc = "idle" /\ cl'[c].pc = "write" /\ cl'[c].msg = m
      /\ told'[c] = <<>> /\ heard'[c] = <<>> /\ ended' = ended
      /\ requests' = requests /\ wk' = wk
      /\ \A d \in Client \ {c} : cl'[d] = cl[d] /\ told'[d] = told[d] /\ heard'[d] = heard[d]
  BY DEF Ask, SRV, IInv, Typed
<1>2. \A d \in Client : Held(d)' <=> Held(d)
  BY <1>1, HeldKept
<1>3. View(c) = NoAsk /\ Alive(c) /\ Alive(c)'
  BY <1>1 DEF View, Alive
<1>4. ~ Held(c)' /\ ~ Answered(c)'
  BY <1>1, <1>2, IdleAtRest DEF Answered
<1>5. View(c)' = [state |-> IF ended THEN "lost" ELSE "posted", msg |-> m]
  BY <1>1, <1>4 DEF View
<1>6. /\ Asks[c] = NoAsk
      /\ Asks' = [Asks EXCEPT ![c] = [state |-> IF ended THEN "lost" ELSE "posted", msg |-> m]]
      /\ IfAlive(told)' = [IfAlive(told) EXCEPT ![c] = <<>>]
      /\ IfAlive(heard)' = [IfAlive(heard) EXCEPT ![c] = <<>>]
      /\ c \notin Gone /\ Gone' = Gone
  BY <1>1, <1>2, <1>3, <1>5, Moves DEF Gone
<1> QED
  BY <1>1, <1>6 DEF Box!Post, Asks, Gone, NoAsk

\* A client that has died is gone from the mailbox.
LEMMA DyingDies ==
  ASSUME IInv, IInv', NEW c \in Client, cl'[c].pc = "gone", told' = told, heard' = heard,
         ended' = ended, requests' = requests, wk' = wk,
         \A d \in Client \ {c} : cl'[d] = cl[d]
  PROVE  Box!Die(c)
<1>1. \A d \in Client : Held(d)' <=> Held(d)
  BY HeldKept
<1>2. ~ Alive(c)' /\ View(c)' = NoAsk
  BY DEF View, Alive
<1>3. /\ Asks' = [Asks EXCEPT ![c] = NoAsk]
      /\ IfAlive(told)' = [IfAlive(told) EXCEPT ![c] = <<>>]
      /\ IfAlive(heard)' = [IfAlive(heard) EXCEPT ![c] = <<>>]
      /\ Gone' = Gone \cup {c}
  BY <1>1, <1>2, Moves
<1> QED
  BY <1>3 DEF Box!Die, Box!Idle, Asks, Gone, NoAsk

\* What a write moves into a socket is not seen.
LEMMA PutUnseen ==
  ASSUME IInv, IInv', NEW c \in Client, Put(c)
  PROVE  Box!Die(c) \/ UNCHANGED Box!box
<1>1. /\ told' = told /\ heard' = heard /\ ended' = ended /\ requests' = requests /\ wk' = wk
      /\ cl \in [Client -> ClientState]
  BY DEF Put, SRV, IInv, Typed
<1>2. CASE ended
  <2>1. cl'[c].pc = "gone" /\ \A d \in Client \ {c} : cl'[d] = cl[d]
    BY <1>1, <1>2 DEF Put, ClientState
  <2> QED
    BY <1>1, <2>1, DyingDies
<1>3. CASE ~ended
  <2>1. /\ \A d \in Client \ {c} : cl'[d] = cl[d]
        /\ cl'[c].pc \in {"write", "read"} /\ cl'[c].msg = cl[c].msg
        /\ cl[c].pc = "write"
    BY <1>1, <1>3 DEF Put, ClientState
  <2>2. \A d \in Client : Held(d)' <=> Held(d)
    BY <1>1, HeldKept
  <2>3. \A d \in Client : (Alive(d)' <=> Alive(d)) /\ View(d)' = View(d)
    BY <1>1, <2>1, <2>2 DEF Alive, View, Answered
  <2> QED
    BY <1>1, <2>3, Unseen
<1> QED
  BY <1>2, <1>3

\* A frame is delivered when its last unit is read.
LEMMA GetDelivers ==
  ASSUME IInv, IInv', NEW c \in Client, Get(c), HearsNext(c)
  PROVE  Box!Deliver(c) \/ UNCHANGED Box!box
<1>1. /\ told' = told /\ ended' = ended /\ requests' = requests /\ wk' = wk
      /\ cl \in [Client -> ClientState] /\ heard \in [Client -> Seq(Msg)]
      /\ cl[c].pc = "read" /\ \A d \in Client \ {c} : cl'[d] = cl[d] /\ heard'[d] = heard[d]
  BY DEF Get, Hear, SRV, IInv, Typed
<1>2. \A d \in Client : Held(d)' <=> Held(d)
  BY <1>1, HeldKept
<1>3. CASE heard' = heard /\ cl'[c].pc = cl[c].pc /\ cl'[c].msg = cl[c].msg
  <2>1. \A d \in Client : (Alive(d)' <=> Alive(d)) /\ View(d)' = View(d)
    BY <1>1, <1>2, <1>3 DEF Alive, View, Answered
  <2> QED
    BY <1>1, <1>3, <2>1, Unseen
<1>4. CASE Len(heard[c]) < Len(told[c]) /\ Hear(c, told[c][Len(heard[c]) + 1])
  <2> DEFINE f == told[c][Len(heard[c]) + 1]
  <2>1. heard'[c] = Append(heard[c], f) /\ heard' = [heard EXCEPT ![c] = Append(heard[c], f)]
    BY <1>1, <1>4 DEF Hear
  <2>2. /\ LastFrame(cl[c].msg, f) => cl'[c] = NewClient
        /\ ~ LastFrame(cl[c].msg, f) => cl'[c].pc = "read" /\ cl'[c].msg = cl[c].msg
    BY <1>1, <1>4 DEF Hear, ClientState
  <2>3. Alive(c) /\ Alive(c)'
    BY <1>1, <2>2 DEF Alive, NewClient
  <2>4. /\ LastFrame(cl[c].msg, f) => View(c)' = NoAsk
        /\ ~ LastFrame(cl[c].msg, f) => View(c)' = View(c)
    BY <1>1, <1>2, <2>2 DEF View, NewClient, Answered
  <2>5. View(c).msg = cl[c].msg
    BY <1>1 DEF View
  <2> HIDE DEF f
  <2>6. /\ Asks[c] = View(c) /\ Asks' = [Asks EXCEPT ![c] = View(c)']
        /\ IfAlive(told)' = [IfAlive(told) EXCEPT ![c] = told[c]]
        /\ IfAlive(heard)' = [IfAlive(heard) EXCEPT ![c] = Append(heard[c], f)]
        /\ c \notin Gone /\ Gone' = Gone
    BY <1>1, <1>2, <2>1, <2>3, Moves DEF Gone
  <2>7. IfAlive(told)[c] = told[c] /\ IfAlive(heard)[c] = heard[c] /\ IfAlive(told)' = IfAlive(told)
    BY <2>3, <2>6 DEF IfAlive
  <2>8. Asks' = IF LastFrame(Asks[c].msg, f) THEN [Asks EXCEPT ![c] = NoAsk] ELSE Asks
    BY <2>4, <2>5, <2>6 DEF Asks
  <2> QED
    BY <1>1, <1>4, <2>6, <2>7, <2>8 DEF Box!Deliver, Box!Idle, Asks, Gone, NoAsk, f
<1> QED
  BY <1>3, <1>4 DEF HearsNext

\* A client takes what it finds of a server that has died.
LEMMA GetEndGarbles ==
  ASSUME IInv, IInv', NEW c \in Client, GetEnd(c)
  PROVE  Box!Die(c) \/ Box!Garbled(c)
<1>1. /\ told' = told /\ ended' = ended /\ ended /\ requests' = requests /\ wk' = wk
      /\ cl \in [Client -> ClientState] /\ heard \in [Client -> Seq(Msg)]
      /\ cl[c].pc = "read"
  BY DEF GetEnd, SRV, IInv, Typed
<1>2. \A d \in Client : Held(d)' <=> Held(d)
  BY <1>1, HeldKept
<1>3. CASE cl' = [cl EXCEPT ![c].pc = "gone"] /\ heard' = heard
  <2>1. cl'[c].pc = "gone" /\ \A d \in Client \ {c} : cl'[d] = cl[d]
    BY <1>1, <1>3 DEF ClientState
  <2> QED
    BY <1>1, <1>3, <2>1, DyingDies
<1>4. CASE Hear(c, ReadsEnd(cl[c].in))
  <2>1. /\ \A d \in Client \ {c} : cl'[d] = cl[d] /\ heard'[d] = heard[d]
        /\ cl'[c] = NewClient \/ (cl'[c].pc = "read" /\ cl'[c].msg = cl[c].msg)
    BY <1>1, <1>4 DEF Hear, ClientState
  <2>2. Alive(c) /\ Alive(c)'
    BY <1>1, <2>1 DEF Alive, NewClient
  <2>3. View(c)' \in {View(c), NoAsk} /\ View(c).state = "lost"
    BY <1>1, <2>1 DEF View, NewClient
  <2>4. /\ Asks[c] = View(c) /\ Asks' = [Asks EXCEPT ![c] = View(c)']
        /\ IfAlive(told)' = [IfAlive(told) EXCEPT ![c] = told[c]]
        /\ c \notin Gone /\ Gone' = Gone
    BY <1>1, <1>2, <2>1, <2>2, Moves DEF Gone
  <2>5. IfAlive(told)' = IfAlive(told)
    BY <2>2, <2>4 DEF IfAlive
  <2>6. \A d \in Client \ {c} : IfAlive(heard)'[d] = IfAlive(heard)[d]
    BY <2>1 DEF IfAlive, Alive
  <2>7. Asks' \in {Asks, [Asks EXCEPT ![c] = NoAsk]}
    BY <2>3, <2>4 DEF Asks
  <2> QED
    BY <1>1, <2>3, <2>4, <2>5, <2>6, <2>7 DEF Box!Garbled, Box!Idle, Asks, Gone, NoAsk
<1> QED
  BY <1>3, <1>4 DEF GetEnd

\* A client dies.
LEMMA DieDies ==
  ASSUME IInv, IInv', NEW c \in Client, Die(c)
  PROVE  Box!Die(c)
<1>1. /\ told' = told /\ heard' = heard /\ ended' = ended /\ requests' = requests /\ wk' = wk
      /\ cl'[c].pc = "gone" /\ \A d \in Client \ {c} : cl'[d] = cl[d]
  BY DEF Die, SRV, IInv, Typed, NewClient
<1> QED
  BY <1>1, DyingDies

\* A request in the queue is in hand.
LEMMA PushHolds ==
  ASSUME IInv, NEW c \in Client, NEW m, Push(c, m), wk' = wk
  PROVE  \A d \in Client : Held(d)' <=> Held(d) \/ d = c
<1> DEFINE n == Len(requests)
<1>1. n \in Nat /\ requests \in Seq([fd : Client, msg : Msg \cup {m}])
  <2>1. [fd : Client, msg : Msg] \subseteq [fd : Client, msg : Msg \cup {m}]
    OBVIOUS
  <2> QED
    BY <2>1, QueueTyped, SeqMonotonic
<1>2. /\ Len(requests') = n + 1 /\ requests'[n + 1].fd = c
      /\ \A i \in 1 .. n : requests'[i] = requests[i]
  BY <1>1, AppendProperties DEF Push
<1> HIDE DEF n
<1>3. \A i : i \in 1 .. n + 1 <=> i \in 1 .. n \/ i = n + 1
  BY <1>1
<1>4. \A d \in Client : Queued(d)' <=> Queued(d) \/ d = c
  BY <1>2, <1>3 DEF Queued, n
<1> QED
  BY <1>4 DEF Held, Serves

\* What the server reads of a client: a request is taken as a whole.
LEMMA PushTakes ==
  ASSUME IInv, IInv', NEW c \in Client, NEW m, Push(c, m), ~ended, mgr.fd = c,
         cl' = cl, told' = told, heard' = heard, ended' = ended, wk' = wk
  PROVE  Box!Take(c) \/ UNCHANGED Box!box
<1>1. \A d \in Client : Held(d)' <=> Held(d) \/ d = c
  BY PushHolds
<1>2. CASE ~ Alive(c)
  <2>1. \A d \in Client : (Alive(d)' <=> Alive(d)) /\ View(d)' = View(d)
    BY <1>1, <1>2 DEF Alive, View, Answered
  <2> QED
    BY <2>1, Unseen
<1>3. CASE Alive(c)
  <2>1. /\ Sending(cl[c], up[c], down[c], told[c], heard[c], ReaderOf(c)) /\ ~ Held(c)
    BY <1>3, MgrHolds DEF IInv, Conversation, Talks
  <2>2. cl[c].pc \in {"write", "read"} /\ ~ Answered(c)
    BY <2>1 DEF Sending, Answered
  <2>3. /\ View(c) = [state |-> "posted", msg |-> cl[c].msg]
        /\ View(c)' = [state |-> "taken", msg |-> cl[c].msg]
    BY <1>1, <2>1, <2>2 DEF View
  <2>4. /\ Asks[c] = View(c) /\ Asks' = [Asks EXCEPT ![c] = View(c)']
        /\ IfAlive(told)' = IfAlive(told) /\ IfAlive(heard)' = IfAlive(heard)
        /\ Gone' = Gone
    BY <1>1, <1>3, Moves DEF Alive, IfAlive, Gone
  <2>5. [View(c) EXCEPT !.state = "taken"] = View(c)'
    BY <2>3
  <2> QED
    <3>1. Asks[c].state = "posted" /\ [Asks[c] EXCEPT !.state = "taken"] = View(c)'
      BY <2>3, <2>4, <2>5
    <3>2. [Asks EXCEPT ![c].state = "taken"] = [Asks EXCEPT ![c] = [Asks[c] EXCEPT !.state = "taken"]]
      BY DEF Asks
    <3>3. Asks' = [Asks EXCEPT ![c].state = "taken"]
      BY <2>4, <3>1, <3>2, Zenon
    <3> QED
      BY <2>4, <3>1, <3>3 DEF Box!Take, Asks, Gone
<1> QED
  BY <1>2, <1>3

\* The process ends.
LEMMA EndsEnds ==
  ASSUME IInv, IInv', Ends, cl' = cl, told' = told, heard' = heard
  PROVE  Box!End
<1>1. ended' = TRUE
  BY DEF Ends
<1>2. \A c \in Client : View(c)' = IF View(c).state = "idle" THEN NoAsk
                                   ELSE [View(c) EXCEPT !.state = "lost"]
  BY <1>1 DEF View, NoAsk
<1>3. /\ Asks = [c \in Client |-> View(c)] /\ Asks' = [c \in Client |-> View(c)']
      /\ \A c \in Client : Asks[c] = View(c)
  BY AskIs, AskIsNext DEF Asks
<1>4. Asks' = [c \in Client |-> IF Asks[c].state = "idle" THEN NoAsk
                                ELSE [Asks[c] EXCEPT !.state = "lost"]]
  BY <1>2, <1>3
<1>5. IfAlive(told)' = IfAlive(told) /\ IfAlive(heard)' = IfAlive(heard) /\ Gone' = Gone
  BY DEF IfAlive, Gone, Alive
<1> QED
  BY <1>1, <1>4, <1>5 DEF Box!End, Box!Idle, Asks, Gone, NoAsk

\* The manager.
LEMMA ManagerTakes ==
  ASSUME IInv, IInv', Manager
  PROVE  Box!End \/ (\E c \in Client : Box!Take(c)) \/ UNCHANGED Box!box
<1>1. cl' = cl /\ told' = told /\ heard' = heard
  BY DEF Manager, Fill, FillEnd, Select, Relisten, CLI
<1>2. CASE Ends
  BY <1>1, <1>2, EndsEnds
<1>3. CASE \E m : Push(mgr.fd, m) /\ wk' = wk /\ ended' = ended /\ ~ended /\ mgr.fd # NULL
  <2>1. PICK c \in Client : c = mgr.fd
    BY <1>3 DEF IInv, Typed
  <2>2. PICK m : Push(c, m) /\ wk' = wk /\ ended' = ended /\ ~ended
    BY <1>3, <2>1
  <2> QED
    BY <1>1, <2>1, <2>2, PushTakes
<1>4. CASE requests' = requests /\ wk' = wk /\ ended' = ended
  <2>1. \A d \in Client : (Alive(d)' <=> Alive(d)) /\ View(d)' = View(d)
    BY <1>1, <1>4, HeldKept DEF Alive, View, Answered
  <2> QED
    BY <1>1, <1>4, <2>1, Unseen
<1>5. CASE Fill
  BY <1>3, <1>4, <1>5 DEF Fill
<1>6. CASE FillEnd
  BY <1>2, <1>3, <1>6 DEF FillEnd
<1>7. CASE \E c \in Client : Select(c) \/ Relisten(c)
  BY <1>4, <1>7 DEF Select, Relisten
<1> QED
  BY <1>5, <1>6, <1>7 DEF Manager

\* Where the server has it is not seen of a request.
LEMMA PopUnseen ==
  ASSUME IInv, IInv', NEW w \in Worker, Pop(w) \/ Skip(w), \A d \in Client : Held(d)' <=> Held(d)
  PROVE  UNCHANGED Box!box
<1>1. cl' = cl /\ told' = told /\ heard' = heard /\ ended' = ended
  BY DEF Pop, Skip, CLI
<1>2. \A d \in Client : (Alive(d)' <=> Alive(d)) /\ View(d)' = View(d)
  BY <1>1 DEF Alive, View, Answered
<1> QED
  BY <1>1, <1>2, Unseen

\* A frame is replied when it is begun.
LEMMA BeginReplies ==
  ASSUME IInv, IInv', NEW w \in Worker, NEW f \in Frame, Begin(w, f),
         wk[w].pc \in {"serve", "last"}
  PROVE  (\E c \in Client : Box!Reply(c, f)) \/ UNCHANGED Box!box
<1>1. PICK c \in Client : c = wk[w].fd
  BY DEF IInv, Places
<1>2. /\ cl' = cl /\ heard' = heard /\ ended' = ended /\ ~ended /\ requests' = requests
      /\ told' = [told EXCEPT ![c] = Append(told[c], f)]
      /\ wk \in [Worker -> WorkerState] /\ told \in [Client -> Seq(Frame)]
  BY <1>1 DEF Begin, CLI, IInv, Typed
<1>3. /\ told'[c] = Append(told[c], f) /\ \A d \in Client \ {c} : told'[d] = told[d]
      /\ wk'[w].pc = "write" /\ wk'[w].fd = c /\ \A x \in Worker \ {w} : wk'[x] = wk[x]
  BY <1>1, <1>2 DEF Begin, WorkerState
<1>4. \A d \in Client : Held(d)' <=> Held(d)
  <2>1. \A x \in Worker, d \in Client : Serves(x, d)' <=> Serves(x, d)
    BY <1>1, <1>3 DEF Serves
  <2> QED
    BY <1>2, <2>1 DEF Held, Queued
<1>5. Held(c)
  BY <1>1 DEF Held, Serves
<1>6. CASE ~ Alive(c)
  <2>1. \A d \in Client : /\ (Alive(d)' <=> Alive(d)) /\ View(d)' = View(d)
                          /\ Alive(d) => told'[d] = told[d]
    BY <1>2, <1>3, <1>4, <1>6 DEF Alive, View, Answered
  <2> QED
    BY <1>2, <2>1, Unseen
<1>7. CASE Alive(c)
  <2>1. cl[c].pc = "read"
    BY <1>2, <1>5, <1>7 DEF IInv, Conversation, Talks, Listening
  <2>2. View(c).state = "taken" /\ View(c)' = View(c)
    BY <1>2, <1>4, <1>5, <2>1 DEF View
  <2>3. /\ Asks[c] = View(c) /\ Asks' = [Asks EXCEPT ![c] = View(c)']
        /\ IfAlive(told)' = [IfAlive(told) EXCEPT ![c] = Append(told[c], f)]
        /\ IfAlive(heard)' = IfAlive(heard) /\ Gone' = Gone
    BY <1>2, <1>3, <1>4, <1>7, Moves DEF Alive, IfAlive, Gone
  <2>4. Asks' = Asks /\ IfAlive(told)[c] = told[c]
    BY <1>7, <2>2, <2>3 DEF Asks, IfAlive
  <2> QED
    BY <1>2, <2>2, <2>3, <2>4 DEF Box!Reply, Asks, Gone
<1> QED
  BY <1>6, <1>7

\* What a write moves is not seen, but a write to a client that has died.
LEMMA WriteUnseen ==
  ASSUME IInv, IInv', NEW w \in Worker, Write(w)
  PROVE  Box!End \/ UNCHANGED Box!box
<1>1. PICK c \in Client : c = wk[w].fd
  BY DEF IInv, Places, Write
<1>2. /\ cl' = cl /\ heard' = heard /\ told' = told /\ ~ended /\ wk[w].pc = "write"
      /\ wk \in [Worker -> WorkerState]
  BY DEF Write, IInv, Typed
<1>3. CASE ~ Alive(c)
  BY <1>1, <1>2, <1>3, EndsEnds DEF Write
<1>4. CASE Alive(c)
  <2>1. requests' = requests /\ ended' = ended
    BY <1>1, <1>4 DEF Write
  <2>2. /\ \A x \in Worker \ {w} : wk'[x] = wk[x]
        /\ wk'[w].fd = c
    BY <1>1, <1>2, <1>4 DEF Write, WorkerState
  <2>3. \A d \in Client \ {c} : Held(d)' <=> Held(d)
    <3>1. \A x \in Worker, d \in Client \ {c} : Serves(x, d)' <=> Serves(x, d)
      BY <1>1, <2>2 DEF Serves
    <3> QED
      BY <2>1, <3>1 DEF Held, Queued
  <2>4. Held(c) /\ told[c] # <<>>
    BY <1>1, <1>2 DEF Held, Serves, IInv, Hands
  <2>5. cl[c].pc = "read" /\ Alive(c)'
    BY <1>2, <1>4, <2>4 DEF IInv, Conversation, Talks, Listening, Alive
  <2>6. Answered(c)' \/ Held(c)'
    <3>1. Conversation(c)' /\ ~ ended' /\ told'[c] # <<>> /\ cl'[c].pc = "read"
      BY <1>2, <2>1, <2>4, <2>5 DEF IInv
    <3> QED
      BY <2>5, <3>1 DEF Conversation, Talks, AtRest, Sending, NewClient
  <2>7. \A d \in Client : (Alive(d)' <=> Alive(d)) /\ View(d)' = View(d)
    BY <1>2, <2>1, <2>3, <2>4, <2>6 DEF Alive, View, Answered
  <2> QED
    BY <1>2, <2>1, <2>7, Unseen
<1> QED
  BY <1>3, <1>4

\* Nor is the way back of a descriptor.
LEMMA RepipeUnseen ==
  ASSUME IInv, IInv', NEW w \in Worker, Repipe(w)
  PROVE  UNCHANGED Box!box
<1>1. /\ cl' = cl /\ heard' = heard /\ told' = told /\ requests' = requests /\ ended' = ended
      /\ wk \in [Worker -> WorkerState] /\ wk[w].pc = "repipe" /\ wk'[w].pc = "idle"
      /\ \A x \in Worker \ {w} : wk'[x] = wk[x]
  BY DEF Repipe, CLI, IInv, Typed, Free
<1>2. \A x \in Worker, d \in Client : Serves(x, d)' <=> Serves(x, d)
  BY <1>1 DEF Serves
<1>3. \A d \in Client : Held(d)' <=> Held(d)
  BY <1>1, <1>2 DEF Held, Queued
<1>4. \A d \in Client : (Alive(d)' <=> Alive(d)) /\ View(d)' = View(d)
  BY <1>1, <1>3 DEF Alive, View, Answered
<1> QED
  BY <1>1, <1>4, Unseen

\* A thread replies, or is not seen.
LEMMA WorksReplies ==
  ASSUME IInv, IInv', NEW w \in Worker, Works(w)
  PROVE  Box!BoxNext \/ UNCHANGED Box!box
<1>1. CASE Pop(w) \/ Skip(w)
  <2>1. \A d \in Client : Held(d)' <=> Held(d)
    BY <1>1, PopKeeps, SkipKeeps
  <2> QED
    BY <1>1, <2>1, PopUnseen
<1>2. CASE Write(w)
  BY <1>2, WriteUnseen DEF Box!BoxNext
<1>3. CASE Repipe(w)
  BY <1>3, RepipeUnseen
<1>4. CASE \E f \in Frame : Begin(w, f) /\ wk[w].pc \in {"serve", "last"}
  BY <1>4, BeginReplies DEF Box!BoxNext
<1>5. \A t \in {OK, KO} : Plain(t) \in Frame
  BY DEF Frame
<1>6. Files \subseteq Frame
  BY DEF Frame
<1>7. CASE BeginLate(w)
  BY <1>4, <1>5, <1>7 DEF BeginLate
<1>8. CASE BeginLast(w)
  BY <1>4, <1>5, <1>8 DEF BeginLast
<1>9. CASE BeginAnswer(w)
  BY <1>4, <1>5, <1>9 DEF BeginAnswer
<1>10. CASE \E f \in Files : BeginFile(w, f)
  BY <1>4, <1>6, <1>10 DEF BeginFile
<1> QED
  BY <1>1, <1>2, <1>3, <1>7, <1>8, <1>9, <1>10 DEF Works

\* A step of the sockets is a step of the mailbox, or is not seen in it.
LEMMA StepIsBoxStep ==
  ASSUME IInv, IInv', [Next]_vars
  PROVE  Box!BoxNext \/ UNCHANGED Box!box
<1>1. CASE \E c \in Client : \E m \in Message : Ask(c, m)
  BY <1>1, AskPosts DEF Box!BoxNext
<1>2. CASE \E c \in Client : Put(c)
  BY <1>2, PutUnseen DEF Box!BoxNext
<1>3. CASE \E c \in Client : Get(c)
  <2>1. PICK c \in Client : Get(c)
    BY <1>3
  <2>2. HearsNext(c)
    BY <2>1, GetKeeps
  <2> QED
    BY <2>1, <2>2, GetDelivers DEF Box!BoxNext
<1>4. CASE \E c \in Client : GetEnd(c)
  BY <1>4, GetEndGarbles DEF Box!BoxNext
<1>5. CASE \E c \in Client : Die(c)
  BY <1>5, DieDies DEF Box!BoxNext
<1>6. CASE Manager
  BY <1>6, ManagerTakes DEF Box!BoxNext
<1>7. CASE \E w \in Worker : Works(w)
  BY <1>7, WorksReplies
<1>8. CASE UNCHANGED vars
  <2>1. \A d \in Client : (Alive(d)' <=> Alive(d)) /\ View(d)' = View(d)
    BY <1>8, HeldKept DEF vars, Alive, View, Answered
  <2> QED
    BY <1>8, <2>1, Unseen DEF vars
<1> QED
  BY <1>1, <1>2, <1>3, <1>4, <1>5, <1>6, <1>7, <1>8 DEF Next, GoesOn

\* At first the mailbox is empty.
LEMMA InitIsBoxInit == Init => Box!BoxInit
<1> SUFFICES ASSUME Init PROVE Box!BoxInit
  OBVIOUS
<1>1. \A c \in Client : cl[c].pc = "idle" /\ told[c] = <<>> /\ heard[c] = <<>>
  BY DEF Init, NewClient
<1>2. Asks = [c \in Client |-> NoAsk] /\ Gone = {}
  BY <1>1 DEF Asks, AbstractAsk, NoAsk, Gone, Alive
<1>3. /\ IfAlive(told) = [c \in Client |-> <<>>]
      /\ IfAlive(heard) = [c \in Client |-> <<>>]
  BY <1>1 DEF IfAlive, Alive
<1>4. ended = FALSE
  BY DEF Init
<1> QED
  BY <1>2, <1>3, <1>4 DEF Box!BoxInit, Box!Idle, Asks, Gone, NoAsk

(***************************************************************************)
(* Every behaviour of the sockets, however read and write cut what they    *)
(* are given, is one of the mailbox: a request is taken as it was posted,  *)
(* and its answer heard as it was told (conn.c, util.c, server.c:174-211). *)
(***************************************************************************)
THEOREM SocketsImplementMailbox == Spec => ImplementsMailbox
<1>1. Init => Box!BoxInit
  BY InitIsBoxInit
<1>2. IInv /\ IInv' /\ [Next]_vars => [Box!BoxNext]_(Box!box)
  BY StepIsBoxStep
<1> QED
  BY <1>1, <1>2, Invariance, PTL DEF Spec, ImplementsMailbox, Box!BoxSpec
==============================================================================
