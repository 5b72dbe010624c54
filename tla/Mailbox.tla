-------------------------------- MODULE Mailbox --------------------------------
(***************************************************************************)
(* What the sockets promise, and what RequestServer and Deployment take    *)
(* for granted: a request is handed over as a whole or not at all, and the *)
(* frames of its answer arrive whole, in order and none twice, unless one  *)
(* of the two ends has died.                                               *)
(***************************************************************************)
EXTENDS Sequences, Naturals

CONSTANTS
  Client,
  Message,    \* what clients send
  Frame,      \* what workers answer, a frame at a time
  Last(_, _)  \* Last(m, f): f is the last frame of an answer to m

VARIABLES
  ask,        \* ask[c]: the client's request, and how far it has come
  told,       \* told[c]: the frames of its answer, as they were sent
  heard,      \* heard[c]: and as they were received
  gone,       \* the clients that have died
  ended       \* the server has died

box == <<ask, told, heard, gone, ended>>

Idle == [state |-> "idle", msg |-> <<>>]

BoxInit ==
  /\ ask = [c \in Client |-> Idle]
  /\ told = [c \in Client |-> <<>>]
  /\ heard = [c \in Client |-> <<>>]
  /\ gone = {}
  /\ ended = FALSE

Post(c, m) ==
  /\ c \notin gone
  /\ ask[c].state = "idle"
  /\ ask' = [ask EXCEPT ![c] = [state |-> IF ended THEN "lost" ELSE "posted", msg |-> m]]
  /\ told' = [told EXCEPT ![c] = <<>>]
  /\ heard' = [heard EXCEPT ![c] = <<>>]
  /\ UNCHANGED <<gone, ended>>

Take(c) ==
  /\ ~ended
  /\ ask[c].state = "posted"
  /\ ask' = [ask EXCEPT ![c].state = "taken"]
  /\ UNCHANGED <<told, heard, gone, ended>>

Reply(c, f) ==
  /\ ~ended
  /\ ask[c].state = "taken"
  /\ told' = [told EXCEPT ![c] = Append(@, f)]
  /\ UNCHANGED <<ask, heard, gone, ended>>

Deliver(c) ==
  /\ c \notin gone
  /\ Len(heard[c]) < Len(told[c])
  /\ LET f == told[c][Len(heard[c]) + 1] IN
     /\ heard' = [heard EXCEPT ![c] = Append(@, f)]
     /\ ask' = IF Last(ask[c].msg, f) THEN [ask EXCEPT ![c] = Idle] ELSE ask
  /\ UNCHANGED <<told, gone, ended>>

\* Of what becomes of the request of a client that has died, nothing is
\* said, nor of the last answer of a server that has.
Die(c) ==
  /\ gone' = gone \cup {c}
  /\ ask' = [ask EXCEPT ![c] = Idle]
  /\ told' = [told EXCEPT ![c] = <<>>]
  /\ heard' = [heard EXCEPT ![c] = <<>>]
  /\ UNCHANGED ended

End ==
  /\ ended' = TRUE
  /\ ask' = [c \in Client |-> IF ask[c].state = "idle" THEN Idle
                              ELSE [ask[c] EXCEPT !.state = "lost"]]
  /\ UNCHANGED <<told, heard, gone>>

Garbled(c) ==
  /\ ask[c].state = "lost" /\ c \notin gone
  /\ ask' \in {ask, [ask EXCEPT ![c] = Idle]}
  /\ \A d \in Client \ {c} : heard'[d] = heard[d]
  /\ UNCHANGED <<told, gone, ended>>

BoxNext ==
  \/ End
  \/ \E c \in Client :
       \/ \E m \in Message : Post(c, m)
       \/ \E f \in Frame : Reply(c, f)
       \/ Take(c) \/ Deliver(c) \/ Die(c) \/ Garbled(c)

BoxSpec == BoxInit /\ [][BoxNext]_box
==============================================================================
