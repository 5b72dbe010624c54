------------------------------ MODULE MCTransport ------------------------------
(***************************************************************************)
(* Constants for TLC.                                                      *)
(***************************************************************************)
EXTENDS TransportProperties

Text(t) == [text |-> t, content |-> <<>>]

\* readFile, readNFiles and appendToFile of the file 21.
Requests == {Text(<<READ, 21>>), Text(<<READN, 1>>),
             [text |-> <<APPEND, 21, 2>>, content |-> <<31, 32>>]}

\* Two files, one of them empty.
TwoFiles == {[text |-> <<FILE, 21, 2>>, content |-> <<31, 32>>],
             [text |-> <<FILE, 22, 0>>, content |-> <<>>]}

==============================================================================
