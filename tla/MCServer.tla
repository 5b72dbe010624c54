------------------------------- MODULE MCServer -------------------------------
(***************************************************************************)
(* Constants for TLC.                                                      *)
(***************************************************************************)
EXTENDS ServerProperties, TLC

NoSignals == {}
AllSignals == {"HUP", "INT"}
HupOnly == {"HUP"}

WorkerSym == Permutations(Worker)
Sym == Permutations(Client) \cup Permutations(Worker)
==============================================================================
