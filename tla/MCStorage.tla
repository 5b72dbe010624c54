------------------------------ MODULE MCStorage ------------------------------
(***************************************************************************)
(* Constants for TLC: up to four paths, one of them a prefix of another.   *)
(***************************************************************************)
EXTENDS StorageProperties, TLC

CONSTANTS Short, Long, Other, Fourth  \* "/d/a", "/d/ab", "/d/c" and "/d/d"

OnePath == {Other}
TwoPaths == {Short, Other}
ThreePaths == {Short, Long, Other}
FourPaths == {Short, Long, Other, Fourth}

ExactMatches == {<<p, p>> : p \in Path}
PrefixMatches == ExactMatches \cup {<<Long, Short>>}

\* Operations of the runs that leave some out.
Creating == {"create", "append", "close"}
NoReadN == AllOps \ {"readN"}

Sym == Permutations(Client) \cup Permutations(Worker)

==============================================================================
