----------------------------- MODULE MCDeployment -----------------------------
(***************************************************************************)
(* Constants for TLC.                                                      *)
(***************************************************************************)
EXTENDS DeploymentProperties

\* The widths of int and long, scaled down: 2^3 and 2^5 values.
SmallHalfInt == 4
SmallLongMax == 15

Name(w) == [word |-> w, ends |-> FALSE]

Defaults == [N_THREAD |-> 1, N_FILE |-> 3, MEM_SIZE |-> 2,
             SOCKNAME |-> Name(0), LOGFILE |-> Name(0)]

NoLine(k) == [key |-> k, kind |-> "none", value |-> 0, ends |-> TRUE]
Comment(k) == [key |-> k, kind |-> "comment", value |-> 0, ends |-> FALSE]
Word(k, ends) == [key |-> k, kind |-> "word", value |-> 1, ends |-> ends]
Number(k, n, ends) == [key |-> k, kind |-> "number", value |-> n, ends |-> ends]

\* A number below 1, one that fits, one that turns negative, one that turns
\* 0, and one too long for long.
Numbers == {-1, 0, 2, 5, 8, 20}

Lines ==
  {NoLine("blank"), Comment("other")}
  \cup {NoLine(k) : k \in {"N_THREAD", "SOCKNAME"}}
  \cup {Comment(k) : k \in {"N_FILE", "SOCKNAME", "LOGFILE"}}
  \cup {Word("SOCKNAME", e) : e \in BOOLEAN} \cup {Word("N_FILE", FALSE)}
  \cup {Number("N_FILE", n, e) : n \in Numbers, e \in BOOLEAN}
  \cup {Number("N_THREAD", n, FALSE) : n \in Numbers}
  \cup {Number("MEM_SIZE", n, TRUE) : n \in Numbers}

ShortFiles == {<<>>} \cup {<<l>> : l \in Lines} \cup {<<l, m>> : l, m \in Lines}

UsualSocket == [word |-> 1, ends |-> FALSE]

\* d holds the directory e and the file a, e holds b.
SmallTree == [d |-> <<".", "e", "a">>, e |-> <<".", "b">>] @@ ("." :> <<>>)
Dots == {"."}
AllPaths == {"a", "b", "c"}
Exact == {<<p, p>> : p \in AllPaths}
ByteLengths == [p \in AllPaths |-> CASE p = "a" -> 1 [] p = "b" -> 2 [] p = "c" -> 3]

Task(k, paths, dir, n) == [kind |-> k, paths |-> paths, dir |-> dir, n |-> n]

SomeCommands ==
  { <<Task("W", <<"c">>, "d", 0)>>,
    <<Task("w", <<>>, "d", 0)>>,
    <<Task("w", <<>>, "d", 1)>>,
    <<Task("R", <<>>, "d", 0), Task("r", <<"a", "b">>, "d", 0)>>,
    <<Task("bad", <<>>, "d", 0)>> }

\* The servers of the users have their socket and, as config.txt and by
\* default, one worker; those who only write may have two.
UsualCrowd ==
  {<<<<Word("SOCKNAME", FALSE)>>, k>> : k \in SomeCommands}
  \cup {<<<<Number("N_THREAD", 2, FALSE), Word("SOCKNAME", FALSE)>>, k>> :
          k \in {l \in SomeCommands : l[1].kind = "W"}}
==============================================================================
