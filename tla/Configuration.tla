---------------------------- MODULE Configuration ----------------------------
(***************************************************************************)
(* The server's start-up: its command line, and the configuration file it  *)
(* reads line by line (includes/configuration.c).  What comes out of it    *)
(* are the constants of the other modules: N_THREAD workers, N_FILE and    *)
(* MEM_SIZE of the storage, and the name of the socket.                    *)
(*                                                                         *)
(* A line is what strtok_r makes of it: which key its first word begins    *)
(* with, and its second word.  The word keeps the newline when nothing     *)
(* follows it on the line; a number that does is not a number to strtol's  *)
(* caller, and a name that does is a name with a newline at its end.       *)
(* Numbers are read as long and stored as int: both widths are constants,  *)
(* so that TLC can work with small ones.                                   *)
(***************************************************************************)
EXTENDS Integers, Sequences

CONSTANTS
  ConfigFiles,  \* the configuration files: sequences of lines
  HalfInt,      \* 2^31: an int is in -HalfInt .. HalfInt - 1
  LongMax,      \* 2^63 - 1, where strtol saturates
  Default,      \* what the code falls back to: a value for every key
  NoName        \* the null pointer of a name not read yet

NumberKeys == {"N_THREAD", "N_FILE", "MEM_SIZE"}
NameKeys == {"SOCKNAME", "LOGFILE"}

\* How ./server was called: with -F and a file that opens, with -F and one
\* that does not, with another option, without any option.
CommandLines == {"-F file", "-F missing", "-x", "none"}

Line == [key   : NumberKeys \cup NameKeys \cup {"other", "blank"},
         kind  : {"none", "comment", "word", "number"},  \* the second word
         value : Int,                                    \* of a number
         ends  : BOOLEAN]                                \* the newline follows it

ASSUME ConfigurationAssumption ==
  /\ HalfInt \in Nat \ {0}
  /\ LongMax \in Nat
  /\ \A k \in NumberKeys : Default[k] \in 1 .. HalfInt - 1
  /\ ConfigFiles \subseteq Seq(Line)

VARIABLES
  command,  \* how the server was called
  lines,    \* the configuration file
  at,       \* the line fgets reads next
  cfg,      \* config_t
  boot      \* "command", "reading", "configured", "exit" or "crash"

configuration == <<command, lines, at, cfg, boot>>

\* config_t before the first line is read.
Blank == [N_THREAD |-> 0, N_FILE |-> 0, MEM_SIZE |-> 0,
          SOCKNAME |-> NoName, LOGFILE |-> NoName]

ConfigInit ==
  /\ command \in CommandLines
  /\ lines \in ConfigFiles
  /\ at = 1
  /\ cfg = Blank
  /\ boot = "command"

\* Without an option the file is never opened, and fgets reads from NULL.
ReadCommand ==
  /\ boot = "command"
  /\ boot' = CASE command = "-F file" -> "reading"
               [] command = "none"    -> "crash"
               [] OTHER               -> "exit"
  /\ UNCHANGED <<command, lines, at, cfg>>

\* strtol stops at the widest long.
Strtol(n) == IF n > LongMax THEN LongMax ELSE IF n < -LongMax - 1 THEN -LongMax - 1 ELSE n

\* (int) number
ToInt(n) == ((n + HalfInt) % (2 * HalfInt)) - HalfInt

IsNumber(l) == l.kind = "number" /\ ~l.ends

\* Faulty variant: a number below 1 is taken as it stands.
NumberOfUnchecked(l) ==
  IF IsNumber(l) THEN ToInt(Strtol(l.value)) ELSE Default[l.key]

NumberOf(l) ==
  IF IsNumber(l) /\ Strtol(l.value) >= 1 THEN ToInt(Strtol(l.value)) ELSE Default[l.key]

NameOf(l) ==
  IF l.kind \in {"none", "comment"} THEN Default[l.key] ELSE [word |-> l.value, ends |-> l.ends]

\* A line without a first word, or a number's key without a second, is a
\* null pointer to strncmp and strtol.
Unreadable(l) == l.key = "blank" \/ (l.key \in NumberKeys /\ l.kind = "none")

ReadLine ==
  LET l == lines[at] IN
  /\ boot = "reading"
  /\ at <= Len(lines)
  /\ \/ /\ Unreadable(l)
        /\ boot' = "crash"
        /\ UNCHANGED <<at, cfg>>
     \/ /\ ~Unreadable(l)
        /\ at' = at + 1
        /\ cfg' = CASE l.key \in NumberKeys -> [cfg EXCEPT ![l.key] = NumberOf(l)]
                    [] l.key \in NameKeys   -> [cfg EXCEPT ![l.key] = NameOf(l)]
                    [] OTHER                -> cfg
        /\ UNCHANGED boot
  /\ UNCHANGED <<command, lines>>

Missing(k) == cfg[k] = Blank[k]

\* What no line gave, and what narrowing made 0, gets its default.
EndOfFile ==
  /\ boot = "reading"
  /\ at > Len(lines)
  /\ cfg' = [k \in DOMAIN cfg |-> IF Missing(k) THEN Default[k] ELSE cfg[k]]
  /\ boot' = "configured"
  /\ UNCHANGED <<command, lines, at>>

ConfigNext == ReadCommand \/ ReadLine \/ EndOfFile

ConfigSpec == ConfigInit /\ [][ConfigNext]_configuration

(***************************************************************************)
(* What the other modules assume of the constants they get from here.      *)
(***************************************************************************)
Configured == boot = "configured"

\* The last line that names k: an earlier one has no effect, even if it was
\* good and the last is not.
Naming(k) == {i \in 1 .. Len(lines) : lines[i].key = k}
Deciding(k) == {i \in Naming(k) : \A j \in Naming(k) : j <= i}

\* A server that comes up has at least one thread, one file slot and one
\* byte (the assumptions of the storage and the queue), or its last line
\* for that key has a number that does not fit an int (configuration.c:62).
PositiveUnlessTooWide ==
  Configured =>
    \A k \in NumberKeys :
      cfg[k] < 1 => \E i \in Deciding(k) : IsNumber(lines[i]) /\ lines[i].value >= HalfInt
=============================================================================
