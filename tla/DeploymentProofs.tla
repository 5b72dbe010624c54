--------------------------- MODULE DeploymentProofs ---------------------------
(***************************************************************************)
(* A server from its configuration file to its end, and the users it has,  *)
(* for every set of files, users, command lines and descriptors.           *)
(***************************************************************************)
EXTENDS DeploymentProperties, FiniteSetTheorems, SequenceTheorems, WellFoundedInduction, TLAPS

(***************************************************************************)
(* What the configuration gives the other modules, for every file and      *)
(* whatever the widths of int and long.                                    *)
(***************************************************************************)

\* A number that fits an int survives the cast.
LEMMA ToIntFits ==
  ASSUME ConfigurationAssumption, NEW n \in 0 .. HalfInt - 1
  PROVE  ToInt(n) = n
<1>1. n + HalfInt \in 0 .. 2 * HalfInt - 1 /\ 2 * HalfInt \in Nat \ {0}
  BY DEF ConfigurationAssumption
<1>2. \A a \in Nat, b \in Nat \ {0} : a < b => a % b = a
  OBVIOUS
<1>3. (n + HalfInt) % (2 * HalfInt) = n + HalfInt
  BY <1>1, <1>2
<1> QED
  BY <1>3 DEF ToInt, ConfigurationAssumption

TooWide(l) == IsNumber(l) /\ l.value >= HalfInt

\* What a line gives is positive, or too wide for an int.
LEMMA NumberPositive ==
  ASSUME ConfigurationAssumption, NEW l \in Line, l.key \in NumberKeys, NumberOf(l) < 1
  PROVE  TooWide(l)
<1>1. Default[l.key] \in 1 .. HalfInt - 1 /\ HalfInt \in Nat /\ LongMax \in Nat
  BY DEF ConfigurationAssumption
<1>2. IsNumber(l) /\ Strtol(l.value) >= 1
  BY <1>1 DEF NumberOf
<1>3. l.value \in Int
  BY DEF Line
<1>4. l.value >= Strtol(l.value)
  BY <1>1, <1>2, <1>3 DEF Strtol
<1>5. CASE l.value < HalfInt
  <2>1. Strtol(l.value) \in 1 .. HalfInt - 1
    BY <1>1, <1>2, <1>3, <1>4, <1>5 DEF Strtol
  <2>2. NumberOf(l) = Strtol(l.value)
    BY <1>2, <2>1, ToIntFits DEF NumberOf
  <2> QED
    BY <2>1, <2>2
<1> QED
  BY <1>1, <1>2, <1>3, <1>5 DEF TooWide

\* While lines are read, a number that is not positive comes from the last
\* line that named it, or no line has named it yet.
From(k) ==
  \/ \A j \in 1 .. at - 1 : lines[j].key # k
  \/ \E i \in 1 .. at - 1 : /\ lines[i].key = k /\ TooWide(lines[i])
                            /\ \A j \in 1 .. at - 1 : lines[j].key = k => j <= i

ConfigInv ==
  /\ lines \in Seq(Line)
  /\ at \in 1 .. Len(lines) + 1
  /\ boot = "configured" => at = Len(lines) + 1
  /\ DOMAIN cfg = DOMAIN Blank
  /\ \A k \in NumberKeys :
       /\ cfg[k] \in Int
       /\ cfg[k] < 1 => From(k)
       /\ boot = "configured" => cfg[k] # 0
       /\ cfg[k] < 0 => \E j \in 1 .. at - 1 : lines[j].key = k

\* The invariant holds before the first line is read.
LEMMA ConfigInit1 == ASSUME ConfigurationAssumption, ConfigInit PROVE ConfigInv
BY DEF ConfigurationAssumption, ConfigInit, ConfigInv, Blank, NumberKeys, From

\* The parser's result is an integer.
LEMMA NumberType ==
  ASSUME ConfigurationAssumption, NEW l \in Line, l.key \in NumberKeys
  PROVE  NumberOf(l) \in Int
<1>1. /\ Default[l.key] \in Int /\ HalfInt \in Nat \ {0} /\ LongMax \in Nat /\ l.value \in Int
  BY DEF ConfigurationAssumption, Line
<1>2. Strtol(l.value) \in Int
  BY <1>1 DEF Strtol
<1>3. \A a \in Int, b \in Nat \ {0} : a % b \in Int
  OBVIOUS
<1>4. ToInt(Strtol(l.value)) \in Int
  <2>1. Strtol(l.value) + HalfInt \in Int /\ 2 * HalfInt \in Nat \ {0}
    BY <1>1, <1>2
  <2>2. (Strtol(l.value) + HalfInt) % (2 * HalfInt) \in Int
    BY <1>3, <2>1
  <2> QED
    BY <1>1, <2>2 DEF ToInt
<1> QED
  BY <1>1, <1>4 DEF NumberOf

\* One step of the parser, one case per operation.
LEMMA ConfigStep ==
  ASSUME ConfigurationAssumption, ConfigInv, [ConfigNext]_configuration
  PROVE  ConfigInv'
<1> USE DEF ConfigInv
<1>1. CASE ReadCommand
  <2>1. boot' # "configured"
    BY <1>1 DEF ReadCommand
  <2>2. UNCHANGED <<lines, at, cfg>>
    BY <1>1 DEF ReadCommand
  <2>3. ASSUME NEW k \in NumberKeys
        PROVE  /\ cfg'[k] \in Int
               /\ cfg'[k] < 1 => From(k)'
               /\ cfg'[k] < 0 => \E j \in 1 .. at' - 1 : lines'[j].key = k
    <3>1. From(k)' = From(k)
      BY <2>2 DEF From, TooWide, IsNumber
    <3> QED
      BY <2>2, <3>1
  <2> QED
    BY <2>1, <2>2, <2>3
<1>2. CASE ReadLine
  <2> DEFINE l == lines[at]
  <2>1. l \in Line /\ at \in 1 .. Len(lines) /\ lines' = lines /\ boot = "reading"
    BY <1>2 DEF ReadLine
  <2>2. CASE Unreadable(l)
    BY <1>2, <2>2 DEF ReadLine, From
  <2>3. CASE ~Unreadable(l)
    <3>1. at' = at + 1 /\ boot' = boot
      BY <1>2, <2>3 DEF ReadLine
    <3>0. /\ l.key \in NumberKeys => cfg' = [cfg EXCEPT ![l.key] = NumberOf(l)]
          /\ l.key \notin NumberKeys =>
               cfg' = cfg \/ cfg' = [cfg EXCEPT ![l.key] = NameOf(l)]
      BY <1>2, <2>3 DEF ReadLine, NumberKeys, NameKeys
    <3>2. DOMAIN cfg' = DOMAIN cfg
      BY <1>2, <2>3 DEF ReadLine
    <3>3. ASSUME NEW k \in NumberKeys
          PROVE  /\ cfg'[k] \in Int
                 /\ cfg'[k] < 1 => From(k)'
                 /\ cfg'[k] < 0 => \E j \in 1 .. at' - 1 : lines'[j].key = k
      <4>1. CASE l.key = k
        <5>1. cfg'[k] = NumberOf(l)
          <6>1. cfg' = [cfg EXCEPT ![l.key] = NumberOf(l)]
            BY <3>0, <4>1
          <6>2. k \in DOMAIN cfg
            BY DEF Blank, NumberKeys
          <6> HIDE DEF l
          <6> QED
            BY <4>1, <6>1, <6>2
        <5>2. cfg'[k] < 1 => TooWide(l)
          BY <2>1, <4>1, <5>1, NumberPositive
        <5>3. cfg'[k] < 1 => From(k)'
          BY <2>1, <3>1, <4>1, <5>2 DEF From, TooWide, IsNumber
        <5> QED
          BY <2>1, <3>1, <4>1, <5>1, <5>3, NumberType
      <4>2. CASE l.key # k
        <5>1. cfg'[k] = cfg[k]
          <6>1. k \in DOMAIN cfg
            BY DEF Blank, NumberKeys
          <6> HIDE DEF l
          <6> QED
            BY <3>0, <4>2, <6>1
        <5>2. From(k) => From(k)'
          BY <2>1, <3>1, <4>2 DEF From, TooWide, IsNumber
        <5>3. cfg[k] \in Int /\ (cfg[k] < 1 => From(k))
          OBVIOUS
        <5>4. (\E j \in 1 .. at - 1 : lines[j].key = k)
                => (\E j \in 1 .. at' - 1 : lines'[j].key = k)
          BY <2>1, <3>1
        <5>5. cfg[k] < 0 => \E j \in 1 .. at - 1 : lines[j].key = k
          OBVIOUS
        <5> QED
          BY <5>1, <5>2, <5>3, <5>4, <5>5
      <4> QED
        BY <4>1, <4>2
    <3> QED
      BY <2>1, <3>1, <3>2, <3>3
  <2> QED
    BY <2>2, <2>3
<1>3. CASE EndOfFile
  <2>1. /\ UNCHANGED <<lines, at>> /\ at = Len(lines) + 1 /\ boot' = "configured"
        /\ cfg' = [k \in DOMAIN cfg |-> IF Missing(k) THEN Default[k] ELSE cfg[k]]
    BY <1>3 DEF EndOfFile
  <2>2. ASSUME NEW k \in NumberKeys
        PROVE  /\ cfg'[k] \in Int
               /\ cfg'[k] < 1 => cfg'[k] = cfg[k]
               /\ cfg'[k] # 0
    <3>1. k \in DOMAIN cfg /\ Blank[k] = 0
      BY DEF Blank, NumberKeys
    <3>2. Default[k] \in 1 .. HalfInt - 1 /\ HalfInt \in Nat
      BY DEF ConfigurationAssumption
    <3> QED
      BY <2>1, <3>1, <3>2 DEF Missing
  <2>3. ASSUME NEW k \in NumberKeys
        PROVE  /\ cfg'[k] \in Int
               /\ cfg'[k] < 1 => From(k)'
               /\ cfg'[k] # 0
               /\ cfg'[k] < 0 => \E j \in 1 .. at' - 1 : lines'[j].key = k
    <3>1. From(k)' = From(k)
      BY <2>1 DEF From, TooWide, IsNumber
    <3> QED
      BY <2>1, <2>2, <3>1
  <2> QED
    BY <2>1, <2>3
<1>4. CASE UNCHANGED configuration
  BY <1>4 DEF configuration, From, TooWide, IsNumber
<1> QED
  BY <1>1, <1>2, <1>3, <1>4 DEF ConfigNext

\* At the end of the file the invariant says what the other modules want.
LEMMA ConfigResult == ConfigInv => PositiveUnlessTooWide
<1> SUFFICES ASSUME ConfigInv, Configured, NEW k \in NumberKeys, cfg[k] < 1
             PROVE  \E i \in Deciding(k) : IsNumber(lines[i]) /\ lines[i].value >= HalfInt
  BY DEF PositiveUnlessTooWide
<1>1. From(k) /\ cfg[k] < 0 /\ at - 1 = Len(lines)
  BY DEF ConfigInv, Configured
<1>2. PICK i \in 1 .. Len(lines) : /\ lines[i].key = k /\ TooWide(lines[i])
                                   /\ \A j \in 1 .. Len(lines) : lines[j].key = k => j <= i
  BY <1>1 DEF From, ConfigInv
<1> QED
  BY <1>2 DEF Deciding, Naming, TooWide

\* configuration.c:54-134: whatever the file, a server that comes up has at
\* least one thread, one file slot and one byte, unless the last line for
\* one of them has a number too wide for an int.
THEOREM ConfigurationCorrect == ConfigSpec => []PositiveUnlessTooWide
<1>1. ConfigInit => ConfigInv
  BY ConfigInit1, ConfigurationAssumption
<1>2. ConfigInv /\ [ConfigNext]_configuration => ConfigInv'
  BY ConfigStep, ConfigurationAssumption
<1> QED
  BY <1>1, <1>2, ConfigResult, PTL DEF ConfigSpec

(***************************************************************************)
(* The configuration of a server that may be started again.                *)
(***************************************************************************)

\* Every step of a deployment that touches the configuration is one of the
\* parser, or a new start with the same file.
LEMMA ConfigurationSteps ==
  [Next]_vars => [ConfigNext]_configuration \/ Restart
BY DEF Next, vars, Configure, BootFails, ThreadsFail, Bind, BindFails, Listen, Signal, End,
       ReadListener, ReadEnd, Gone, Serve, Leave, CloseFd, Arrive, Accept, Step, Unaccepted

\* A new start reads the same file from its first line.
LEMMA RestartKeepsConfig ==
  ASSUME ConfigurationAssumption, ConfigInv, Restart
  PROVE  ConfigInv'
<1>1. lines' = lines /\ at' = 1 /\ cfg' = Blank /\ boot' = "command"
  BY DEF Restart
<1>2. Len(lines) \in Nat
  BY DEF ConfigInv
<1>3. \A k \in NumberKeys : cfg'[k] = 0 /\ From(k)'
  BY <1>1 DEF NumberKeys, Blank, From
<1> QED
  BY <1>1, <1>2, <1>3 DEF ConfigInv

\* server.c:40-75 with configuration.c: the same of a server that is started
\* again and again, whatever becomes of it and of its users.
THEOREM EveryStartConfigured == Spec => []PositiveUnlessTooWide
<1>1. Init => ConfigInv
  BY ConfigInit1, ConfigurationAssumption DEF Init
<1>2. ConfigInv /\ [Next]_vars => ConfigInv'
  BY ConfigStep, RestartKeepsConfig, ConfigurationSteps, ConfigurationAssumption
<1> QED
  BY <1>1, <1>2, ConfigResult, PTL DEF Spec

(***************************************************************************)
(* The name of the socket: the file determines it, so that every start     *)
(* asks bind for the same one.                                             *)
(***************************************************************************)

\* What the first n lines make of the name.
NameAfter(v, n) ==
  \/ v = NoName /\ \A j \in 1 .. n : lines[j].key # "SOCKNAME"
  \/ \E i \in 1 .. n : /\ v = NameOf(lines[i]) /\ lines[i].key = "SOCKNAME"
                       /\ \A j \in 1 .. n : lines[j].key = "SOCKNAME" => j <= i

Chosen(w) == \E v : /\ NameAfter(v, Len(lines))
                    /\ w = IF v = NoName THEN Default["SOCKNAME"] ELSE v

SocketInv ==
  /\ boot \in {"command", "reading"} => NameAfter(cfg.SOCKNAME, at - 1)
  /\ boot = "command" => at = 1
  /\ Configured => Chosen(cfg.SOCKNAME)
  /\ \/ bound = 0 /\ sockets = {}
     \/ bound = 1 /\ \E w : Chosen(w) /\ sockets = {w}

\* The lines determine the name.
LEMMA OneName ==
  ASSUME NEW v, NEW w, Chosen(v), Chosen(w), Len(lines) \in Nat
  PROVE  v = w
<1>1. ASSUME NEW x, NEW y, NameAfter(x, Len(lines)), NameAfter(y, Len(lines))
      PROVE  x = y
  BY <1>1 DEF NameAfter
<1> QED
  BY <1>1 DEF Chosen

\* The parser's steps keep the name that of the lines read so far.
LEMMA ParserKeepsName ==
  ASSUME ConfigInv, SocketInv, ConfigNext, UNCHANGED <<sockets, bound>>
  PROVE  SocketInv'
<1>0. /\ lines' = lines /\ Len(lines) \in Nat /\ at \in 1 .. Len(lines) + 1
      /\ \A v, n : NameAfter(v, n)' <=> NameAfter(v, n)
      /\ \A w : Chosen(w)' <=> Chosen(w)
  <2>1. lines' = lines /\ Len(lines) \in Nat /\ at \in 1 .. Len(lines) + 1
    <3>1. lines' = lines
      BY DEF ConfigNext, ReadCommand, ReadLine, EndOfFile
    <3> QED
      BY <3>1 DEF ConfigInv
  <2>2. \A v, n : NameAfter(v, n)' <=> NameAfter(v, n)
    BY <2>1 DEF NameAfter, NameOf
  <2> QED
    BY <2>1, <2>2 DEF Chosen
<1>1. CASE ReadCommand
  BY <1>0, <1>1 DEF ReadCommand, SocketInv, Configured
<1>2. CASE ReadLine
  <2> DEFINE l == lines[at]
  <2>1. boot = "reading" /\ at <= Len(lines) /\ NameAfter(cfg.SOCKNAME, at - 1)
    BY <1>2 DEF ReadLine, SocketInv
  <2>2. CASE Unreadable(l)
    BY <1>0, <1>2, <2>2 DEF ReadLine, SocketInv, Configured
  <2>3. CASE ~Unreadable(l)
    <3>1. at' = at + 1 /\ boot' = "reading"
      BY <1>2, <2>1, <2>3 DEF ReadLine
    <3>2. at' - 1 = at /\ at \in 1 .. at
      BY <1>0, <3>1
    <3>3. NameAfter(cfg'.SOCKNAME, at)
      <4>1. CASE l.key = "SOCKNAME"
        <5>1. cfg'.SOCKNAME = NameOf(l)
          <6>1. cfg' = [cfg EXCEPT !["SOCKNAME"] = NameOf(l)]
            BY <1>2, <2>3, <4>1 DEF ReadLine, NumberKeys, NameKeys
          <6>2. "SOCKNAME" \in DOMAIN cfg
            BY DEF ConfigInv, Blank
          <6> HIDE DEF l
          <6> QED
            BY <6>1, <6>2
        <5> QED
          BY <3>2, <4>1, <5>1 DEF NameAfter
      <4>2. CASE l.key # "SOCKNAME"
        <5>1. cfg'.SOCKNAME = cfg.SOCKNAME
          <6>1. \/ cfg' = cfg
                \/ \E v : cfg' = [cfg EXCEPT ![l.key] = v]
            BY <1>2, <2>3 DEF ReadLine
          <6>2. "SOCKNAME" \in DOMAIN cfg
            BY DEF ConfigInv, Blank
          <6> HIDE DEF l
          <6> QED
            BY <4>2, <6>1, <6>2
        <5>2. \A j \in 1 .. at : j \in 1 .. at - 1 \/ j = at
          BY <1>0
        <5>3. \A j \in 1 .. at - 1 : j \in 1 .. at
          BY <1>0
        <5> QED
          BY <2>1, <4>2, <5>1, <5>2, <5>3 DEF NameAfter
      <4> QED
        BY <4>1, <4>2
    <3> QED
      BY <1>0, <3>1, <3>2, <3>3 DEF SocketInv, Configured
  <2> QED
    BY <2>2, <2>3
<1>3. CASE EndOfFile
  <2>1. boot = "reading" /\ boot' = "configured" /\ at = Len(lines) + 1 /\ at - 1 = Len(lines)
    BY <1>0, <1>3 DEF EndOfFile
  <2>2. NameAfter(cfg.SOCKNAME, Len(lines))
    BY <2>1 DEF SocketInv
  <2>3. cfg'.SOCKNAME = IF cfg.SOCKNAME = NoName THEN Default["SOCKNAME"] ELSE cfg.SOCKNAME
    <3>1. "SOCKNAME" \in DOMAIN cfg /\ Blank["SOCKNAME"] = NoName
      BY DEF ConfigInv, Blank
    <3>2. cfg'["SOCKNAME"] = IF cfg["SOCKNAME"] = Blank["SOCKNAME"] THEN Default["SOCKNAME"]
                             ELSE cfg["SOCKNAME"]
      BY <1>3, <3>1 DEF EndOfFile, Missing
    <3> QED
      BY <3>1, <3>2
  <2>4. Chosen(cfg'.SOCKNAME)
    BY <2>2, <2>3 DEF Chosen
  <2> QED
    BY <1>0, <2>1, <2>4 DEF SocketInv, Configured
<1> QED
  BY <1>1, <1>2, <1>3 DEF ConfigNext

\* One step of a deployment.
LEMMA SocketStep ==
  ASSUME ConfigInv, SocketInv, [Next]_vars
  PROVE  SocketInv'
<1>0. Len(lines) \in Nat
  BY DEF ConfigInv
<1>1. CASE Configure
  BY <1>1, ParserKeepsName DEF Configure, deployment
<1>2. CASE Bind
  <2>1. /\ UNCHANGED configuration /\ Configured /\ cfg.SOCKNAME \notin sockets
        /\ sockets' = sockets \cup {cfg.SOCKNAME} /\ bound' = bound + 1
    BY <1>2 DEF Bind
  <2>2. /\ \A v, n : NameAfter(v, n)' <=> NameAfter(v, n)
        /\ \A w : Chosen(w)' <=> Chosen(w)
    BY <2>1 DEF configuration, NameAfter, Chosen, NameOf
  <2>3. Chosen(cfg.SOCKNAME)
    BY <2>1 DEF SocketInv
  <2>4. bound = 0 /\ sockets = {}
    BY <1>0, <2>1, <2>3, OneName DEF SocketInv
  <2> QED
    BY <2>1, <2>2, <2>3, <2>4 DEF SocketInv, configuration, Configured
<1>3. CASE Restart
  <2>1. /\ lines' = lines /\ at' = 1 /\ cfg' = Blank /\ boot' = "command"
        /\ UNCHANGED <<sockets, bound>>
    BY <1>3 DEF Restart
  <2>2. /\ \A v, n : NameAfter(v, n)' <=> NameAfter(v, n)
        /\ \A w : Chosen(w)' <=> Chosen(w)
    BY <2>1 DEF NameAfter, Chosen, NameOf
  <2>3. NameAfter(cfg'.SOCKNAME, at' - 1)
    BY <2>1 DEF NameAfter, Blank
  <2> QED
    BY <2>1, <2>2, <2>3 DEF SocketInv, Configured
<1>4. CASE UNCHANGED <<configuration, sockets, bound>>
  BY <1>4 DEF configuration, SocketInv, Configured, NameAfter, Chosen, NameOf
<1>5. Configure \/ Bind \/ Restart \/ UNCHANGED <<configuration, sockets, bound>>
  BY DEF Next, vars, deployment, BootFails, ThreadsFail, BindFails, Listen, Signal, End,
         ReadListener, ReadEnd, Gone, Serve, Leave, CloseFd, Arrive, Accept, Step, Unaccepted
<1> QED
  BY <1>1, <1>2, <1>3, <1>4, <1>5

\* server.c:101 and what nobody does, unlink: of all the servers started
\* with a configuration file, whatever it says, one at most ever listens.
THEOREM OneServerListens == Spec => []ListensOnlyOnce
<1>1. Init => ConfigInv /\ SocketInv
  <2> SUFFICES ASSUME Init PROVE ConfigInv /\ SocketInv
    OBVIOUS
  <2>1. ConfigInv
    BY ConfigInit1, ConfigurationAssumption DEF Init
  <2>2. NameAfter(cfg.SOCKNAME, at - 1)
    BY DEF Init, ConfigInit, Blank, NameAfter
  <2> QED
    BY <2>1, <2>2 DEF Init, ConfigInit, SocketInv, Configured
<1>2. ConfigInv /\ SocketInv /\ [Next]_vars => ConfigInv' /\ SocketInv'
  BY ConfigStep, RestartKeepsConfig, ConfigurationSteps, ConfigurationAssumption, SocketStep
<1>3. SocketInv => ListensOnlyOnce
  BY DEF SocketInv, ListensOnlyOnce
<1> QED
  BY <1>1, <1>2, <1>3, PTL DEF Spec

(***************************************************************************)
(* The users: types, and what every run of the client program knows.       *)
(***************************************************************************)
PCs == Calls \cup {"away", "backlog", "dispatch", "next", "walk", "ended", "exited"}

UserState ==
  [pc : PCs, sent : BOOLEAN, fd : Client \cup {NoClient}, task : Tasks \cup {NULL},
   tasks : Seq(Tasks), left : Seq(Path), frames : Seq(Seq(Entries)), n : Int,
   path : Path \cup {NULL}, tried : Seq(Path), lost : BOOLEAN, fooled : SUBSET Fooling]

TypeInv ==
  /\ user \in [User -> UserState]
  /\ connected \subseteq Client
  /\ failures \in [Client -> Nat]

\* The calls the server hears of.
Hello == Calls \ {"bye", "byeEarly"}

\* Whoever waits for an answer has a connection or has lost it; whoever was
\* fooled has lost it, sends nothing any more, or has come to an end.
UserOK(r) ==
  /\ r.sent => r.pc \in Calls
  /\ r.sent => r.fd # NoClient \/ r.lost
  /\ r.lost => r.fd = NoClient
  /\ r.fooled # {} => r.pc \in {"ended", "exited"} \/ (r.lost /\ ~r.sent)
  /\ r.pc = "ended" => r.fooled \subseteq {"bye"}

UsersInv ==
  /\ \A u \in User : user[u].fd \in connected \cup {NoClient} /\ UserOK(user[u])
  /\ \A u, v \in User : user[u].fd = user[v].fd /\ user[u].fd # NoClient => u = v

\* A request on a descriptor is that of the user the descriptor belongs to.
Asks(u, c) ==
  /\ user[u].fd = c /\ user[u].sent
  /\ user[u].pc \in Hello
  /\ asks[c].op = OpOf(user[u].pc)

AsksInv ==
  /\ DOMAIN asks = Client
  /\ \A c \in Client : /\ DOMAIN asks[c] = DOMAIN Table!NoAsk
                       /\ asks[c] # Table!NoAsk => \E u \in User : Asks(u, c)

(***************************************************************************)
(* The files left open.                                                    *)
(***************************************************************************)
Amid(r) ==
  \/ r.pc \in {"append", "closeW", "read", "closeR"}
  \/ r.pc \in {"create", "openW", "openR"} /\ r.sent

\* The user of d is between its open and its close of a file.
Mid(d) == IF \E u \in User : user[u].fd = d /\ Amid(user[u]) THEN 1 ELSE 0

\* The file is not open yet, or no more, although the user does not know.
Spare(a) ==
  IF \/ a.op \in {"create", "open"} /\ a.state \in {"pending", "ko"}
     \/ a.op = "close" /\ a.state = "ok"
  THEN 1 ELSE 0

OpenInv ==
  /\ IsFiniteSet(DOMAIN files)
  /\ \A f \in DOMAIN files : DOMAIN files[f] = {"path", "owner", "size", "written"}
  /\ \A d \in Client : Cardinality(Owned(d)) + Spare(asks[d]) <= failures[d] + Mid(d)

IInv == TypeInv /\ UsersInv /\ AsksInv /\ OpenInv

\* A set of numbers that is not empty has a least element.
LEMMA LeastIn ==
  ASSUME NEW B, \A x \in B : x \in Nat, B # {}
  PROVE  \E x \in B : \A y \in B : x <= y
<1>1. IsWellFoundedOn(OpToRel(<, Nat), Nat)
  BY NatLessThanWellFounded
<1>2. PICK x \in B : \A y \in B : ~ (<<y, x>> \in OpToRel(<, Nat))
  BY <1>1, WFMin
<1>3. \A y \in B : ~ (y < x)
  BY <1>2 DEF OpToRel
<1> QED
  BY <1>3

\* Which Min finds.
LEMMA LeastOf ==
  ASSUME NEW B, \A x \in B : x \in Nat, B # {}
  PROVE  Min(B) \in B
BY LeastIn DEF Min

\* The files of one owner are finite in number.
LEMMA OwnedFinite ==
  ASSUME IsFiniteSet(DOMAIN files), NEW d
  PROVE  IsFiniteSet(Owned(d)) /\ Cardinality(Owned(d)) \in Nat
<1>1. Owned(d) \subseteq DOMAIN files
  BY DEF Owned
<1> QED
  BY <1>1, FS_Subset, FS_CardinalityType

\* Fewer files of an owner are not more.
LEMMA OwnedLess ==
  ASSUME IsFiniteSet(DOMAIN files), NEW d, NEW S, S \subseteq Owned(d)
  PROVE  Cardinality(S) \in Nat /\ Cardinality(S) <= Cardinality(Owned(d))
<1>1. IsFiniteSet(Owned(d))
  BY OwnedFinite
<1> QED
  BY <1>1, FS_Subset, FS_CardinalityType

(***************************************************************************)
(* Steps of one user that leave the server alone.                          *)
(***************************************************************************)

\* What such a step has to keep: the user does not wait for the server, and
\* is not made to forget a file it has open.
LEMMA UserStep ==
  ASSUME IInv, NEW u \in User, NEW k \in UserState, Become(u, k),
         UNCHANGED <<files, asks, connected, failures>>,
         UserOK(k), k.fd \in {user[u].fd, NoClient},
         \A c \in Client : ~ Asks(u, c),
         user[u].fd # NoClient /\ Amid(user[u]) => k.fd = user[u].fd /\ Amid(k)
  PROVE  IInv'
<1>1. /\ user' = [user EXCEPT ![u] = k] /\ user \in [User -> UserState]
      /\ NoClient \notin Client
  BY SessionAssumption DEF Become, IInv, TypeInv
<1>2. user'[u] = k /\ \A v \in User : v # u => user'[v] = user[v]
  BY <1>1
<1>3. TypeInv'
  BY <1>1 DEF IInv, TypeInv
<1>4. UsersInv'
  <2>1. ASSUME NEW v \in User
        PROVE  user'[v].fd \in connected' \cup {NoClient} /\ UserOK(user'[v])
    <3>1. user[v].fd \in connected \cup {NoClient} /\ UserOK(user[v])
          /\ user[u].fd \in connected \cup {NoClient}
      BY DEF IInv, UsersInv
    <3> QED
      BY <1>2, <3>1
  <2>2. ASSUME NEW v \in User, NEW w \in User, user'[v].fd = user'[w].fd,
               user'[v].fd # NoClient
        PROVE  v = w
    <3>1. user'[v].fd = user[v].fd /\ user'[w].fd = user[w].fd
      BY <1>2, <2>2
    <3> QED
      BY <2>2, <3>1 DEF IInv, UsersInv
  <2> QED
    BY <2>1, <2>2 DEF UsersInv
<1>5. AsksInv'
  <2>1. ASSUME NEW c \in Client, asks'[c] # Table!NoAsk
        PROVE  \E v \in User : Asks(v, c)'
    <3>1. PICK v \in User : Asks(v, c)
      BY <2>1 DEF IInv, AsksInv
    <3>2. v # u
      BY <3>1
    <3> QED
      BY <1>2, <3>1, <3>2 DEF Asks
  <2> QED
    BY <2>1 DEF IInv, AsksInv
<1>6. OpenInv'
  <2>1. ASSUME NEW d \in Client
        PROVE  Cardinality(Owned(d)') + Spare(asks'[d]) <= failures'[d] + Mid(d)'
    <3>1. Owned(d)' = Owned(d) /\ asks'[d] = asks[d] /\ failures'[d] = failures[d]
      BY DEF Owned
    <3>2. Mid(d) <= Mid(d)'
      <4>1. ASSUME NEW v \in User, user[v].fd = d, Amid(user[v])
            PROVE  user'[v].fd = d /\ Amid(user'[v])
        BY <1>1, <1>2, <4>1
      <4> QED
        BY <4>1 DEF Mid
    <3>3. Cardinality(Owned(d)) + Spare(asks[d]) <= failures[d] + Mid(d)
      BY DEF IInv, OpenInv
    <3>4. /\ Cardinality(Owned(d)) \in Nat /\ Spare(asks[d]) \in Nat /\ failures[d] \in Nat
          /\ Mid(d) \in Nat /\ Mid(d)' \in Nat
      BY OwnedFinite DEF IInv, OpenInv, TypeInv, Spare, Mid
    <3> QED
      BY <3>1, <3>2, <3>3, <3>4
  <2> QED
    BY <2>1 DEF IInv, OpenInv
<1> QED
  BY <1>3, <1>4, <1>5, <1>6 DEF IInv

\* The record of a session that is over.
LEMMA OverFields ==
  ASSUME NEW r \in UserState, NEW pc \in {"ended", "exited"}
  PROVE  /\ Over(r, pc) \in UserState
         /\ Over(r, pc).fd = r.fd /\ Over(r, pc).fooled = r.fooled
         /\ Over(r, pc).pc = pc /\ ~ Over(r, pc).sent /\ ~ Over(r, pc).lost
         /\ ~ Amid(Over(r, pc))
<1>1. Away \in UserState
  <2>1. <<>> \in Seq(Tasks) /\ <<>> \in Seq(Path) /\ <<>> \in Seq(Seq(Entries))
    OBVIOUS
  <2> QED
    BY <2>1 DEF Away, UserState, PCs
<1>2. PICK a, d, o : a = Away /\ d = r.fd /\ o = r.fooled
  OBVIOUS
<1>3. a \in UserState /\ d \in Client \cup {NoClient} /\ o \in SUBSET Fooling /\ pc \in PCs
  BY <1>1, <1>2 DEF UserState, PCs
<1>4. /\ [a EXCEPT !.pc = pc, !.fd = d, !.fooled = o] \in UserState
      /\ [a EXCEPT !.pc = pc, !.fd = d, !.fooled = o].pc = pc
      /\ [a EXCEPT !.pc = pc, !.fd = d, !.fooled = o].fd = d
      /\ [a EXCEPT !.pc = pc, !.fd = d, !.fooled = o].fooled = o
      /\ [a EXCEPT !.pc = pc, !.fd = d, !.fooled = o].sent = a.sent
      /\ [a EXCEPT !.pc = pc, !.fd = d, !.fooled = o].lost = a.lost
  BY <1>3 DEF UserState
<1>5. ~ a.sent /\ ~ a.lost
  BY <1>2 DEF Away
<1> QED
  BY <1>2, <1>4, <1>5 DEF Over, Amid

\* Who has sent nothing, or is saying goodbye, or has no connection, has no
\* request on any descriptor.
LEMMA Silent ==
  ASSUME NEW u \in User,
         ~ user[u].sent \/ user[u].pc \in {"bye", "byeEarly"} \/ user[u].fd = NoClient
  PROVE  \A c \in Client : ~ Asks(u, c)
BY SessionAssumption DEF Asks, Hello

\* A step of the loops: the user has sent nothing before and after it.
LEMMA LoopStep ==
  ASSUME IInv, NEW u \in User, NEW k \in UserState, Become(u, k),
         UNCHANGED <<files, asks, connected, failures>>,
         ~ user[u].sent, ~ Amid(user[u]), user[u].pc \notin {"ended", "exited"},
         ~ k.sent, k.pc # "ended",
         k.fd = user[u].fd, k.lost = user[u].lost, k.fooled = user[u].fooled
  PROVE  IInv'
<1>1. UserOK(user[u])
  BY DEF IInv, UsersInv
<1>2. UserOK(k)
  BY <1>1 DEF UserOK
<1> QED
  BY <1>2, UserStep, Silent

\* exit.
LEMMA ExitStep ==
  ASSUME IInv, NEW u \in User, NEW r \in UserState, Become(u, Over(r, "exited")),
         UNCHANGED <<files, asks, connected, failures>>,
         r.fd = user[u].fd, ~ Amid(user[u]) \/ r.fd = NoClient,
         ~ user[u].sent \/ user[u].fd = NoClient
  PROVE  IInv'
<1> DEFINE k == Over(r, "exited")
<1>1. /\ k \in UserState /\ k.fd = r.fd /\ k.pc = "exited" /\ ~ k.sent /\ ~ k.lost
  BY OverFields
<1>2. UserOK(k)
  BY <1>1 DEF UserOK
<1>3. \A c \in Client : ~ Asks(u, c)
  BY Silent
<1>4. Become(u, k)
  OBVIOUS
<1> QED
  <2> HIDE DEF k
  <2> QED
    BY <1>1, <1>2, <1>3, <1>4, UserStep

\* A user's record has its type.
LEMMA Typed ==
  ASSUME IInv, NEW u \in User
  PROVE  user[u] \in UserState /\ UserOK(user[u])
BY DEF IInv, TypeInv, UsersInv

\* The loop over the options (client.c:144-149).
LEMMA DispatchKeeps ==
  ASSUME IInv, NEW u \in User, Dispatch(u)
  PROVE  IInv'
<1>1. PICK r : r = user[u] /\ r \in UserState /\ UserOK(r) /\ r.pc = "dispatch" /\ ~ r.sent
  BY Typed DEF Dispatch, Is, UserOK, Calls
<1>2. /\ UNCHANGED <<files, asks, connected, failures>>
      /\ ~ Amid(r)
  BY <1>1 DEF Dispatch, Amid
<1>3. CASE r.tasks = <<>>
  <2>1. PICK k : k = [r EXCEPT !.pc = "bye", !.task = NULL]
    OBVIOUS
  <2>2. /\ k \in UserState /\ k.pc = "bye" /\ ~ k.sent
        /\ k.fd = r.fd /\ k.lost = r.lost /\ k.fooled = r.fooled
    BY <1>1, <2>1 DEF UserState, PCs, Calls
  <2>3. Become(u, k)
    BY <1>1, <1>3, <2>1 DEF Dispatch
  <2> QED
    BY <1>1, <1>2, <2>2, <2>3, LoopStep
<1>4. CASE r.tasks # <<>>
  <2>1. PICK t, ts : t = Head(r.tasks) /\ ts = Tail(r.tasks)
    OBVIOUS
  <2>2. t \in Tasks /\ ts \in Seq(Tasks)
    BY <1>1, <1>4, <2>1 DEF UserState
  <2>3. PICK q : q = [r EXCEPT !.task = t, !.tasks = ts]
    OBVIOUS
  <2>4. /\ q \in UserState /\ ~ q.sent
        /\ q.fd = r.fd /\ q.lost = r.lost /\ q.fooled = r.fooled
    BY <1>1, <2>2, <2>3 DEF UserState
  <2>5. Become(u, Started(q, t))
    BY <1>1, <1>4, <2>1, <2>3 DEF Dispatch
  <2>6. CASE t.kind = "bad"
    <3>1. Started(q, t) = Over(q, "exited")
      BY <2>6 DEF Started
    <3> QED
      BY <1>1, <1>2, <2>4, <2>5, <3>1, ExitStep
  <2>7. CASE t.kind # "bad"
    <3>1. PICK k : k = Started(q, t)
      OBVIOUS
    <3>2. /\ k \in UserState /\ k.pc \in {"next", "walk", "readN"} /\ ~ k.sent
          /\ k.fd = q.fd /\ k.lost = q.lost /\ k.fooled = q.fooled
      <4>0. t.kind \in {"W", "w", "r", "R"} /\ t.paths \in Seq(Path) /\ t.dir \in DOMAIN Tree
            /\ t.n \in Int
        BY <2>2, <2>7 DEF Tasks, Kinds
      <4>1. CASE t.kind \in {"W", "r"}
        <5>1. k = [q EXCEPT !.pc = "next", !.left = t.paths]
          BY <3>1, <4>1 DEF Started
        <5> QED
          BY <2>4, <4>0, <5>1 DEF UserState, PCs
      <4>2. CASE t.kind = "w"
        <5>1. PICK f : f = <<Tree[t.dir]>>
          OBVIOUS
        <5>2. f \in Seq(Seq(Entries))
          BY <4>0, <5>1, SessionAssumption
        <5>0. <<>> \in Seq(Path)
          OBVIOUS
        <5>3. PICK e : e = <<>> /\ e \in Seq(Path)
          BY <5>0
        <5>4. k = [q EXCEPT !.pc = "walk", !.frames = f, !.n = t.n, !.tried = e]
          BY <3>1, <4>2, <5>1, <5>3 DEF Started
        <5> QED
          BY <2>4, <4>0, <5>2, <5>3, <5>4 DEF UserState, PCs
      <4>3. CASE t.kind = "R"
        <5>1. k = [q EXCEPT !.pc = "readN"]
          BY <3>1, <4>3 DEF Started
        <5> QED
          BY <2>4, <5>1 DEF UserState, PCs, Calls
      <4> QED
        BY <4>0, <4>1, <4>2, <4>3
    <3>3. Become(u, k)
      BY <2>5, <3>1
    <3> QED
      BY <1>1, <1>2, <2>4, <3>2, <3>3, LoopStep
  <2> QED
    BY <2>6, <2>7
<1> QED
  BY <1>3, <1>4

\* The loop over the files of -W and -r (client.c:195-277).
LEMMA NextFileKeeps ==
  ASSUME IInv, NEW u \in User, NextFile(u)
  PROVE  IInv'
<1>1. PICK r : r = user[u] /\ r \in UserState /\ UserOK(r) /\ r.pc = "next" /\ ~ r.sent
  BY Typed DEF NextFile, Is, UserOK, Calls
<1>2. /\ UNCHANGED <<files, asks, connected, failures>>
      /\ ~ Amid(r)
  BY <1>1 DEF NextFile, Amid
<1>3. PICK k : /\ Become(u, k) /\ k \in UserState /\ k.pc # "ended" /\ ~ k.sent
               /\ k.fd = r.fd /\ k.lost = r.lost /\ k.fooled = r.fooled
  <2>1. CASE r.left = <<>>
    <3>1. PICK k : k = [r EXCEPT !.pc = "dispatch"]
      OBVIOUS
    <3>2. Become(u, k)
      BY <1>1, <2>1, <3>1 DEF NextFile
    <3>3. /\ k \in UserState /\ k.pc # "ended" /\ ~ k.sent
          /\ k.fd = r.fd /\ k.lost = r.lost /\ k.fooled = r.fooled
      BY <1>1, <3>1 DEF UserState, PCs
    <3> QED
      BY <3>2, <3>3
  <2>2. CASE r.left # <<>>
    <3>1. PICK pc, p, l : /\ pc = IF r.task.kind = "W" THEN "create" ELSE "openR"
                          /\ p = Head(r.left) /\ l = Tail(r.left)
      OBVIOUS
    <3>2. pc \in {"create", "openR"} /\ p \in Path /\ l \in Seq(Path)
      BY <1>1, <2>2, <3>1 DEF UserState
    <3>3. PICK k : k = [r EXCEPT !.pc = pc, !.path = p, !.left = l]
      OBVIOUS
    <3>4. Become(u, k)
      BY <1>1, <2>2, <3>1, <3>3 DEF NextFile
    <3>5. /\ k \in UserState /\ k.pc # "ended" /\ ~ k.sent
          /\ k.fd = r.fd /\ k.lost = r.lost /\ k.fooled = r.fooled
      BY <1>1, <3>2, <3>3 DEF UserState, PCs, Calls
    <3> QED
      BY <3>4, <3>5
  <2> QED
    BY <2>1, <2>2
<1> QED
  BY <1>1, <1>2, <1>3, LoopStep

\* What the walk does to the entries still to come.
LEMMA Frames ==
  ASSUME NEW fs \in Seq(Seq(Entries)), fs # <<>>
  PROVE  /\ Front(fs) \in Seq(Seq(Entries)) /\ Last(fs) \in Seq(Entries)
         /\ Last(fs) # <<>> =>
              /\ Head(Last(fs)) \in Entries
              /\ Append(Front(fs), Tail(Last(fs))) \in Seq(Seq(Entries))
<1>1. Len(fs) \in Nat \ {0} /\ Len(fs) \in 1 .. Len(fs)
  OBVIOUS
<1>2. Front(fs) \in Seq(Seq(Entries)) /\ Last(fs) \in Seq(Entries)
  BY <1>1 DEF Front, Last
<1> QED
  BY <1>2

\* The loop of recDirectory over a directory (util_client.c:153-195).
LEMMA WalkKeeps ==
  ASSUME IInv, NEW u \in User, Walk(u)
  PROVE  IInv'
<1>1. PICK r : r = user[u] /\ r \in UserState /\ UserOK(r) /\ r.pc = "walk" /\ ~ r.sent
  BY Typed DEF Walk, Is, UserOK, Calls
<1>2. /\ UNCHANGED <<files, asks, connected, failures>>
      /\ ~ Amid(r)
  BY <1>1 DEF Walk, Amid
<1> DEFINE Good(k) == /\ k \in UserState /\ k.pc # "ended" /\ ~ k.sent
                      /\ k.fd = r.fd /\ k.lost = r.lost /\ k.fooled = r.fooled
<1>3. \E k : Become(u, k) /\ Good(k)
  <2>1. CASE r.frames = <<>>
    <3>1. PICK k : k = [r EXCEPT !.pc = "dispatch"]
      OBVIOUS
    <3>2. Become(u, k)
      BY <1>1, <2>1, <3>1 DEF Walk
    <3>3. Good(k)
      BY <1>1, <3>1 DEF UserState, PCs
    <3> QED
      BY <3>2, <3>3
  <2>2. CASE r.frames # <<>>
    <3>1. PICK fs : fs = r.frames /\ fs \in Seq(Seq(Entries)) /\ fs # <<>>
      BY <1>1, <2>2 DEF UserState
    <3>2. CASE Last(fs) = <<>> \/ (r.n < 1 /\ ~ All(r))
      <4>1. PICK k, f : k = [r EXCEPT !.frames = f] /\ f = Front(fs)
        OBVIOUS
      <4>2. Become(u, k)
        <5>1. Pop(r) = k
          BY <3>1, <4>1 DEF Pop
        <5>2. Become(u, Pop(r))
          <6>1. r.n \in Int
            BY <1>1 DEF UserState
          <6>2. ~ (Last(fs) # <<>> /\ (r.n >= 1 \/ All(r)))
            BY <3>2, <6>1
          <6> QED
            BY <1>1, <2>2, <3>1, <6>2 DEF Walk
        <5> QED
          BY <5>1, <5>2
      <4>3. Good(k)
        BY <1>1, <3>1, <4>1, Frames DEF UserState
      <4> QED
        BY <4>2, <4>3
    <3>3. CASE ~ (Last(fs) = <<>> \/ (r.n < 1 /\ ~ All(r)))
      <4>1. PICK e, f : e = Head(Last(fs)) /\ f = Append(Front(fs), Tail(Last(fs)))
        OBVIOUS
      <4>2. e \in Entries /\ f \in Seq(Seq(Entries))
        BY <3>1, <3>3, <4>1, Frames
      <4>3. PICK q : q = Past(r)
        OBVIOUS
      <4>4. q = [r EXCEPT !.frames = f]
        BY <3>1, <4>1, <4>3 DEF Past
      <4>5. Good(q) /\ q.frames = f /\ q.tried = r.tried
        BY <1>1, <4>2, <4>4 DEF UserState
      <4>6. Become(u, CASE e \in Dotted -> q
                        [] e \in Path   -> Attempt(q, e)
                        [] OTHER        -> Enter(q, e))
        BY <1>1, <2>2, <3>1, <3>3, <4>1, <4>3 DEF Walk
      <4>7. CASE Become(u, q)
        BY <4>5, <4>7
      <4>8. CASE e \in Path /\ Become(u, Attempt(q, e))
        <5>1. PICK n, t : n = (IF All(q) THEN q.n ELSE q.n - 1) /\ t = Append(q.tried, e)
          OBVIOUS
        <5>2. n \in Int /\ t \in Seq(Path)
          BY <4>5, <4>8, <5>1 DEF UserState
        <5>3. PICK k : k = [q EXCEPT !.pc = "create", !.path = e, !.n = n, !.tried = t]
          OBVIOUS
        <5>4. Become(u, k)
          BY <4>8, <5>1, <5>3 DEF Attempt, All
        <5>5. Good(k)
          BY <4>5, <4>8, <5>2, <5>3 DEF UserState, PCs, Calls
        <5> QED
          BY <5>4, <5>5
      <4>9. CASE e \notin Path /\ Become(u, Enter(q, e))
        <5>1. PICK g : g = Append(q.frames, Tree[e])
          OBVIOUS
        <5>2. g \in Seq(Seq(Entries))
          <6>1. e \in DOMAIN Tree
            BY <4>2, <4>9 DEF Entries
          <6>2. Tree[e] \in Seq(Entries)
            BY <6>1, SessionAssumption
          <6> QED
            BY <4>2, <4>5, <5>1, <6>2
        <5>3. PICK k : k = [q EXCEPT !.frames = g]
          OBVIOUS
        <5>4. Become(u, k)
          BY <4>9, <5>1, <5>3 DEF Enter
        <5>5. Good(k)
          BY <4>5, <5>2, <5>3 DEF UserState
        <5> QED
          BY <5>4, <5>5
      <4> QED
        BY <4>6, <4>7, <4>8, <4>9
    <3> QED
      BY <3>2, <3>3
  <2> QED
    BY <2>1, <2>2
<1>4. PICK k : Become(u, k) /\ Good(k)
  BY <1>3
<1> QED
  BY <1>1, <1>2, <1>4, LoopStep

\* closeConnection, answered.
LEMMA HangupKeeps ==
  ASSUME IInv, NEW u \in User, Hangup(u)
  PROVE  IInv'
<1>1. PICK q : q = user[u] /\ q \in UserState /\ UserOK(q) /\ q.sent /\ ~ q.lost
               /\ q.pc \in {"bye", "byeEarly"}
  BY Typed DEF Hangup
<1>2. /\ UNCHANGED <<files, asks, connected, failures>>
      /\ ~ Amid(q) /\ q.fooled = {}
  BY <1>1 DEF Hangup, Amid, UserOK
<1>3. PICK r : r = [q EXCEPT !.fd = NoClient]
  OBVIOUS
<1>4. /\ r \in UserState /\ r.fd = NoClient /\ r.fooled = {} /\ r.pc = q.pc /\ ~ r.lost
  BY <1>1, <1>2, <1>3 DEF UserState
<1>5. Become(u, IF r.pc = "bye" THEN Over(r, "ended") ELSE GoOn(r, TRUE))
  BY <1>1, <1>3, <1>4 DEF Hangup
<1>6. PICK k : /\ Become(u, k) /\ k \in UserState /\ k.fd = NoClient
               /\ k.fooled = {} /\ ~ k.sent /\ ~ k.lost
  <2>1. CASE r.pc = "bye"
    BY <1>4, <1>5, <2>1, OverFields
  <2>2. CASE r.pc = "byeEarly"
    <3>1. GoOn(r, TRUE) = [r EXCEPT !.pc = "next", !.sent = FALSE]
      BY <2>2 DEF GoOn, After
    <3>2. PICK k : k = [r EXCEPT !.pc = "next", !.sent = FALSE]
      OBVIOUS
    <3>3. /\ k \in UserState /\ k.fd = NoClient /\ k.fooled = {} /\ ~ k.sent /\ ~ k.lost
      BY <1>4, <3>2 DEF UserState, PCs
    <3> QED
      BY <1>5, <2>2, <3>1, <3>2, <3>3
  <2> QED
    BY <1>1, <1>4, <2>1, <2>2
<1>7. UserOK(k)
  BY <1>6 DEF UserOK
<1>8. \A c \in Client : ~ Asks(u, c)
  BY <1>1, Silent
<1> QED
  BY <1>1, <1>2, <1>6, <1>7, <1>8, UserStep

\* What the client does after an answer has its type.
LEMMA AfterType ==
  ASSUME NEW r \in UserState, r.pc \in Calls, NEW ok \in BOOLEAN,
         r.pc # "bye"
  PROVE  /\ After(r, ok) \in PCs \ {"ended", "exited", "away", "backlog"}
         /\ GoOn(r, ok) \in UserState
         /\ GoOn(r, ok).pc = After(r, ok) /\ ~ GoOn(r, ok).sent
         /\ GoOn(r, ok).fd = r.fd /\ GoOn(r, ok).lost = r.lost
         /\ GoOn(r, ok).fooled = r.fooled
<1>1. After(r, ok) \in PCs \ {"ended", "exited", "away", "backlog"}
  BY DEF After, Back, PCs, Calls
<1>2. PICK p : p = After(r, ok) /\ p \in PCs
  BY <1>1
<1>3. PICK k : k = [r EXCEPT !.pc = p, !.sent = FALSE]
  OBVIOUS
<1>4. /\ k \in UserState /\ k.pc = p /\ ~ k.sent
      /\ k.fd = r.fd /\ k.lost = r.lost /\ k.fooled = r.fooled
  BY <1>2, <1>3 DEF UserState
<1>5. GoOn(r, ok) = k
  BY <1>2, <1>3 DEF GoOn
<1> QED
  BY <1>1, <1>2, <1>4, <1>5

\* The answer is lost with the server: the client dies, or is fooled.
LEMMA LoseAnswerKeeps ==
  ASSUME IInv, NEW u \in User, LoseAnswer(u)
  PROVE  IInv'
<1>1. PICK r : r = user[u] /\ r \in UserState /\ UserOK(r) /\ r.sent /\ r.lost
  BY Typed DEF LoseAnswer
<1>2. /\ UNCHANGED <<files, asks, connected, failures>>
      /\ r.fd = NoClient /\ r.fooled = {} /\ r.pc \in Calls
  BY <1>1 DEF LoseAnswer, UserOK, Calls
<1>3. CASE Become(u, Over(r, "exited"))
  BY <1>1, <1>2, <1>3, ExitStep
<1>4. CASE /\ r.pc \in Fooling
           /\ LET s == [r EXCEPT !.fooled = @ \cup {r.pc}] IN
              Become(u, IF s.pc = "bye" THEN Over(s, "ended") ELSE GoOn(s, TRUE))
  <2>1. PICK o : o = r.fooled \cup {r.pc}
    OBVIOUS
  <2>2. PICK s : s = [r EXCEPT !.fooled = o]
    OBVIOUS
  <2>3. o = {r.pc} /\ o \in SUBSET Fooling
    BY <1>2, <1>4, <2>1
  <2>4. /\ s \in UserState /\ s.pc = r.pc /\ s.fd = NoClient /\ s.lost /\ s.fooled = {r.pc}
    BY <1>1, <1>2, <2>2, <2>3 DEF UserState
  <2>5. Become(u, IF s.pc = "bye" THEN Over(s, "ended") ELSE GoOn(s, TRUE))
    BY <1>4, <2>1, <2>2
  <2>6. PICK k : Become(u, k) /\ k \in UserState /\ k.fd = NoClient /\ UserOK(k)
    <3>1. CASE s.pc = "bye"
      <4>1. UserOK(Over(s, "ended"))
        BY <2>4, <3>1, OverFields DEF UserOK
      <4> QED
        BY <2>4, <2>5, <3>1, <4>1, OverFields
    <3>2. CASE s.pc # "bye"
      <4>1. /\ GoOn(s, TRUE) \in UserState
            /\ GoOn(s, TRUE).pc # "ended" /\ ~ GoOn(s, TRUE).sent
            /\ GoOn(s, TRUE).fd = NoClient /\ GoOn(s, TRUE).lost
        BY <1>2, <2>4, <3>2, AfterType
      <4>2. UserOK(GoOn(s, TRUE))
        BY <4>1 DEF UserOK
      <4> QED
        BY <2>5, <3>2, <4>1, <4>2
    <3> QED
      BY <3>1, <3>2
  <2>7. \A c \in Client : ~ Asks(u, c)
    BY <1>1, <1>2, Silent
  <2> QED
    BY <1>1, <1>2, <2>6, <2>7, UserStep
<1> QED
  BY <1>1, <1>3, <1>4 DEF LoseAnswer

\* A user who comes, finds a server or does not.
LEMMA ArriveKeeps ==
  ASSUME IInv, NEW u \in User, Arrive(u)
  PROVE  IInv'
<1>1. PICK r : r = user[u] /\ r \in UserState /\ UserOK(r) /\ r.pc = "away"
  BY Typed DEF Arrive, Is
<1>2. /\ UNCHANGED <<files, asks, connected, failures>>
      /\ ~ r.sent /\ ~ Amid(r)
  BY <1>1 DEF Arrive, Amid, UserOK, Calls
<1>3. PICK tasks \in Commands :
        Become(u, IF Socket \in sockets /\ cfg.SOCKNAME = Socket
                     /\ server \in {"listening", "stopping"}
                  THEN [Away EXCEPT !.pc = "backlog", !.tasks = tasks]
                  ELSE Over(Away, "exited"))
  BY DEF Arrive
<1>4. Away \in UserState
  <2>1. <<>> \in Seq(Tasks) /\ <<>> \in Seq(Path) /\ <<>> \in Seq(Seq(Entries))
    OBVIOUS
  <2> QED
    BY <2>1 DEF Away, UserState, PCs
<1>5. PICK a : a = Away /\ a \in UserState /\ a.fd = NoClient /\ a.fooled = {} /\ ~ a.sent /\ ~ a.lost
  BY <1>4 DEF Away
<1>6. PICK k : /\ Become(u, k) /\ k \in UserState /\ k.fd = NoClient
               /\ k.fooled = {} /\ ~ k.sent /\ ~ k.lost
  <2>1. CASE Become(u, [a EXCEPT !.pc = "backlog", !.tasks = tasks])
    <3>1. PICK k : k = [a EXCEPT !.pc = "backlog", !.tasks = tasks]
      OBVIOUS
    <3>2. tasks \in Seq(Tasks)
      BY SessionAssumption
    <3>3. /\ k \in UserState /\ k.fd = NoClient /\ k.fooled = {} /\ ~ k.sent /\ ~ k.lost
      BY <1>5, <3>1, <3>2 DEF UserState, PCs
    <3> QED
      BY <2>1, <3>1, <3>3
  <2>2. CASE Become(u, Over(a, "exited"))
    BY <1>5, <2>2, OverFields
  <2> QED
    BY <1>3, <1>5, <2>1, <2>2
<1>7. UserOK(k)
  BY <1>6 DEF UserOK
<1>8. \A c \in Client : ~ Asks(u, c)
  BY <1>1, <1>2, Silent
<1> QED
  BY <1>1, <1>2, <1>6, <1>7, <1>8, UserStep

\* The server went before it accepted.
LEMMA UnacceptedKeeps ==
  ASSUME IInv, NEW u \in User, Unaccepted(u)
  PROVE  IInv'
<1>1. PICK r : r = user[u] /\ r \in UserState /\ UserOK(r) /\ r.pc = "backlog" /\ r.lost
  BY Typed DEF Unaccepted, Is
<1>2. /\ UNCHANGED <<files, asks, connected, failures>>
      /\ r.fd = NoClient /\ ~ Amid(r) /\ Become(u, Over(Away, "exited"))
  BY <1>1 DEF Unaccepted, Amid, UserOK
<1>3. Away \in UserState /\ Away.fd = NoClient
  <2>1. <<>> \in Seq(Tasks) /\ <<>> \in Seq(Path) /\ <<>> \in Seq(Seq(Entries))
    OBVIOUS
  <2> QED
    BY <2>1 DEF Away, UserState, PCs
<1> QED
  BY <1>1, <1>2, <1>3, ExitStep

(***************************************************************************)
(* Steps of one user that the server takes part in.                        *)
(***************************************************************************)

\* At most one user has a descriptor.
LEMMA MidOf ==
  ASSUME IInv, NEW d \in Client, NEW u \in User, user[u].fd = d
  PROVE  Mid(d) = IF Amid(user[u]) THEN 1 ELSE 0
<1>1. \A v \in User : user[v].fd = d => v = u
  BY SessionAssumption DEF IInv, UsersInv
<1> QED
  BY <1>1 DEF Mid

\* A step of user u that changes its own descriptor's request and no more:
\* the balance of the others stays.
LEMMA OthersKeep ==
  ASSUME IInv, NEW u \in User, NEW k, Become(u, k), NEW c \in Client, user[u].fd = c,
         UNCHANGED files, k.fd = c,
         \A d \in Client : d # c => asks'[d] = asks[d] /\ failures'[d] = failures[d]
  PROVE  \A d \in Client : d # c =>
           /\ Cardinality(Owned(d)') + Spare(asks'[d]) <= failures'[d] + Mid(d)'
           /\ asks'[d] # Table!NoAsk => \E v \in User : Asks(v, d)'
<1>1. user'[u] = k /\ \A v \in User : v # u => user'[v] = user[v]
  BY DEF IInv, TypeInv, Become
<1>2. SUFFICES ASSUME NEW d \in Client, d # c
               PROVE  /\ Cardinality(Owned(d)') + Spare(asks'[d]) <= failures'[d] + Mid(d)'
                      /\ asks'[d] # Table!NoAsk => \E v \in User : Asks(v, d)'
  OBVIOUS
<1>3. Owned(d)' = Owned(d)
  BY DEF Owned
<1>4. Mid(d)' = Mid(d)
  BY <1>1, <1>2 DEF Mid
<1>5. Cardinality(Owned(d)) + Spare(asks[d]) <= failures[d] + Mid(d)
  BY DEF IInv, OpenInv
<1>6. asks'[d] # Table!NoAsk => \E v \in User : Asks(v, d)'
  <2> SUFFICES ASSUME asks[d] # Table!NoAsk PROVE \E v \in User : Asks(v, d)'
    BY <1>2
  <2>1. PICK v \in User : Asks(v, d)
    BY DEF IInv, AsksInv
  <2>2. v # u
    BY <1>2, <2>1 DEF Asks
  <2> QED
    BY <1>1, <1>2, <2>1, <2>2 DEF Asks
<1> QED
  BY <1>2, <1>3, <1>4, <1>5, <1>6

\* A user who stays with its descriptor keeps the types and the others'
\* descriptors.
LEMMA SameFd ==
  ASSUME IInv, NEW u \in User, NEW k \in UserState, Become(u, k), UserOK(k),
         k.fd = user[u].fd, UNCHANGED connected, failures' \in [Client -> Nat]
  PROVE  TypeInv' /\ UsersInv'
<1>1. /\ user' = [user EXCEPT ![u] = k] /\ user \in [User -> UserState]
      /\ user'[u] = k /\ \A v \in User : v # u => user'[v] = user[v]
  BY DEF Become, IInv, TypeInv
<1>2. TypeInv'
  BY <1>1 DEF IInv, TypeInv
<1>3. \A v \in User : user'[v].fd = user[v].fd /\ UserOK(user'[v])
  BY <1>1 DEF IInv, UsersInv
<1> QED
  BY <1>2, <1>3 DEF IInv, UsersInv

\* A request that was not there before.
LEMMA AskKeeps ==
  ASSUME IInv, NEW u \in User, Send(u), user[u].fd # NoClient,
         user[u].pc \notin {"bye", "byeEarly"}
  PROVE  IInv'
<1>1. PICK r : r = user[u] /\ r \in UserState /\ UserOK(r) /\ r.pc \in Hello /\ ~ r.sent
  BY Typed DEF Send, Hello
<1>2. PICK c \in Client : r.fd = c
  BY <1>1 DEF IInv, UsersInv, TypeInv
<1>3. PICK k : k = [r EXCEPT !.sent = TRUE]
  OBVIOUS
<1>4. /\ Become(u, k) /\ UNCHANGED <<files, connected, failures>>
      /\ asks[c] = Table!NoAsk
      /\ \E p, s : asks' = [asks EXCEPT ![c] = Table!Asked(OpOf(r.pc), p, s)]
  BY <1>1, <1>2, <1>3 DEF Send, Table!Ask, Table!SetAsk
<1>5. /\ k \in UserState /\ k.sent /\ k.fd = c /\ k.pc = r.pc
      /\ k.lost = r.lost /\ k.fooled = r.fooled
  BY <1>1, <1>2, <1>3 DEF UserState
<1>6. UserOK(k)
  BY <1>1, <1>2, <1>5, SessionAssumption DEF UserOK, Hello, Calls
<1>7. TypeInv' /\ UsersInv'
  BY <1>1, <1>2, <1>4, <1>5, <1>6, SameFd DEF IInv, TypeInv
<1>8. PICK p, s : asks' = [asks EXCEPT ![c] = Table!Asked(OpOf(r.pc), p, s)]
  BY <1>4
<1>9. PICK a : a = Table!Asked(OpOf(r.pc), p, s)
  OBVIOUS
<1>10. /\ DOMAIN a = DOMAIN Table!NoAsk /\ a.op = OpOf(r.pc) /\ a.state = "pending"
  BY <1>9 DEF Table!Asked, Table!NoAsk
<1>11. /\ DOMAIN asks' = Client /\ asks'[c] = a
       /\ \A d \in Client : d # c => asks'[d] = asks[d]
  BY <1>8, <1>9 DEF IInv, AsksInv
<1>12. \A d \in Client : d # c =>
         /\ Cardinality(Owned(d)') + Spare(asks'[d]) <= failures'[d] + Mid(d)'
         /\ asks'[d] # Table!NoAsk => \E v \in User : Asks(v, d)'
  BY <1>1, <1>2, <1>4, <1>5, <1>11, OthersKeep
<1>13. user'[u] = k
  BY <1>4 DEF Become, IInv, TypeInv
<1>14. Asks(u, c)'
  BY <1>1, <1>5, <1>10, <1>11, <1>13 DEF Asks
<1>15. AsksInv'
  <2>1. \A d \in Client : DOMAIN asks'[d] = DOMAIN Table!NoAsk
    BY <1>10, <1>11 DEF IInv, AsksInv
  <2> QED
    BY <1>11, <1>12, <1>14, <2>1 DEF AsksInv
<1>16. Cardinality(Owned(c)') + Spare(asks'[c]) <= failures'[c] + Mid(c)'
  <2>1. Owned(c)' = Owned(c) /\ failures'[c] = failures[c]
    BY <1>4 DEF Owned
  <2>2. Mid(c) = IF Amid(r) THEN 1 ELSE 0
    BY <1>1, <1>2, MidOf
  <2>3. Mid(c)' = IF Amid(k) THEN 1 ELSE 0
    BY <1>5, <1>7, <1>13, SessionAssumption DEF Mid, UsersInv
  <2>4. Spare(asks[c]) = 0
    BY <1>4 DEF Spare, Table!NoAsk
  <2>5. Spare(a) + (IF Amid(r) THEN 1 ELSE 0) <= (IF Amid(k) THEN 1 ELSE 0)
    BY <1>1, <1>5, <1>10 DEF Spare, Amid, OpOf, Hello, Calls
  <2>6. Cardinality(Owned(c)) + Spare(asks[c]) <= failures[c] + Mid(c)
    BY DEF IInv, OpenInv
  <2>7. Cardinality(Owned(c)) \in Nat /\ failures[c] \in Nat /\ Spare(a) \in Nat
    BY OwnedFinite DEF IInv, OpenInv, TypeInv, Spare
  <2> QED
    BY <1>11, <2>1, <2>2, <2>3, <2>4, <2>5, <2>6, <2>7
<1>17. OpenInv'
  BY <1>4, <1>12, <1>16 DEF IInv, OpenInv
<1> QED
  BY <1>7, <1>15, <1>17 DEF IInv

\* A call: it ends a client without a connection; of closeConnection the
\* server's table does not hear.
LEMMA SendKeeps ==
  ASSUME IInv, NEW u \in User, Send(u)
  PROVE  IInv'
<1>1. PICK r : r = user[u] /\ r \in UserState /\ UserOK(r) /\ r.pc \in Calls /\ ~ r.sent
  BY Typed DEF Send
<1>2. CASE r.fd = NoClient
  <2>1. /\ Become(u, Over(r, "exited")) /\ UNCHANGED <<files, asks, connected, failures>>
    BY <1>1, <1>2 DEF Send
  <2> QED
    BY <1>1, <1>2, <2>1, ExitStep
<1>3. CASE r.fd # NoClient /\ r.pc \in {"bye", "byeEarly"}
  <2>1. PICK k : k = [r EXCEPT !.sent = TRUE]
    OBVIOUS
  <2>2. Become(u, k) /\ UNCHANGED <<files, asks, connected, failures>>
    BY <1>1, <1>3, <2>1 DEF Send
  <2>3. /\ k \in UserState /\ k.sent /\ k.fd = r.fd /\ k.pc = r.pc
        /\ k.lost = r.lost /\ k.fooled = r.fooled
    BY <1>1, <2>1 DEF UserState
  <2>4. UserOK(k) /\ ~ Amid(r)
    BY <1>1, <1>3, <2>3 DEF UserOK, Calls, Amid
  <2>5. \A c \in Client : ~ Asks(u, c)
    BY <1>1, Silent
  <2> QED
    BY <1>1, <2>2, <2>3, <2>4, <2>5, UserStep
<1> QED
  BY <1>1, <1>2, <1>3, AskKeeps

\* An answer: a failure after which a file stays open is counted, and a
\* file that the client takes for open is.
LEMMA ReceiveKeeps ==
  ASSUME IInv, NEW u \in User, Receive(u)
  PROVE  IInv'
<1>1. PICK r : r = user[u] /\ r \in UserState /\ UserOK(r) /\ r.sent /\ ~ r.lost
               /\ r.pc \notin {"bye", "byeEarly"}
  BY Typed DEF Receive
<1>2. PICK c \in Client : r.fd = c
  BY <1>1 DEF IInv, UsersInv, UserOK, TypeInv
<1>3. PICK ok \in BOOLEAN : ok = (asks[c].state = "ok")
  OBVIOUS
<1>4. /\ asks[c].state \in {"ok", "ko"} /\ asks' = [asks EXCEPT ![c] = Table!NoAsk]
      /\ UNCHANGED <<files, connected>> /\ Become(u, GoOn(r, ok))
      /\ failures' = IF Leaks(r, ok) THEN [failures EXCEPT ![c] = @ + 1] ELSE failures
  BY <1>1, <1>2, <1>3 DEF Receive, Table!Return, Table!SetAsk
<1>5. r.pc \in Hello /\ asks[c].op = OpOf(r.pc)
  <2>1. asks[c] # Table!NoAsk
    BY <1>4 DEF Table!NoAsk
  <2>2. PICK v \in User : Asks(v, c)
    BY <2>1 DEF IInv, AsksInv
  <2>3. v = u
    BY <1>1, <1>2, <2>2, SessionAssumption DEF IInv, UsersInv, Asks
  <2> QED
    BY <1>1, <2>2, <2>3 DEF Asks
<1>6. PICK k : k = GoOn(r, ok)
  OBVIOUS
<1>7. /\ k \in UserState /\ k.pc = After(r, ok) /\ k.pc # "ended" /\ ~ k.sent /\ k.fd = c
      /\ k.lost = r.lost /\ k.fooled = r.fooled
  BY <1>1, <1>2, <1>5, <1>6, AfterType DEF Hello
<1>8. UserOK(k)
  BY <1>1, <1>5, <1>7 DEF UserOK, Hello, Calls
<1>9. /\ failures' \in [Client -> Nat]
      /\ failures'[c] = failures[c] + (IF Leaks(r, ok) THEN 1 ELSE 0)
      /\ \A d \in Client : d # c => failures'[d] = failures[d]
  BY <1>4 DEF IInv, TypeInv
<1>10. TypeInv' /\ UsersInv'
  BY <1>1, <1>2, <1>4, <1>6, <1>7, <1>8, <1>9, SameFd
<1>11. /\ DOMAIN asks' = Client /\ asks'[c] = Table!NoAsk
       /\ \A d \in Client : d # c => asks'[d] = asks[d]
  BY <1>4 DEF IInv, AsksInv
<1>12. \A d \in Client : d # c =>
         /\ Cardinality(Owned(d)') + Spare(asks'[d]) <= failures'[d] + Mid(d)'
         /\ asks'[d] # Table!NoAsk => \E v \in User : Asks(v, d)'
  BY <1>1, <1>2, <1>4, <1>6, <1>7, <1>9, <1>11, OthersKeep
<1>13. user'[u] = k
  BY <1>4, <1>6 DEF Become, IInv, TypeInv
<1>14. AsksInv'
  <2>1. \A d \in Client : DOMAIN asks'[d] = DOMAIN Table!NoAsk
    BY <1>11 DEF IInv, AsksInv
  <2> QED
    BY <1>11, <1>12, <2>1 DEF AsksInv
<1>15. Cardinality(Owned(c)') + Spare(asks'[c]) <= failures'[c] + Mid(c)'
  <2>1. Owned(c)' = Owned(c)
    BY <1>4 DEF Owned
  <2>2. Mid(c) = IF Amid(r) THEN 1 ELSE 0
    BY <1>1, <1>2, MidOf
  <2>3. Mid(c)' = IF Amid(k) THEN 1 ELSE 0
    BY <1>7, <1>10, <1>13, SessionAssumption DEF Mid, UsersInv
  <2>4. Spare(asks'[c]) = 0
    BY <1>11 DEF Spare, Table!NoAsk
  <2>5. (IF Amid(r) THEN 1 ELSE 0)
          <= Spare(asks[c]) + (IF Leaks(r, ok) THEN 1 ELSE 0) + (IF Amid(k) THEN 1 ELSE 0)
    <3>1. PICK st, p, op : st = asks[c].state /\ p = k.pc /\ op = asks[c].op
      OBVIOUS
    <3>2. /\ st \in {"ok", "ko"} /\ ok = (st = "ok") /\ op = OpOf(r.pc) /\ r.sent
          /\ p = After(r, ok) /\ ~ k.sent
      BY <1>1, <1>3, <1>4, <1>5, <1>7, <3>1
    <3>3. CASE r.pc = "readN"
      <4>1. ~ Amid(r)
        BY <3>3 DEF Amid
      <4> QED
        BY <4>1 DEF Spare
    <3>4. CASE r.pc = "read"
      <4>1. Amid(k)
        BY <3>1, <3>2, <3>4 DEF Amid, After
      <4> QED
        BY <4>1 DEF Spare
    <3>5. CASE r.pc \in {"create", "openW", "openR"}
      <4>1. Spare(asks[c]) = 1 \/ Amid(k)
        <5>1. op \in {"create", "open"}
          BY <3>2, <3>5 DEF OpOf
        <5>2. ok => p \in {"append", "read"}
          BY <3>2, <3>5 DEF After
        <5> QED
          BY <3>1, <3>2, <5>1, <5>2 DEF Amid, Spare
      <4> QED
        BY <4>1 DEF Spare
    <3>6. CASE r.pc = "append"
      <4>1. Leaks(r, ok) \/ Amid(k)
        BY <3>1, <3>2, <3>6 DEF Leaks, Amid, After
      <4> QED
        BY <4>1 DEF Spare
    <3>7. CASE r.pc \in {"closeW", "closeR"}
      <4>1. Leaks(r, ok) \/ Spare(asks[c]) = 1
        BY <3>1, <3>2, <3>7 DEF Leaks, Spare, OpOf
      <4> QED
        BY <4>1 DEF Spare
    <3> QED
      BY <1>5, <3>3, <3>4, <3>5, <3>6, <3>7 DEF Hello, Calls
  <2>6. Cardinality(Owned(c)) + Spare(asks[c]) <= failures[c] + Mid(c)
    BY DEF IInv, OpenInv
  <2>7. Cardinality(Owned(c)) \in Nat /\ failures[c] \in Nat /\ Spare(asks[c]) \in Nat
    BY OwnedFinite DEF IInv, OpenInv, TypeInv, Spare
  <2> QED
    BY <1>9, <2>1, <2>2, <2>3, <2>4, <2>5, <2>6, <2>7
<1>16. OpenInv'
  BY <1>4, <1>12, <1>15 DEF IInv, OpenInv
<1> QED
  BY <1>10, <1>14, <1>16 DEF IInv

\* accept gives a user the lowest free descriptor: nobody has it, and no
\* request is left on it.
LEMMA AcceptKeeps ==
  ASSUME IInv, NEW u \in User, Accept(u)
  PROVE  IInv'
<1>1. PICK r : r = user[u] /\ r \in UserState /\ UserOK(r) /\ r.pc = "backlog" /\ ~ r.lost
  BY Typed DEF Accept, Is
<1>2. PICK c : c = Min(Client \ connected)
  OBVIOUS
<1>3. c \in Client /\ c \notin connected
  <2>1. Client \ connected # {} /\ \A x \in Client \ connected : x \in Nat
    BY SessionAssumption DEF Accept
  <2> QED
    BY <1>2, <2>1, LeastOf
<1>4. PICK k : k = [r EXCEPT !.pc = "dispatch", !.fd = c]
  OBVIOUS
<1>5. /\ Become(u, k) /\ connected' = connected \cup {c}
      /\ UNCHANGED <<files, asks, failures>>
  BY <1>1, <1>2, <1>4 DEF Accept
<1>6. /\ k \in UserState /\ k.pc = "dispatch" /\ k.fd = c /\ ~ k.sent /\ ~ k.lost
      /\ k.fooled = {} /\ ~ r.sent
  <2>1. ~ r.sent /\ r.fooled = {}
    BY <1>1 DEF UserOK, Calls
  <2> QED
    BY <1>1, <1>3, <1>4, <2>1 DEF UserState, PCs
<1>7. /\ user' = [user EXCEPT ![u] = k] /\ user'[u] = k
      /\ \A v \in User : v # u => user'[v] = user[v]
  BY <1>5 DEF Become, IInv, TypeInv
<1>8. \A v \in User : user[v].fd \in connected \cup {NoClient} /\ user[v].fd # c
  BY <1>3, SessionAssumption DEF IInv, UsersInv
<1>9. TypeInv'
  BY <1>3, <1>5, <1>6, <1>7 DEF IInv, TypeInv
<1>10. UsersInv'
  <2>1. UserOK(k)
    BY <1>6 DEF UserOK
  <2>2. ASSUME NEW v \in User
        PROVE  user'[v].fd \in connected' \cup {NoClient} /\ UserOK(user'[v])
    BY <1>5, <1>6, <1>7, <1>8, <2>1 DEF IInv, UsersInv
  <2>3. ASSUME NEW v \in User, NEW w \in User, user'[v].fd = user'[w].fd,
               user'[v].fd # NoClient
        PROVE  v = w
    BY <1>6, <1>7, <1>8, <2>3 DEF IInv, UsersInv
  <2> QED
    BY <2>2, <2>3 DEF UsersInv
<1>11. AsksInv'
  <2>1. ASSUME NEW d \in Client, asks'[d] # Table!NoAsk
        PROVE  \E v \in User : Asks(v, d)'
    <3>1. PICK v \in User : Asks(v, d)
      BY <1>5, <2>1 DEF IInv, AsksInv
    <3>2. v # u
      BY <1>1, <1>6, <3>1 DEF Asks
    <3> QED
      BY <1>5, <1>7, <3>1, <3>2 DEF Asks
  <2> QED
    BY <1>5, <2>1 DEF IInv, AsksInv
<1>12. OpenInv'
  <2>1. ASSUME NEW d \in Client
        PROVE  Cardinality(Owned(d)') + Spare(asks'[d]) <= failures'[d] + Mid(d)'
    <3>1. Owned(d)' = Owned(d) /\ asks'[d] = asks[d] /\ failures'[d] = failures[d]
      BY <1>5 DEF Owned
    <3>2. ASSUME NEW v \in User, user[v].fd = d, Amid(user[v])
          PROVE  user'[v].fd = d /\ Amid(user'[v])
      <4>1. v # u
        BY <1>1, <1>6, <3>2 DEF Amid
      <4> QED
        BY <1>7, <3>2, <4>1
    <3>3. Mid(d) <= Mid(d)' /\ Mid(d) \in Nat /\ Mid(d)' \in Nat
      BY <3>2 DEF Mid
    <3>4. Cardinality(Owned(d)) + Spare(asks[d]) <= failures[d] + Mid(d)
      BY DEF IInv, OpenInv
    <3>5. Cardinality(Owned(d)) \in Nat /\ Spare(asks[d]) \in Nat /\ failures[d] \in Nat
      BY OwnedFinite DEF IInv, OpenInv, TypeInv, Spare
    <3> QED
      BY <3>1, <3>3, <3>4, <3>5
  <2> QED
    BY <1>5, <2>1 DEF IInv, OpenInv
<1> QED
  BY <1>9, <1>10, <1>11, <1>12 DEF IInv

(***************************************************************************)
(* Steps of the server.                                                    *)
(***************************************************************************)

\* A descriptor is closed after its user has left.
LEMMA CloseFdKeeps ==
  ASSUME IInv, NEW d \in Client, CloseFd(d)
  PROVE  IInv'
<1>1. /\ connected' = connected \ {d} /\ UNCHANGED <<files, asks, user, failures>>
      /\ \A u \in User : user[u].fd # d
  BY DEF CloseFd
<1>2. TypeInv'
  BY <1>1 DEF IInv, TypeInv
<1>3. UsersInv'
  BY <1>1 DEF IInv, UsersInv
<1>4. AsksInv'
  BY <1>1 DEF IInv, AsksInv, Asks
<1>5. OpenInv'
  BY <1>1 DEF IInv, OpenInv, Owned, Mid
<1> QED
  BY <1>2, <1>3, <1>4, <1>5 DEF IInv

\* The server goes, and everything with it that users have.
LEMMA GoneKeeps ==
  ASSUME IInv, Gone
  PROVE  IInv'
<1>1. /\ files' = [f \in {} |-> NULL] /\ asks' = [c \in Client |-> Table!NoAsk]
      /\ connected' = {} /\ failures' = [d \in Client |-> 0]
      /\ user' = Lost
  BY DEF Gone
<1>2. ASSUME NEW u \in User
      PROVE  /\ user'[u] \in UserState /\ UserOK(user'[u])
             /\ user'[u].fd = NoClient
  <2>1. PICK r : r = user[u] /\ r \in UserState /\ UserOK(r) /\ r.fd \in connected \cup {NoClient}
    BY Typed DEF IInv, UsersInv
  <2>2. user'[u] = IF r.fd \in connected \/ r.pc = "backlog"
                   THEN [r EXCEPT !.lost = TRUE, !.fd = NoClient] ELSE r
    BY <1>1, <2>1 DEF Lost, Is
  <2>3. CASE r.fd \in connected \/ r.pc = "backlog"
    <3>1. PICK k : k = [r EXCEPT !.lost = TRUE, !.fd = NoClient]
      OBVIOUS
    <3>2. /\ k \in UserState /\ k.lost /\ k.fd = NoClient
          /\ k.pc = r.pc /\ k.sent = r.sent /\ k.fooled = r.fooled
      BY <2>1, <3>1 DEF UserState
    <3>3. UserOK(k)
      BY <2>1, <3>2 DEF UserOK
    <3> QED
      BY <2>2, <2>3, <3>1, <3>2, <3>3
  <2>4. CASE ~ (r.fd \in connected \/ r.pc = "backlog")
    BY <2>1, <2>2, <2>4
  <2> QED
    BY <2>3, <2>4
<1>3. DOMAIN user' = User
  BY <1>1 DEF Lost
<1>4. TypeInv'
  <2>1. user' \in [User -> UserState]
    BY <1>1, <1>2 DEF Lost
  <2> QED
    BY <1>1, <2>1 DEF TypeInv
<1>5. UsersInv'
  BY <1>2 DEF UsersInv
<1>6. AsksInv'
  BY <1>1 DEF AsksInv
<1>7. OpenInv'
  <2>1. DOMAIN files' = {} /\ IsFiniteSet({}) /\ Cardinality({}) = 0
    BY <1>1, FS_EmptySet
  <2>2. ASSUME NEW d \in Client
        PROVE  Cardinality(Owned(d)') + Spare(asks'[d]) <= failures'[d] + Mid(d)'
    <3>1. Owned(d)' = {}
      BY <2>1 DEF Owned
    <3>2. Spare(asks'[d]) = 0
      BY <1>1 DEF Spare, Table!NoAsk
    <3>3. failures'[d] = 0 /\ Mid(d)' \in {0, 1}
      BY <1>1 DEF Mid
    <3> QED
      BY <2>1, <3>1, <3>2, <3>3
  <2> QED
    BY <2>1, <2>2 DEF OpenInv
<1> QED
  BY <1>4, <1>5, <1>6, <1>7 DEF IInv

\* What a request under way does to the files its own client has open, and
\* to those of others, which it can only close.
LEMMA ServeOwned ==
  ASSUME IInv, NEW c \in Client, Table!Serve(c)
  PROVE  /\ IsFiniteSet(DOMAIN files')
         /\ \A f \in DOMAIN files' : DOMAIN files'[f] = {"path", "owner", "size", "written"}
         /\ \A d \in Client \ {c} : Owned(d)' \subseteq Owned(d)
         /\ \/ Owned(c)' \subseteq Owned(c) /\ Spare(asks'[c]) <= Spare(asks[c])
            \/ /\ \E f : Owned(c)' \subseteq Owned(c) \cup {f}
               /\ Spare(asks[c]) = 1 /\ Spare(asks'[c]) = 0
            \/ /\ \E f \in Owned(c) : Owned(c)' \subseteq Owned(c) \ {f}
               /\ Spare(asks[c]) = 0 /\ Spare(asks'[c]) = 1
         /\ DOMAIN asks'[c] = DOMAIN Table!NoAsk /\ asks'[c].op = asks[c].op
         /\ asks[c] # Table!NoAsk
         /\ DOMAIN asks' = Client /\ \A d \in Client \ {c} : asks'[d] = asks[d]
<1> DEFINE Fields == {"path", "owner", "size", "written"}
<1> DEFINE Whole(r) == DOMAIN r = {"op", "path", "size", "state", "evicted", "sent"}
<1>0. /\ DOMAIN asks = Client /\ Whole(asks[c])
      /\ IsFiniteSet(DOMAIN files) /\ \A f \in DOMAIN files : DOMAIN files[f] = Fields
      /\ NoClient \notin Client
  BY SessionAssumption DEF IInv, AsksInv, OpenInv, Table!NoAsk
<1>1. PICK a : a = asks'[c] /\ asks' = [asks EXCEPT ![c] = a]
  <2>1. \E b : asks' = [asks EXCEPT ![c] = b]
    BY DEF Table!Serve, Table!Refuse, Table!Create, Table!Open, Table!Read, Table!Append,
           Table!Close, Table!SendOne, Table!SentAll, Table!MakeRoom, Table!Reject,
           Table!Conclude, Table!SetAsk
  <2> QED
    BY <1>0, <2>1
<1>2. DOMAIN asks' = Client /\ \A d \in Client \ {c} : asks'[d] = asks[d]
  BY <1>0, <1>1
<1>3. asks[c].state = "pending" /\ asks[c] # Table!NoAsk
  BY DEF Table!Serve, Table!NoAsk
\* The answer.
<1>4. ASSUME NEW st, Table!Conclude(c, st)
      PROVE  Whole(a) /\ a.op = asks[c].op /\ a.state = st
  BY <1>0, <1>1, <1>4 DEF Table!Conclude, Table!SetAsk, Table!Answered
\* A request that goes on.
<1>5. ASSUME a = [asks[c] EXCEPT !.sent = TRUE] \/ a = [asks[c] EXCEPT !.evicted = TRUE]
      PROVE  Whole(a) /\ a.op = asks[c].op /\ a.state = "pending"
  <2>1. PICK b : b = asks[c] /\ Whole(b) /\ b.state = "pending"
    BY <1>0, <1>3
  <2> QED
    BY <1>5, <2>1
\* The changes of the files.
<1>6. ASSUME files' = files
      PROVE  /\ IsFiniteSet(DOMAIN files') /\ \A f \in DOMAIN files' : DOMAIN files'[f] = Fields
             /\ \A d : Owned(d)' \subseteq Owned(d)
  BY <1>0, <1>6 DEF Owned
<1>7. ASSUME NEW f, files' = Table!Without(f)
      PROVE  /\ IsFiniteSet(DOMAIN files') /\ \A g \in DOMAIN files' : DOMAIN files'[g] = Fields
             /\ \A d : Owned(d)' \subseteq Owned(d)
  <2>1. DOMAIN files' = (DOMAIN files) \ {f} /\ \A g \in DOMAIN files' : files'[g] = files[g]
    BY <1>7 DEF Table!Without
  <2> QED
    BY <1>0, <2>1, FS_RemoveElement DEF Owned
<1>8. ASSUME NEW f, NEW r, files' = Table!With(f, r), DOMAIN r = Fields
      PROVE  /\ IsFiniteSet(DOMAIN files') /\ \A g \in DOMAIN files' : DOMAIN files'[g] = Fields
             /\ f \in DOMAIN files' /\ files'[f] = r
             /\ \A g \in DOMAIN files' : g # f => g \in DOMAIN files /\ files'[g] = files[g]
  <2>1. /\ DOMAIN files' = (DOMAIN files) \cup {f}
        /\ \A g \in DOMAIN files' : files'[g] = IF g = f THEN r ELSE files[g]
    BY <1>8 DEF Table!With
  <2>2. IsFiniteSet((DOMAIN files) \cup {f})
    BY <1>0, FS_AddElement
  <2> QED
    BY <1>0, <1>8, <2>1, <2>2
\* A file is given a new owner, or keeps its owner.
<1>9. ASSUME NEW f \in DOMAIN files, NEW o, files' = Table!With(f, [files[f] EXCEPT !.owner = o])
      PROVE  /\ IsFiniteSet(DOMAIN files') /\ \A g \in DOMAIN files' : DOMAIN files'[g] = Fields
             /\ \A d : d # o => Owned(d)' \subseteq Owned(d) \ {f}
             /\ Owned(o)' \subseteq Owned(o) \cup {f}
  <2>1. PICK r, q : r = files[f] /\ q = [r EXCEPT !.owner = o] /\ DOMAIN r = Fields
    BY <1>0
  <2>2. DOMAIN q = Fields /\ q.owner = o
    BY <2>1
  <2>3. files' = Table!With(f, q)
    BY <1>9, <2>1
  <2> HIDE DEF Fields
  <2> QED
    BY <1>8, <2>2, <2>3 DEF Owned
<1> DEFINE Goal ==
     /\ IsFiniteSet(DOMAIN files') /\ \A f \in DOMAIN files' : DOMAIN files'[f] = Fields
     /\ \A d \in Client \ {c} : Owned(d)' \subseteq Owned(d)
     /\ \/ Owned(c)' \subseteq Owned(c) /\ Spare(a) <= Spare(asks[c])
        \/ /\ \E f : Owned(c)' \subseteq Owned(c) \cup {f}
           /\ Spare(asks[c]) = 1 /\ Spare(a) = 0
        \/ /\ \E f \in Owned(c) : Owned(c)' \subseteq Owned(c) \ {f}
           /\ Spare(asks[c]) = 0 /\ Spare(a) = 1
     /\ Whole(a) /\ a.op = asks[c].op
<1>10. Whole(Table!NoAsk)
  BY DEF Table!NoAsk
<1>11. SUFFICES Goal
  BY <1>1, <1>2, <1>3, <1>10
<1>12. CASE Table!Refuse(c)
  <2>1. Table!Conclude(c, "ko") /\ files' = files
    BY <1>12 DEF Table!Refuse
  <2>2. Whole(a) /\ a.op = asks[c].op /\ a.state = "ko"
    BY <1>4, <2>1
  <2>3. Spare(a) <= Spare(asks[c])
    BY <1>3, <2>2 DEF Spare
  <2> HIDE DEF Whole, Fields
  <2> QED
    BY <1>6, <2>1, <2>2, <2>3
<1>13. CASE Table!Create(c)
  <2>1. /\ asks[c].op = "create" /\ Table!Conclude(c, "ok")
    BY <1>13 DEF Table!Create, Table!Pending
  <2>2. PICK f, r :
          files' = Table!With(f, r)
          /\ r = [path |-> asks[c].path, owner |-> c, size |-> 0, written |-> FALSE]
    BY <1>13 DEF Table!Create
  <2>3. DOMAIN r = Fields /\ r.owner = c
    BY <2>2
  <2>4. Whole(a) /\ a.op = asks[c].op /\ a.state = "ok"
    BY <1>4, <2>1
  <2>5. Spare(asks[c]) = 1 /\ Spare(a) = 0
    BY <1>3, <2>1, <2>4 DEF Spare
  <2> HIDE DEF Whole, Fields
  <2>6. /\ IsFiniteSet(DOMAIN files') /\ \A g \in DOMAIN files' : DOMAIN files'[g] = Fields
        /\ f \in DOMAIN files' /\ files'[f] = r
        /\ \A g \in DOMAIN files' : g # f => g \in DOMAIN files /\ files'[g] = files[g]
    BY <1>8, <2>2, <2>3
  <2>7. Owned(c)' \subseteq Owned(c) \cup {f} /\ \A d \in Client \ {c} : Owned(d)' \subseteq Owned(d)
    BY <2>3, <2>6 DEF Owned
  <2> QED
    BY <2>4, <2>5, <2>6, <2>7
<1>14. CASE Table!Open(c)
  <2>1. /\ asks[c].op = "open" /\ Table!Conclude(c, "ok")
    BY <1>14 DEF Table!Open, Table!Pending
  <2>2. PICK f \in DOMAIN files : files' = Table!With(f, [files[f] EXCEPT !.owner = c])
    BY <1>14 DEF Table!Open
  <2>4. Whole(a) /\ a.op = asks[c].op /\ a.state = "ok"
    BY <1>4, <2>1
  <2>5. Spare(asks[c]) = 1 /\ Spare(a) = 0
    BY <1>3, <2>1, <2>4 DEF Spare
  <2> HIDE DEF Whole, Fields
  <2> QED
    BY <1>9, <2>2, <2>4, <2>5
<1>15. CASE Table!Read(c) \/ Table!SentAll(c)
  <2>1. Table!Conclude(c, "ok") /\ files' = files /\ asks[c].op \in {"read", "readN"}
    BY <1>15 DEF Table!Read, Table!SentAll, Table!Pending
  <2>2. Whole(a) /\ a.op = asks[c].op /\ a.state = "ok"
    BY <1>4, <2>1
  <2>3. Spare(a) <= Spare(asks[c])
    BY <1>3, <2>1, <2>2 DEF Spare
  <2> HIDE DEF Whole, Fields
  <2> QED
    BY <1>6, <2>1, <2>2, <2>3
<1>16. CASE Table!Append(c)
  <2>1. /\ asks[c].op = "append" /\ Table!Conclude(c, "ok")
    BY <1>16 DEF Table!Append, Table!Pending
  <2>2. PICK f, z : f \in DOMAIN files /\
          files' = Table!With(f, [files[f] EXCEPT !.size = z, !.written = TRUE])
    BY <1>16 DEF Table!Append
  <2>3. PICK r, q : r = files[f] /\ q = [r EXCEPT !.size = z, !.written = TRUE] /\ DOMAIN r = Fields
    BY <1>0, <2>2
  <2>4. DOMAIN q = Fields /\ q.owner = r.owner
    BY <2>3
  <2>5. files' = Table!With(f, q)
    BY <2>2, <2>3
  <2>6. Whole(a) /\ a.op = asks[c].op /\ a.state = "ok"
    BY <1>4, <2>1
  <2>7. Spare(a) <= Spare(asks[c])
    BY <1>3, <2>1, <2>6 DEF Spare
  <2> HIDE DEF Whole, Fields
  <2>8. /\ IsFiniteSet(DOMAIN files') /\ \A g \in DOMAIN files' : DOMAIN files'[g] = Fields
        /\ f \in DOMAIN files' /\ files'[f] = q
        /\ \A g \in DOMAIN files' : g # f => g \in DOMAIN files /\ files'[g] = files[g]
    BY <1>8, <2>4, <2>5
  <2>9. \A d : Owned(d)' \subseteq Owned(d)
    BY <2>2, <2>3, <2>4, <2>8 DEF Owned
  <2> QED
    BY <2>6, <2>7, <2>8, <2>9
<1>17. CASE Table!Close(c)
  <2>1. /\ asks[c].op = "close" /\ Table!Conclude(c, "ok")
    BY <1>17 DEF Table!Close, Table!Pending
  <2>2. PICK f \in DOMAIN files : /\ files[f].owner = c
                                  /\ files' = Table!With(f, [files[f] EXCEPT !.owner = NoClient])
    BY <1>17 DEF Table!Close, Table!MineOpen
  <2>3. Whole(a) /\ a.op = asks[c].op /\ a.state = "ok"
    BY <1>4, <2>1
  <2>4. Spare(asks[c]) = 0 /\ Spare(a) = 1
    BY <1>3, <2>1, <2>3 DEF Spare
  <2>5. f \in Owned(c)
    BY <2>2 DEF Owned
  <2> HIDE DEF Whole, Fields
  <2> QED
    BY <1>0, <1>9, <2>2, <2>3, <2>4, <2>5
<1>18. CASE Table!SendOne(c)
  <2>1. a = [asks[c] EXCEPT !.sent = TRUE]
    BY <1>0, <1>1, <1>18 DEF Table!SendOne, Table!SetAsk
  <2>2. PICK f \in DOMAIN files : files' = Table!With(f, [files[f] EXCEPT !.owner = NoClient])
    BY <1>18 DEF Table!SendOne
  <2>3. Whole(a) /\ a.op = asks[c].op /\ a.state = "pending"
    BY <1>5, <2>1
  <2>4. Spare(a) <= Spare(asks[c])
    BY <1>3, <2>3 DEF Spare
  <2> HIDE DEF Whole, Fields
  <2> QED
    BY <1>0, <1>9, <2>2, <2>3, <2>4
<1>19. CASE Table!MakeRoom(c)
  <2>1. a = [asks[c] EXCEPT !.evicted = TRUE]
    BY <1>0, <1>1, <1>19 DEF Table!MakeRoom, Table!SetAsk
  <2>2. PICK f : files' = Table!Without(f)
    BY <1>19 DEF Table!MakeRoom
  <2>3. Whole(a) /\ a.op = asks[c].op /\ a.state = "pending"
    BY <1>5, <2>1
  <2>4. Spare(a) <= Spare(asks[c])
    BY <1>3, <2>3 DEF Spare
  <2> HIDE DEF Whole, Fields
  <2> QED
    BY <1>7, <2>2, <2>3, <2>4
<1>20. CASE Table!Reject(c)
  <2>1. Table!Conclude(c, "ko") /\ asks[c].op = "append"
    BY <1>20 DEF Table!Reject, Table!Pending
  <2>2. PICK f : files' = Table!Without(f)
    BY <1>20 DEF Table!Reject
  <2>3. Whole(a) /\ a.op = asks[c].op /\ a.state = "ko"
    BY <1>4, <2>1
  <2>4. Spare(a) <= Spare(asks[c])
    BY <1>3, <2>1, <2>3 DEF Spare
  <2> HIDE DEF Whole, Fields
  <2> QED
    BY <1>7, <2>2, <2>3, <2>4
<1> QED
  <2> HIDE DEF Goal
  <2> QED
    BY <1>12, <1>13, <1>14, <1>15, <1>16, <1>17, <1>18, <1>19, <1>20 DEF Table!Serve

\* A worker serves a request.
LEMMA ServeKeeps ==
  ASSUME IInv, NEW c \in Client, Serve(c)
  PROVE  IInv'
<1>1. Table!Serve(c) /\ UNCHANGED <<user, connected, failures>>
  BY DEF Serve, sessions
<1>2. TypeInv' /\ UsersInv'
  BY <1>1 DEF IInv, TypeInv, UsersInv
<1>3. AsksInv'
  <2>1. ASSUME NEW d \in Client
        PROVE  /\ DOMAIN asks'[d] = DOMAIN Table!NoAsk
               /\ asks'[d] # Table!NoAsk => \E u \in User : Asks(u, d)'
    <3>1. asks'[d].op = asks[d].op /\ DOMAIN asks'[d] = DOMAIN Table!NoAsk
      BY <1>1, ServeOwned DEF IInv, AsksInv
    <3>2. asks'[d] # Table!NoAsk => asks[d] # Table!NoAsk
      BY <1>1, ServeOwned
    <3> QED
      BY <1>1, <3>1, <3>2 DEF IInv, AsksInv, Asks
  <2>2. DOMAIN asks' = Client
    BY <1>1, ServeOwned
  <2> QED
    BY <2>1, <2>2 DEF AsksInv
<1>4. ASSUME NEW d \in Client
      PROVE  Cardinality(Owned(d)') + Spare(asks'[d]) <= failures'[d] + Mid(d)'
  <2>1. /\ Cardinality(Owned(d)) + Spare(asks[d]) <= failures[d] + Mid(d)
        /\ Mid(d)' = Mid(d) /\ failures'[d] = failures[d]
    BY <1>1 DEF IInv, OpenInv, Mid
  <2>2. /\ Cardinality(Owned(d)) \in Nat /\ IsFiniteSet(Owned(d)) /\ failures[d] \in Nat
        /\ Mid(d) \in Nat /\ Spare(asks[d]) \in Nat /\ Spare(asks'[d]) \in Nat
    BY OwnedFinite DEF IInv, OpenInv, TypeInv, Mid, Spare
  <2>3. PICK S : S = Owned(d)'
    OBVIOUS
  <2>4. CASE S \subseteq Owned(d) /\ Spare(asks'[d]) <= Spare(asks[d])
    BY <2>1, <2>2, <2>3, <2>4, OwnedLess DEF IInv, OpenInv
  <2>5. CASE /\ \E f : S \subseteq Owned(d) \cup {f}
             /\ Spare(asks[d]) = 1 /\ Spare(asks'[d]) = 0
    <3>1. PICK f, T : T = Owned(d) \cup {f} /\ S \subseteq T
      BY <2>5
    <3>2. IsFiniteSet(T) /\ Cardinality(T) <= Cardinality(Owned(d)) + 1 /\ Cardinality(T) \in Nat
      <4>1. PICK O : O = Owned(d) /\ IsFiniteSet(O) /\ Cardinality(O) \in Nat
        BY <2>2
      <4>2. IsFiniteSet(O \cup {f}) /\ Cardinality(O \cup {f}) <= Cardinality(O) + 1
        <5>1. /\ IsFiniteSet(O \cup {f})
              /\ Cardinality(O \cup {f}) = IF f \in O THEN Cardinality(O) ELSE Cardinality(O) + 1
          BY <4>1, FS_AddElement, Zenon
        <5> QED
          BY <4>1, <5>1
      <4> QED
        BY <3>1, <4>1, <4>2, FS_CardinalityType
    <3>3. Cardinality(S) <= Cardinality(T) /\ IsFiniteSet(S)
      BY <3>1, <3>2, FS_Subset
    <3>4. Cardinality(S) \in Nat
      BY <3>3, FS_CardinalityType
    <3> QED
      BY <2>1, <2>2, <2>3, <2>5, <3>2, <3>3, <3>4
  <2>6. CASE /\ \E f \in Owned(d) : S \subseteq Owned(d) \ {f}
             /\ Spare(asks[d]) = 0 /\ Spare(asks'[d]) = 1
    <3>1. PICK f, T : f \in Owned(d) /\ T = Owned(d) \ {f} /\ S \subseteq T
      BY <2>6
    <3>2. IsFiniteSet(T) /\ Cardinality(T) = Cardinality(Owned(d)) - 1
      BY <2>2, <3>1, FS_RemoveElement
    <3>3. Cardinality(S) <= Cardinality(T) /\ IsFiniteSet(S)
      BY <3>1, <3>2, FS_Subset
    <3>4. Cardinality(S) \in Nat
      BY <3>3, FS_CardinalityType
    <3> QED
      BY <2>1, <2>2, <2>3, <2>6, <3>2, <3>3, <3>4
  <2>7. CASE d # c
    <3>1. S \subseteq Owned(d) /\ asks'[d] = asks[d]
      BY <1>1, <2>3, <2>7, ServeOwned
    <3>2. Spare(asks'[d]) <= Spare(asks[d])
      BY <2>2, <3>1
    <3> QED
      BY <2>4, <3>1, <3>2
  <2>8. CASE d = c
    BY <1>1, <2>3, <2>4, <2>5, <2>6, <2>8, ServeOwned
  <2> QED
    BY <2>7, <2>8
<1>5. OpenInv'
  BY <1>1, <1>4, ServeOwned DEF OpenInv
<1> QED
  BY <1>2, <1>3, <1>5 DEF IInv

(***************************************************************************)
(* The theorems about the users.                                           *)
(***************************************************************************)

\* Before anything has happened.
LEMMA SessionsBegin == Init => IInv
<1> SUFFICES ASSUME Init PROVE IInv
  OBVIOUS
<1>1. /\ user = [u \in User |-> Away] /\ connected = {} /\ failures = [d \in Client |-> 0]
      /\ files = [f \in {} |-> NULL] /\ asks = [c \in Client |-> Table!NoAsk]
  BY DEF Init, SessionInit, Table!TableInit
<1>2. Away \in UserState
  <2>1. <<>> \in Seq(Tasks) /\ <<>> \in Seq(Path) /\ <<>> \in Seq(Seq(Entries))
    OBVIOUS
  <2> QED
    BY <2>1 DEF Away, UserState, PCs
<1>3. TypeInv
  BY <1>1, <1>2 DEF TypeInv
<1>4. UsersInv
  BY <1>1 DEF UsersInv, UserOK, Away
<1>5. AsksInv
  BY <1>1 DEF AsksInv
<1>6. OpenInv
  <2>1. DOMAIN files = {} /\ IsFiniteSet({}) /\ Cardinality({}) = 0
    BY <1>1, FS_EmptySet
  <2>2. ASSUME NEW d \in Client
        PROVE  Cardinality(Owned(d)) + Spare(asks[d]) <= failures[d] + Mid(d)
    <3>1. Owned(d) = {}
      BY <2>1 DEF Owned
    <3>2. Spare(asks[d]) = 0
      BY <1>1 DEF Spare, Table!NoAsk
    <3>3. failures[d] = 0 /\ Mid(d) \in {0, 1}
      BY <1>1 DEF Mid
    <3> QED
      BY <2>1, <3>1, <3>2, <3>3
  <2> QED
    BY <2>1, <2>2 DEF OpenInv
<1> QED
  BY <1>3, <1>4, <1>5, <1>6 DEF IInv

\* Steps that neither users nor their requests take part in.
LEMMA ElsewhereKeeps ==
  ASSUME IInv, UNCHANGED <<files, asks, sessions>>
  PROVE  IInv'
<1>1. UNCHANGED <<files, asks, user, connected, failures>>
  BY DEF sessions
<1> QED
  BY <1>1 DEF IInv, TypeInv, UsersInv, AsksInv, Asks, OpenInv, Owned, Mid

\* One step of a deployment, one case per action.
LEMMA SessionsStep ==
  ASSUME IInv, [Next]_vars
  PROVE  IInv'
<1>1. CASE Configure \/ Bind \/ Listen \/ Signal \/ Restart \/ UNCHANGED vars
  <2>1. UNCHANGED <<files, asks, sessions>>
    BY <1>1 DEF Configure, Bind, Listen, Signal, Restart, vars
  <2> QED
    BY <2>1, ElsewhereKeeps
<1>2. CASE BootFails \/ ThreadsFail \/ BindFails \/ End \/ ReadListener \/ ReadEnd
  BY <1>2, GoneKeeps DEF BootFails, ThreadsFail, BindFails, End, ReadListener, ReadEnd
<1>3. CASE \E c \in Client : Serve(c)
  BY <1>3, ServeKeeps
<1>4. CASE \E d \in Client : CloseFd(d)
  BY <1>4, CloseFdKeeps
<1>5. ASSUME NEW u \in User, Arrive(u) \/ Accept(u) \/ Leave(u) \/ Step(u) PROVE IInv'
  <2>1. CASE ClientStep(u)
    BY <2>1, DispatchKeeps, NextFileKeeps, WalkKeeps, SendKeeps, ReceiveKeeps,
       LoseAnswerKeeps DEF ClientStep
  <2>2. CASE Leave(u)
    BY <2>2, HangupKeeps DEF Leave
  <2> QED
    BY <1>5, <2>1, <2>2, ArriveKeeps, AcceptKeeps, UnacceptedKeeps DEF Step
<1> QED
  BY <1>1, <1>2, <1>3, <1>4, <1>5 DEF Next

\* All behaviours satisfy the invariant.
THEOREM SessionsInvariant == Spec => []IInv
BY SessionsBegin, SessionsStep, PTL DEF Spec

TakenInv == taken \subseteq Client

\* A stopping server has requests of connections only.
LEMMA TakenStep ==
  ASSUME IInv, TakenInv, [Next]_vars
  PROVE  TakenInv'
<1>1. Requesting \subseteq Client
  <2>1. ASSUME NEW u \in User, user[u].sent, ~user[u].lost PROVE user[u].fd \in Client
    BY <2>1 DEF IInv, TypeInv, UsersInv, UserOK
  <2> QED
    BY <2>1 DEF Requesting
<1>2. taken' \subseteq taken \/ taken' \subseteq Requesting
  BY DEF Next, vars, deployment, Configure, BootFails, ThreadsFail, Bind, BindFails, Listen, Signal,
         End, ReadListener, ReadEnd, Gone, Restart, Serve, Leave, CloseFd, Arrive, Accept, Step,
         Unaccepted
<1> QED
  BY <1>1, <1>2 DEF TakenInv

\* client.c and util_client.c: a client that waits for an answer is in one
\* of its calls, and a descriptor it uses is one of the server's
\* connections, through every failure of a call, restart and lost answer.
THEOREM SessionTypes == Spec => []SessionTypeOK
<1>1. IInv /\ TakenInv => SessionTypeOK
  BY DEF IInv, TypeInv, UsersInv, UserOK, UserState, PCs, TakenInv, SessionTypeOK
<1>2. Init => TakenInv
  BY DEF Init, TakenInv
<1>3. IInv /\ TakenInv /\ [Next]_vars => TakenInv'
  BY TakenStep
<1> QED
  BY <1>1, <1>2, <1>3, SessionsInvariant, PTL DEF Spec

\* conn.c:23, util.c:147: whoever took an end of file for the answer 0 does
\* not come to its end on it, unless that was the answer to its last call.
THEOREM OnlyTheEndFools == Spec => []FooledOnlyAtTheEnd
<1>1. IInv => FooledOnlyAtTheEnd
  BY DEF IInv, UsersInv, UserOK, FooledOnlyAtTheEnd, Is
<1> QED
  BY <1>1, SessionsInvariant, PTL

\* util_server.c:144-163, client.c:225-270, util_client.c: the files open
\* under a descriptor are those its user is working on and one at most for
\* every append or close that failed on it, whoever had it.
THEOREM LeftOpenCorrect == Spec => []LeftOpenByFailures
<1>1. IInv => LeftOpenByFailures
  <2> SUFFICES ASSUME IInv, NEW d \in Client
               PROVE  Cardinality(Owned(d)) <= failures[d] + Cardinality({u \in User : MidFile(u, d)})
    BY DEF LeftOpenByFailures
  <2>1. \A u \in User : MidFile(u, d) <=> user[u].fd = d /\ Amid(user[u])
    BY DEF MidFile, Amid
  <2>2. \A u, v \in User : user[u].fd = d /\ user[v].fd = d => u = v
    BY SessionAssumption DEF IInv, UsersInv
  <2>3. Mid(d) = Cardinality({u \in User : MidFile(u, d)})
    <3>1. CASE \E u \in User : MidFile(u, d)
      <4>1. PICK u \in User : MidFile(u, d)
        BY <3>1
      <4>2. {v \in User : MidFile(v, d)} = {u}
        BY <2>1, <2>2, <4>1
      <4>3. Mid(d) = 1
        BY <2>1, <4>1 DEF Mid
      <4> QED
        BY <4>2, <4>3, FS_Singleton
    <3>2. CASE ~ \E u \in User : MidFile(u, d)
      <4>1. {v \in User : MidFile(v, d)} = {}
        BY <3>2
      <4>2. Mid(d) = 0
        BY <2>1, <3>2 DEF Mid
      <4> QED
        BY <4>1, <4>2, FS_EmptySet
    <3> QED
      BY <3>1, <3>2
  <2>4. Cardinality(Owned(d)) + Spare(asks[d]) <= failures[d] + Mid(d)
    BY DEF IInv, OpenInv
  <2>5. /\ Cardinality(Owned(d)) \in Nat /\ Spare(asks[d]) \in Nat /\ failures[d] \in Nat
        /\ Mid(d) \in Nat
    BY OwnedFinite DEF IInv, OpenInv, TypeInv, Spare, Mid
  <2> QED
    BY <2>3, <2>4, <2>5
<1> QED
  BY <1>1, SessionsInvariant, PTL

(***************************************************************************)
(* The walk of a directory.  Below is the only solution of its recursion:  *)
(* as for the sums of StorageProofs, what two solutions would differ in,   *)
(* or no solution has, would have a least height and a least length.       *)
(***************************************************************************)

\* A sequence is empty, or a first element and a shorter rest.
LEMMA Shorter ==
  ASSUME NEW E, NEW s \in Seq(E)
  PROVE  /\ Len(s) \in Nat /\ (s = <<>> <=> Len(s) = 0)
         /\ s # <<>> => /\ Head(s) \in E /\ Tail(s) \in Seq(E)
                        /\ Len(Tail(s)) = Len(s) - 1 /\ Len(Tail(s)) \in Nat
                        /\ \A i \in 1 .. Len(s) - 1 : Tail(s)[i] = s[i + 1]
                        /\ Head(s) = s[1]
<1>1. Len(s) \in Nat /\ (s = <<>> <=> Len(s) = 0)
  BY LenProperties, EmptySeq
<1>2. CASE s # <<>>
  BY <1>1, <1>2, HeadTailProperties
<1> QED
  BY <1>1, <1>2

\* g puts together what h gives for the elements.
Flattens(g, h, E) ==
  /\ g[<<>>] = <<>>
  /\ \A s \in Seq(E) : s # <<>> => g[s] = h[Head(s)] \o g[Tail(s)]

\* Two functions that put together the same give the same.
LEMMA FlatUnique ==
  ASSUME NEW E, NEW F, E \subseteq F, NEW g, NEW k, NEW h, NEW m,
         Flattens(g, h, E), Flattens(k, m, F), \A e \in E : h[e] = m[e]
  PROVE  \A s \in Seq(E) : g[s] = k[s]
<1> DEFINE B == {n \in Nat : \E s \in Seq(E) : Len(s) = n /\ g[s] # k[s]}
<1>1. ASSUME B # {} PROVE FALSE
  <2>1. PICK n \in B : \A y \in B : n <= y
    <3> HIDE DEF B
    <3>1. \A x \in B : x \in Nat
      BY DEF B
    <3> QED
      BY <1>1, <3>1, LeastIn
  <2>2. PICK s \in Seq(E) : Len(s) = n /\ g[s] # k[s]
    OBVIOUS
  <2>3. s # <<>>
    BY <2>2 DEF Flattens
  <2>4. Head(s) \in E /\ Tail(s) \in Seq(E) /\ Len(Tail(s)) = n - 1 /\ n - 1 \in Nat /\ n \in Nat
    BY <2>2, <2>3, Shorter
  <2>5. n - 1 \notin B
    BY <2>1, <2>4
  <2>6. g[Tail(s)] = k[Tail(s)]
    BY <2>4, <2>5
  <2>7. s \in Seq(F)
    BY SeqMonotonic
  <2>8. g[s] = h[Head(s)] \o g[Tail(s)] /\ k[s] = m[Head(s)] \o k[Tail(s)]
    BY <2>3, <2>7 DEF Flattens
  <2> QED
    BY <2>2, <2>4, <2>6, <2>8
<1> QED
  <2> SUFFICES ASSUME NEW s \in Seq(E), g[s] # k[s] PROVE FALSE
    OBVIOUS
  <2>1. Len(s) \in Nat
    BY LenProperties
  <2>2. Len(s) \in B
    BY <2>1
  <2> QED
    BY <1>1, <2>2

\* What is put together of the last i elements of s is P[i].
Gathers(P, s, h) ==
  /\ P \in [0 .. Len(s) -> Seq(Path)]
  /\ P[0] = <<>>
  /\ \A i \in 1 .. Len(s) : P[i] = h[s[Len(s) - i + 1]] \o P[i - 1]

Flat(v, s, h) == \E P : Gathers(P, s, h) /\ v = P[Len(s)]

\* Nothing together is nothing; one element more goes in front.
LEMMA FlatSteps ==
  ASSUME NEW E, NEW h, \A e \in E : h[e] \in Seq(Path), NEW s \in Seq(E)
  PROVE  /\ s = <<>> => Flat(<<>>, s, h)
         /\ s # <<>> => \A v : Flat(v, Tail(s), h) => Flat(h[Head(s)] \o v, s, h)
<1>1. CASE s = <<>>
  <2> DEFINE P == [i \in 0 .. 0 |-> <<>>]
  <2>1. Len(s) = 0 /\ <<>> \in Seq(Path)
    BY <1>1, EmptySeq
  <2>2. Gathers(P, s, h) /\ P[Len(s)] = <<>>
    BY <2>1 DEF Gathers
  <2> HIDE DEF P
  <2> QED
    BY <1>1, <2>2 DEF Flat
<1>2. ASSUME s # <<>>, NEW v, Flat(v, Tail(s), h)
      PROVE  Flat(h[Head(s)] \o v, s, h)
  <2>1. PICK P : Gathers(P, Tail(s), h) /\ v = P[Len(Tail(s))]
    BY <1>2 DEF Flat
  <2>2. PICK n \in Nat : n = Len(s)
    BY LenProperties
  <2>3. /\ n # 0 /\ Len(Tail(s)) = n - 1 /\ Head(s) = s[1] /\ Head(s) \in E
        /\ \A i \in 1 .. n - 1 : Tail(s)[i] = s[i + 1]
    BY <1>2, <2>2, Shorter
  <2>4. /\ P \in [0 .. n - 1 -> Seq(Path)] /\ P[0] = <<>> /\ v = P[n - 1]
        /\ \A i \in 1 .. n - 1 : P[i] = h[Tail(s)[(n - 1) - i + 1]] \o P[i - 1]
    BY <2>1, <2>3 DEF Gathers
  <2>5. PICK z : z = h[Head(s)] \o v
    OBVIOUS
  <2>6. z \in Seq(Path)
    <3>1. v \in Seq(Path)
      BY <2>2, <2>3, <2>4
    <3> QED
      BY <2>3, <2>5, <3>1, ConcatProperties
  <2> DEFINE Q == [i \in 0 .. n |-> IF i = n THEN z ELSE P[i]]
  <2>7. /\ Q \in [0 .. n -> Seq(Path)] /\ Q[n] = z
        /\ \A i \in 0 .. n - 1 : Q[i] = P[i]
    BY <2>2, <2>4, <2>6
  <2> HIDE DEF Q
  <2>8. Q[0] = <<>>
    BY <2>2, <2>3, <2>4, <2>7
  <2>9. ASSUME NEW i \in 1 .. n PROVE Q[i] = h[s[n - i + 1]] \o Q[i - 1]
    <3>1. CASE i = n
      <4>1. n - i + 1 = 1 /\ i - 1 \in 0 .. n - 1 /\ i - 1 = n - 1
        BY <3>1
      <4>2. Q[i - 1] = v
        BY <2>4, <2>7, <4>1
      <4> QED
        BY <2>3, <2>5, <2>7, <3>1, <4>1, <4>2
    <3>2. CASE i # n
      <4>1. /\ i \in 1 .. n - 1 /\ i \in 0 .. n - 1 /\ i - 1 \in 0 .. n - 1
            /\ (n - 1) - i + 1 \in 1 .. n - 1 /\ ((n - 1) - i + 1) + 1 = n - i + 1
        BY <3>2
      <4>2. Tail(s)[(n - 1) - i + 1] = s[n - i + 1]
        BY <2>3, <4>1
      <4>3. Q[i] = P[i] /\ Q[i - 1] = P[i - 1]
        BY <2>7, <4>1
      <4> QED
        BY <2>4, <4>1, <4>2, <4>3
    <3> QED
      BY <3>1, <3>2
  <2>10. Gathers(Q, s, h)
    BY <2>2, <2>7, <2>8, <2>9 DEF Gathers
  <2> QED
    BY <2>2, <2>5, <2>7, <2>10 DEF Flat
<1> QED
  BY <1>1, <1>2

\* Every sequence has something put together of it, and one thing only.
LEMMA FlatOne ==
  ASSUME NEW E, NEW h, \A e \in E : h[e] \in Seq(Path), NEW s \in Seq(E)
  PROVE  /\ \E v : Flat(v, s, h)
         /\ \A v, w : Flat(v, s, h) /\ Flat(w, s, h) => v = w
         /\ \A v : Flat(v, s, h) => v \in Seq(Path)
<1> DEFINE B == {n \in Nat : \E t \in Seq(E) : Len(t) = n /\ ~ \E v : Flat(v, t, h)}
<1>1. ASSUME B # {} PROVE FALSE
  <2>1. PICK n \in B : \A y \in B : n <= y
    <3> HIDE DEF B
    <3>1. \A x \in B : x \in Nat
      BY DEF B
    <3> QED
      BY <1>1, <3>1, LeastIn
  <2>2. PICK t \in Seq(E) : Len(t) = n /\ ~ \E v : Flat(v, t, h)
    OBVIOUS
  <2>3. t # <<>>
    BY <2>2, FlatSteps
  <2>4. Tail(t) \in Seq(E) /\ Len(Tail(t)) = n - 1 /\ n - 1 \in Nat /\ n \in Nat
    BY <2>2, <2>3, Shorter
  <2>5. n - 1 \notin B
    BY <2>1, <2>4
  <2>6. PICK v : Flat(v, Tail(t), h)
    BY <2>4, <2>5
  <2> QED
    BY <2>2, <2>3, <2>6, FlatSteps
<1>2. \E v : Flat(v, s, h)
  <2>1. Len(s) \in Nat
    BY LenProperties
  <2> QED
    BY <1>1, <2>1
<1>3. PICK n \in Nat : n = Len(s)
  BY LenProperties
<1>4. ASSUME NEW P, NEW Q, Gathers(P, s, h), Gathers(Q, s, h)
      PROVE  P[n] = Q[n]
  <2> DEFINE D == {i \in 0 .. n : P[i] # Q[i]}
  <2>1. ASSUME D # {} PROVE FALSE
    <3>1. PICK i \in D : \A y \in D : i <= y
      <4> HIDE DEF D
      <4>1. \A x \in D : x \in Nat
        BY DEF D
      <4> QED
        BY <2>1, <4>1, LeastIn
    <3>2. i \in 0 .. n /\ P[i] # Q[i]
      OBVIOUS
    <3>3. i # 0
      BY <1>4, <3>2 DEF Gathers
    <3>4. i \in 1 .. n /\ i - 1 \in 0 .. n /\ i - 1 \notin D
      BY <3>1, <3>2, <3>3
    <3>5. P[i - 1] = Q[i - 1]
      BY <3>4
    <3>6. P[i] = h[s[n - i + 1]] \o P[i - 1] /\ Q[i] = h[s[n - i + 1]] \o Q[i - 1]
      BY <1>3, <1>4, <3>4 DEF Gathers
    <3> QED
      BY <3>2, <3>5, <3>6
  <2>2. n \in 0 .. n
    OBVIOUS
  <2> QED
    BY <2>1, <2>2
<1>5. \A v, w : Flat(v, s, h) /\ Flat(w, s, h) => v = w
  BY <1>3, <1>4 DEF Flat
<1>6. \A v : Flat(v, s, h) => v \in Seq(Path)
  BY <1>3 DEF Flat, Gathers
<1> QED
  BY <1>2, <1>5, <1>6

\* So there is a function that puts everything together.
LEMMA FlatExists ==
  ASSUME NEW E, NEW h, \A e \in E : h[e] \in Seq(Path)
  PROVE  \E g \in [Seq(E) -> Seq(Path)] : Flattens(g, h, E)
<1> DEFINE V(s) == CHOOSE v : Flat(v, s, h)
<1>1. ASSUME NEW s \in Seq(E)
      PROVE  Flat(V(s), s, h) /\ V(s) \in Seq(Path) /\ \A v : Flat(v, s, h) => v = V(s)
  <2>1. \E v : Flat(v, s, h)
    BY FlatOne
  <2>2. Flat(V(s), s, h)
    BY <2>1
  <2> HIDE DEF V
  <2> QED
    BY <2>2, FlatOne
<1> HIDE DEF V
<1> DEFINE g == [s \in Seq(E) |-> V(s)]
<1>2. g \in [Seq(E) -> Seq(Path)] /\ \A s \in Seq(E) : g[s] = V(s)
  BY <1>1
<1> HIDE DEF g
<1>3. g[<<>>] = <<>>
  <2>1. <<>> \in Seq(E)
    OBVIOUS
  <2>2. Flat(<<>>, <<>>, h)
    BY <2>1, FlatSteps
  <2> QED
    BY <1>1, <1>2, <2>1, <2>2
<1>4. ASSUME NEW s \in Seq(E), s # <<>>
      PROVE  g[s] = h[Head(s)] \o g[Tail(s)]
  <2>1. Tail(s) \in Seq(E)
    BY <1>4, Shorter
  <2>2. Flat(V(Tail(s)), Tail(s), h)
    BY <1>1, <2>1
  <2>3. Flat(h[Head(s)] \o V(Tail(s)), s, h)
    BY <1>4, <2>2, FlatSteps
  <2> QED
    BY <1>1, <1>2, <2>1, <2>3
<1> QED
  BY <1>2, <1>3, <1>4 DEF Flattens

(***************************************************************************)
(* The directories by their height.                                        *)
(***************************************************************************)
\* What the entry e has below it, by a function f that knows the directories.
Piece(f, e) == CASE e \in Dotted -> <<>> [] e \in Path -> <<e>> [] OTHER -> f[Tree[e]]

Solves(f, E) ==
  /\ f[<<>>] = <<>>
  /\ \A s \in Seq(E) : s # <<>> => f[s] = Piece(f, Head(s)) \o f[Tail(s)]

\* The entries that are no directories of height r or more.
Under(height, r) == {e \in Entries : e \in DOMAIN Tree \ Dotted => height[e] < r}

Falls(height) ==
  /\ height \in [DOMAIN Tree -> 0 .. Cardinality(DOMAIN Tree)]
  /\ \A d \in DOMAIN Tree : \A i \in DOMAIN Tree[d] :
       Tree[d][i] \in DOMAIN Tree \ Dotted => height[Tree[d][i]] < height[d]

\* A directory lists lower ones only.
LEMMA LowerOnes ==
  ASSUME NEW height, Falls(height), NEW r \in Nat, NEW e \in Under(height, r),
         e \notin Dotted, e \notin Path
  PROVE  r # 0 /\ Tree[e] \in Seq(Under(height, r - 1)) /\ Tree[e] \in Seq(Entries)
<1>1. e \in DOMAIN Tree \ Dotted /\ height[e] < r
  BY DEF Under, Entries
<1>2. \A d \in DOMAIN Tree : height[d] \in Nat
  <2>1. Cardinality(DOMAIN Tree) \in Nat
    BY TreeAssumption, FS_CardinalityType DEF TreeAssumption
  <2> QED
    BY <2>1 DEF Falls
<1>3. Tree[e] \in Seq(Entries)
  BY <1>1, SessionAssumption DEF SessionAssumption
<1>4. PICK s \in Seq(Entries) : s = Tree[e]
  BY <1>3
<1>5. Len(s) \in Nat /\ DOMAIN s = 1 .. Len(s) /\ \A i \in 1 .. Len(s) : s[i] \in Entries
  BY LenProperties, ElementOfSeq
<1>6. ASSUME NEW i \in 1 .. Len(s) PROVE s[i] \in Under(height, r - 1)
  <2>1. CASE s[i] \in DOMAIN Tree \ Dotted
    <3>1. height[s[i]] < height[e]
      BY <1>1, <1>4, <1>5, <2>1 DEF Falls
    <3>2. height[s[i]] < r - 1
      BY <1>1, <1>2, <2>1, <3>1
    <3> QED
      BY <1>5, <3>2 DEF Under
  <2>2. CASE s[i] \notin DOMAIN Tree \ Dotted
    BY <1>5, <2>2 DEF Under
  <2> QED
    BY <2>1, <2>2
<1>7. PICK U : U = Under(height, r - 1)
  OBVIOUS
<1>8. s \in Seq(U)
  <2>1. s = [i \in 1 .. Len(s) |-> s[i]] /\ \A i \in 1 .. Len(s) : s[i] \in U
    BY <1>5, <1>6, <1>7
  <2> QED
    BY <1>5, <2>1, IsASeq
<1> QED
  BY <1>1, <1>2, <1>3, <1>4, <1>7, <1>8

\* Files and dotted directories have the same below them for everybody.
LEMMA Pieces ==
  ASSUME NEW e \in Entries, NEW f
  PROVE  /\ e \in Dotted => Piece(f, e) = <<>>
         /\ e \in Path => Piece(f, e) = <<e>>
         /\ e \notin Dotted /\ e \notin Path => Piece(f, e) = f[Tree[e]]
<1>1. e \in Dotted => e \notin Path
  BY SessionAssumption DEF SessionAssumption
<1> QED
  BY <1>1 DEF Piece

\* Two solutions agree on what is under a height.
LEMMA SolutionsAgree ==
  ASSUME NEW height, Falls(height), NEW f, NEW g, Solves(f, Entries), Solves(g, Entries)
  PROVE  \A r \in Nat : \A s \in Seq(Under(height, r)) : f[s] = g[s]
<1> DEFINE B == {r \in Nat : ~ \A s \in Seq(Under(height, r)) : f[s] = g[s]}
<1>1. ASSUME B # {} PROVE FALSE
  <2>1. PICK r \in B : \A y \in B : r <= y
    <3> HIDE DEF B
    <3>1. \A x \in B : x \in Nat
      BY DEF B
    <3> QED
      BY <1>1, <3>1, LeastIn
  <2>2. r \in Nat /\ ~ \A s \in Seq(Under(height, r)) : f[s] = g[s]
    OBVIOUS
  <2> DEFINE h == [e \in Entries |-> Piece(f, e)]
             m == [e \in Entries |-> Piece(g, e)]
  <2>3. ASSUME NEW e \in Under(height, r) PROVE h[e] = m[e]
    <3>1. e \in Entries
      BY DEF Under
    <3>2. CASE e \notin Dotted /\ e \notin Path
      <4>1. r # 0 /\ Tree[e] \in Seq(Under(height, r - 1))
        BY <2>2, <3>2, LowerOnes
      <4>2. r - 1 \in Nat /\ r - 1 \notin B
        BY <2>1, <2>2, <4>1
      <4>3. f[Tree[e]] = g[Tree[e]]
        BY <4>1, <4>2
      <4> QED
        BY <3>1, <3>2, <4>3, Pieces
    <3> QED
      BY <3>1, <3>2, Pieces
  <2>4. \A s \in Seq(Entries) : s # <<>> => Head(s) \in Entries
    BY Shorter
  <2>5. Flattens(f, h, Entries) /\ Flattens(g, m, Entries)
    BY <2>4 DEF Solves, Flattens
  <2> HIDE DEF h, m
  <2>6. PICK U : U = Under(height, r)
    OBVIOUS
  <2>7. U \subseteq Entries /\ \A e \in U : h[e] = m[e]
    BY <2>3, <2>6 DEF Under
  <2>8. Flattens(f, h, U)
    BY <2>5, <2>7, SeqMonotonic DEF Flattens
  <2>9. \A s \in Seq(U) : f[s] = g[s]
    BY <2>5, <2>7, <2>8, FlatUnique
  <2> QED
    BY <2>2, <2>6, <2>9
<1> QED
  BY <1>1

\* There is a solution for what is under a height.
LEMMA SolutionsExist ==
  ASSUME NEW height, Falls(height)
  PROVE  \A r \in Nat : LET U == Under(height, r) IN
                        \E f \in [Seq(U) -> Seq(Path)] : Solves(f, U)
<1> DEFINE Has(r) == \E f \in [Seq(Under(height, r)) -> Seq(Path)] :
                       Solves(f, Under(height, r))
<1> DEFINE B == {r \in Nat : ~ Has(r)}
<1>1. ASSUME B # {} PROVE FALSE
  <2>1. PICK r \in B : \A y \in B : r <= y
    <3> HIDE DEF B
    <3>1. \A x \in B : x \in Nat
      BY DEF B
    <3> QED
      BY <1>1, <3>1, LeastIn
  <2>2. r \in Nat /\ ~ Has(r)
    OBVIOUS
  <2>3. r # 0 => Has(r - 1)
    <3>1. r # 0 => r - 1 \in Nat /\ r - 1 \notin B
      BY <2>1, <2>2
    <3> QED
      BY <3>1
  <2> HIDE DEF B
  <2>4. PICK U : U = Under(height, r)
    OBVIOUS
  <2>5. PICK W : W = Under(height, r - 1)
    OBVIOUS
  <2>6. U \subseteq Entries /\ W \subseteq U
    <3>1. \A d \in DOMAIN Tree : height[d] \in Int
      <4>1. Cardinality(DOMAIN Tree) \in Nat
        BY TreeAssumption, FS_CardinalityType DEF TreeAssumption
      <4> QED
        BY <4>1 DEF Falls
    <3> QED
      BY <2>2, <2>4, <2>5, <3>1 DEF Under
  <2>7. PICK f : r # 0 => f \in [Seq(W) -> Seq(Path)] /\ Solves(f, W)
    BY <2>3, <2>5
  <2> DEFINE h == [e \in U |-> Piece(f, e)]
  <2>7a. \A e \in U : h[e] = Piece(f, e)
    OBVIOUS
  <2> HIDE DEF h
  <2>8. ASSUME NEW e \in U PROVE h[e] = Piece(f, e) /\ h[e] \in Seq(Path)
    <3>1. e \in Entries /\ h[e] = Piece(f, e)
      BY <2>6, <2>7a
    <3>2. CASE e \in Path
      <4>1. <<e>> \in Seq(Path)
        BY <3>2
      <4> QED
        BY <3>1, <3>2, <4>1, Pieces
    <3>3. CASE e \in Dotted
      <4>1. <<>> \in Seq(Path)
        OBVIOUS
      <4> QED
        BY <3>1, <3>3, <4>1, Pieces
    <3>4. CASE e \notin Path /\ e \notin Dotted
      <4>1. r # 0 /\ Tree[e] \in Seq(W)
        BY <2>2, <2>4, <2>5, <3>4, LowerOnes
      <4>2. f[Tree[e]] \in Seq(Path)
        BY <2>7, <4>1
      <4> QED
        BY <3>1, <3>4, <4>2, Pieces
    <3> QED
      BY <3>2, <3>3, <3>4
  <2>9. PICK g \in [Seq(U) -> Seq(Path)] : Flattens(g, h, U)
    BY <2>8, FlatExists
  <2>10. ASSUME NEW e \in U PROVE h[e] = Piece(g, e)
    <3>1. e \in Entries
      BY <2>6
    <3>2. CASE e \notin Path /\ e \notin Dotted
      <4>1. r # 0 /\ Tree[e] \in Seq(W)
        BY <2>2, <2>4, <2>5, <3>2, LowerOnes
      <4>2. \A s \in Seq(W) : s # <<>> => Head(s) \in W
        BY Shorter
      <4>3. Flattens(f, h, W)
        BY <2>6, <2>7, <2>8, <4>1, <4>2 DEF Flattens, Solves
      <4>4. Flattens(g, h, U) /\ W \subseteq U
        BY <2>6, <2>9
      <4>5. \A s \in Seq(W) : f[s] = g[s]
        BY <4>3, <4>4, FlatUnique
      <4>6. f[Tree[e]] = g[Tree[e]]
        BY <4>1, <4>5
      <4> QED
        BY <2>8, <3>1, <3>2, <4>6, Pieces
    <3> QED
      BY <2>8, <3>1, <3>2, Pieces
  <2>11. \A s \in Seq(U) : s # <<>> => Head(s) \in U
    BY Shorter
  <2>12. Solves(g, U)
    BY <2>9, <2>10, <2>11 DEF Flattens, Solves
  <2> QED
    BY <2>2, <2>4, <2>9, <2>12
<1> QED
  BY <1>1

\* What Below computes.
LEMMA BelowSolves == Below \in [Seq(Entries) -> Seq(Path)] /\ Solves(Below, Entries)
<1>1. PICK height : Falls(height)
  BY TreeAssumption DEF TreeAssumption, Falls
<1>2. PICK r \in Nat : r = Cardinality(DOMAIN Tree) + 1
  BY TreeAssumption, FS_CardinalityType DEF TreeAssumption
<1>3. Under(height, r) = Entries
  <2>1. r - 1 \in Nat /\ \A d \in DOMAIN Tree : height[d] \in 0 .. r - 1
    <3>1. Cardinality(DOMAIN Tree) \in Nat
      BY TreeAssumption, FS_CardinalityType DEF TreeAssumption
    <3> QED
      BY <1>1, <1>2, <3>1 DEF Falls
  <2>2. \A d \in DOMAIN Tree : height[d] < r
    BY <2>1
  <2> QED
    BY <2>2 DEF Under
<1>4. PICK f \in [Seq(Entries) -> Seq(Path)] : Solves(f, Entries)
  BY <1>1, <1>2, <1>3, SolutionsExist
<1> DEFINE Eq(b) == b = [entries \in Seq(Entries) |->
                          IF entries = <<>> THEN <<>>
                          ELSE Piece(b, Head(entries)) \o b[Tail(entries)]]
<1>5. Eq(f)
  BY <1>4 DEF Solves
<1>6. Eq(Below)
  BY <1>5 DEF Below, Piece
<1>7. Solves(Below, Entries)
  <2>1. <<>> \in Seq(Entries)
    OBVIOUS
  <2> QED
    BY <1>6, <2>1 DEF Solves
<1>8. \A s \in Seq(Entries) : Below[s] = f[s]
  BY <1>1, <1>2, <1>3, <1>4, <1>7, SolutionsAgree
<1> QED
  BY <1>4, <1>6, <1>7, <1>8

(***************************************************************************)
(* What -w has attempted and what its open directories still hold.         *)
(***************************************************************************)
\* w is what is below the entries still to come, the deepest directory first.
Covers(fs, w) ==
  \E R : /\ R \in [0 .. Len(fs) -> Seq(Path)]
         /\ R[0] = <<>>
         /\ \A i \in 1 .. Len(fs) : R[i] = Below[fs[i]] \o R[i - 1]
         /\ w = R[Len(fs)]

\* The user is at a -w, in its loop or in one of the calls for a file.
Walking(r) ==
  r.pc \in {"walk", "create", "openW", "append", "closeW"} /\ r.task.kind = "w"

\* What was attempted and what is to come is what there was; each attempt has
\* taken one off the limit, and when the limit is used up nothing more comes.
WalkOK(r) ==
  /\ r.pc = "walk" => r.task.kind = "w"
  /\ Walking(r) =>
       /\ r.task \in Tasks
       /\ ~ All(r) => r.n \in Nat /\ r.n = r.task.n - Len(r.tried)
       /\ \E w \in Seq(Path) : /\ r.tried \o w = Below[Tree[r.task.dir]]
                               /\ All(r) \/ r.n >= 1 => Covers(r.frames, w)

\* What is to come without the deepest directory.
ComesAfter(f, x, w) == \E v \in Seq(Path) : Covers(f, v) /\ w = Below[x] \o v

WalkInv == \A u \in User : WalkOK(user[u])

\* No directory open, nothing to come.
LEMMA CoversNothing == \A w : Covers(<<>>, w) => w = <<>>
<1>1. Len(<<>>) = 0
  OBVIOUS
<1> QED
  BY <1>1 DEF Covers

\* One more directory.
LEMMA CoversPush ==
  ASSUME NEW f \in Seq(Seq(Entries)), NEW x \in Seq(Entries), NEW v, Covers(f, v)
  PROVE  Covers(Append(f, x), Below[x] \o v)
<1>1. PICK n \in Nat : n = Len(f)
  BY LenProperties
<1>2. PICK R : /\ R \in [0 .. n -> Seq(Path)] /\ R[0] = <<>> /\ v = R[n]
               /\ \A i \in 1 .. n : R[i] = Below[f[i]] \o R[i - 1]
  BY <1>1 DEF Covers
<1>3. PICK g : g = Append(f, x)
  OBVIOUS
<1>4. Len(g) = n + 1 /\ (\A i \in 1 .. n : g[i] = f[i]) /\ g[n + 1] = x
  BY <1>1, <1>3, AppendProperties
<1>5. PICK z : z = Below[x] \o v
  OBVIOUS
<1>6. z \in Seq(Path)
  <2>1. Below[x] \in Seq(Path) /\ v \in Seq(Path)
    BY <1>2, BelowSolves
  <2> QED
    BY <1>5, <2>1, ConcatProperties
<1> DEFINE Q == [i \in 0 .. n + 1 |-> IF i = n + 1 THEN z ELSE R[i]]
<1>7. /\ Q \in [0 .. n + 1 -> Seq(Path)] /\ Q[n + 1] = z
      /\ \A i \in 0 .. n : Q[i] = R[i]
  BY <1>2, <1>6
<1> HIDE DEF Q
<1>8. Q[0] = <<>>
  BY <1>2, <1>7
<1>9. ASSUME NEW i \in 1 .. n + 1 PROVE Q[i] = Below[g[i]] \o Q[i - 1]
  <2>1. CASE i = n + 1
    <3>1. i - 1 = n /\ n \in 0 .. n
      BY <2>1
    <3>2. Q[i - 1] = v
      BY <1>2, <1>7, <3>1
    <3> QED
      BY <1>4, <1>5, <1>7, <2>1, <3>2
  <2>2. CASE i # n + 1
    <3>1. i \in 1 .. n /\ i \in 0 .. n /\ i - 1 \in 0 .. n
      BY <2>2
    <3>2. Q[i] = R[i] /\ Q[i - 1] = R[i - 1]
      BY <1>7, <3>1
    <3> QED
      BY <1>2, <1>4, <3>1, <3>2
  <2> QED
    BY <2>1, <2>2
<1> QED
  BY <1>3, <1>4, <1>5, <1>7, <1>8, <1>9 DEF Covers

\* One directory less.
LEMMA CoversPop ==
  ASSUME NEW f \in Seq(Seq(Entries)), NEW x \in Seq(Entries), NEW g, NEW w,
         g = Append(f, x), Covers(g, w)
  PROVE  ComesAfter(f, x, w)
<1>1. PICK n \in Nat : n = Len(f)
  BY LenProperties
<1>3. Len(g) = n + 1 /\ (\A i \in 1 .. n : g[i] = f[i]) /\ g[n + 1] = x
  BY <1>1, AppendProperties
<1>4. PICK R : /\ R \in [0 .. n + 1 -> Seq(Path)] /\ R[0] = <<>> /\ w = R[n + 1]
               /\ \A i \in 1 .. n + 1 : R[i] = Below[g[i]] \o R[i - 1]
  BY <1>3 DEF Covers
<1>5. w = Below[x] \o R[n]
  <2>1. n + 1 \in 1 .. n + 1 /\ (n + 1) - 1 = n
    OBVIOUS
  <2> QED
    BY <1>3, <1>4, <2>1
<1> DEFINE Q == [i \in 0 .. n |-> R[i]]
<1>6. Q \in [0 .. n -> Seq(Path)] /\ \A i \in 0 .. n : Q[i] = R[i]
  BY <1>4
<1> HIDE DEF Q
<1>7. Q[0] = <<>> /\ Q[n] = R[n] /\ Q[n] \in Seq(Path)
  BY <1>4, <1>6
<1>8. ASSUME NEW i \in 1 .. n PROVE Q[i] = Below[f[i]] \o Q[i - 1]
  <2>1. i \in 1 .. n + 1 /\ i \in 0 .. n /\ i - 1 \in 0 .. n
    OBVIOUS
  <2>2. Q[i] = R[i] /\ Q[i - 1] = R[i - 1]
    BY <1>6, <2>1
  <2> QED
    BY <1>3, <1>4, <2>1, <2>2
<1>9. Covers(f, Q[n])
  BY <1>1, <1>6, <1>7, <1>8 DEF Covers
<1> QED
  BY <1>5, <1>7, <1>9 DEF ComesAfter

\* The open directories are the deepest one and the others.
LEMMA DeepestFrame ==
  ASSUME NEW fs \in Seq(Seq(Entries)), fs # <<>>
  PROVE  /\ fs = Append(Front(fs), Last(fs))
         /\ Front(fs) \in Seq(Seq(Entries)) /\ Last(fs) \in Seq(Entries)
<1>1. PICK f \in Seq(Seq(Entries)), x \in Seq(Entries) : fs = Append(f, x)
  BY SequenceEmptyOrAppend
<1>2. /\ Len(f) \in Nat /\ Len(fs) = Len(f) + 1 /\ fs[Len(f) + 1] = x
      /\ \A i \in 1 .. Len(f) : fs[i] = f[i]
  BY <1>1, AppendProperties, LenProperties
<1>3. Last(fs) = x
  BY <1>2 DEF Last
<1>4. Front(fs) = f
  <2>1. Front(fs) = SubSeq(fs, 1, Len(f))
    <3>1. Len(fs) - 1 = Len(f)
      BY <1>2
    <3> QED
      BY <3>1 DEF Front
  <2>2. Front(fs) = [i \in 1 .. Len(f) |-> fs[i]]
    BY <1>2, <2>1
  <2>3. f = [i \in 1 .. Len(f) |-> f[i]]
    BY LenProperties
  <2> QED
    BY <1>2, <2>2, <2>3
<1> QED
  BY <1>1, <1>3, <1>4

\* A step that does not go on with the walk.
LEMMA WalkUntouched ==
  ASSUME NEW r, NEW k, WalkOK(r),
         k.task = r.task, k.n = r.n, k.tried = r.tried, k.frames = r.frames,
         Walking(k) => Walking(r), k.pc = "walk" => k.task.kind = "w"
  PROVE  WalkOK(k)
<1>1. All(k) <=> All(r)
  BY DEF All
<1> QED
  BY <1>1 DEF WalkOK

\* Nor one that leads elsewhere.
LEMMA WalkElsewhere ==
  ASSUME NEW k, k.pc \notin {"walk", "create", "openW", "append", "closeW"}
  PROVE  WalkOK(k)
BY DEF WalkOK, Walking

\* The walk itself (util_client.c:153-195): a directory at its end, a
\* dotted one, a file and a directory.
LEMMA WalkGoesOn ==
  ASSUME NEW r \in UserState, WalkOK(r), r.pc = "walk", r.frames # <<>>
  PROVE  /\ Last(r.frames) = <<>> \/ (r.n < 1 /\ ~ All(r)) => WalkOK(Pop(r))
         /\ Last(r.frames) # <<>> /\ (r.n >= 1 \/ All(r)) =>
              LET e == Head(Last(r.frames)) IN
              WalkOK(CASE e \in Dotted -> Past(r)
                       [] e \in Path   -> Attempt(Past(r), e)
                       [] OTHER        -> Enter(Past(r), e))
<1>1. PICK fs, f, x : /\ fs = r.frames /\ f = Front(fs) /\ x = Last(fs)
                      /\ fs = Append(f, x) /\ f \in Seq(Seq(Entries)) /\ x \in Seq(Entries)
  BY DeepestFrame DEF UserState
<1>2. /\ r.task.kind = "w" /\ r.task \in Tasks /\ r.n \in Int /\ r.tried \in Seq(Path)
      /\ r.task.n \in Int
      /\ ~ All(r) => r.n \in Nat /\ r.n = r.task.n - Len(r.tried)
  BY DEF WalkOK, Walking, Tasks, UserState
<1>3. PICK w \in Seq(Path) : /\ r.tried \o w = Below[Tree[r.task.dir]]
                             /\ All(r) \/ r.n >= 1 => Covers(fs, w)
  BY <1>1 DEF WalkOK, Walking
<1>4. ASSUME Last(r.frames) = <<>> \/ (r.n < 1 /\ ~ All(r))
      PROVE  WalkOK(Pop(r))
  <2>1. PICK k : k = Pop(r)
    OBVIOUS
  <2>2. /\ k.pc = "walk" /\ k.task = r.task /\ k.n = r.n /\ k.tried = r.tried /\ k.frames = f
    BY <1>1, <2>1 DEF Pop, UserState
  <2>3. All(k) <=> All(r)
    BY <2>2 DEF All
  <2>4. ASSUME All(r) \/ r.n >= 1 PROVE Covers(f, w)
    <3>1. x = <<>>
      BY <1>1, <1>2, <1>4, <2>4
    <3>2. PICK v \in Seq(Path) : Covers(f, v) /\ w = Below[x] \o v
      <4>1. Covers(fs, w)
        BY <1>3, <2>4, Zenon
      <4>2. ComesAfter(f, x, w)
        BY <1>1, <4>1, CoversPop
      <4> QED
        BY <4>2 DEF ComesAfter
    <3>3. w = v
      BY <3>1, <3>2, BelowSolves, ConcatEmptySeq DEF Solves
    <3> QED
      BY <3>2, <3>3
  <2>5. WalkOK(k)
    BY <1>2, <1>3, <2>2, <2>3, <2>4 DEF WalkOK
  <2> QED
    BY <2>1, <2>5
<1>5. ASSUME Last(r.frames) # <<>>, r.n >= 1 \/ All(r),
             NEW e, e = Head(Last(r.frames))
      PROVE  WalkOK(CASE e \in Dotted -> Past(r)
                      [] e \in Path   -> Attempt(Past(r), e)
                      [] OTHER        -> Enter(Past(r), e))
  <2>1. PICK y : y = Tail(x)
    OBVIOUS
  <2>2. x # <<>> /\ e \in Entries /\ y \in Seq(Entries) /\ e = Head(x)
    BY <1>1, <1>5, <2>1, Shorter
  <2>3. Below[x] = Piece(Below, e) \o Below[y] /\ Below[y] \in Seq(Path)
    BY <1>1, <2>1, <2>2, BelowSolves DEF Solves
  <2>4. PICK v \in Seq(Path) : Covers(f, v) /\ w = Below[x] \o v
    <3>1. Covers(fs, w)
      BY <1>3, <1>5, Zenon
    <3>2. ComesAfter(f, x, w)
      BY <1>1, <3>1, CoversPop
    <3> QED
      BY <3>2 DEF ComesAfter
  <2>5. PICK z : z = Below[y] \o v
    OBVIOUS
  <2>6. PICK g : g = Append(f, y)
    OBVIOUS
  <2>7. z \in Seq(Path) /\ g \in Seq(Seq(Entries)) /\ Covers(g, z)
    <3>1. z \in Seq(Path)
      BY <2>3, <2>5, ConcatProperties
    <3>2. g \in Seq(Seq(Entries))
      BY <1>1, <2>2, <2>6, AppendProperties
    <3> QED
      BY <1>1, <2>2, <2>4, <2>5, <2>6, <3>1, <3>2, CoversPush
  <2>8. ASSUME Piece(Below, e) \in Seq(Path) PROVE w = Piece(Below, e) \o z
    <3>1. PICK p, b : p = Piece(Below, e) /\ b = Below[y]
      OBVIOUS
    <3>2. p \in Seq(Path) /\ b \in Seq(Path)
      BY <2>3, <2>8, <3>1, Zenon
    <3>3. (p \o b) \o v = p \o (b \o v)
      BY <3>2, ConcatAssociative
    <3>4. w = (p \o b) \o v
      BY <2>3, <2>4, <3>1, Zenon
    <3>5. z = b \o v
      BY <2>5, <3>1, Zenon
    <3> QED
      BY <3>1, <3>3, <3>4, <3>5, Zenon
  <2>9. PICK q : q = Past(r)
    OBVIOUS
  <2>10. /\ q \in UserState /\ q.pc = "walk" /\ q.task = r.task /\ q.n = r.n
         /\ q.tried = r.tried /\ q.frames = g
    <3>1. q = [r EXCEPT !.frames = g]
      BY <1>1, <2>1, <2>6, <2>9 DEF Past
    <3> QED
      BY <2>7, <3>1 DEF UserState
  <2>11. All(q) <=> All(r)
    BY <2>10 DEF All
  <2>12. CASE e \in Dotted
    <3>1. <<>> \in Seq(Path)
      OBVIOUS
    <3>2. w = z
      <4>1. Piece(Below, e) = <<>>
        BY <2>2, <2>12, Pieces
      <4>2. w = <<>> \o z
        BY <2>8, <3>1, <4>1
      <4> QED
        BY <2>7, <4>2, ConcatEmptySeq
    <3>3. WalkOK(q)
      BY <1>2, <1>3, <2>7, <2>10, <2>11, <3>2 DEF WalkOK
    <3>4. e \notin Path
      BY <2>12, SessionAssumption DEF SessionAssumption
    <3> QED
      BY <2>9, <2>12, <3>3, <3>4
  <2>13. CASE e \in Path
    <3>1. PICK k, n, t : /\ k = [q EXCEPT !.pc = "create", !.path = e, !.n = n, !.tried = t]
                         /\ n = IF All(r) THEN r.n ELSE r.n - 1
                         /\ t = Append(r.tried, e)
      OBVIOUS
    <3>2. k = Attempt(Past(r), e)
      BY <2>9, <2>10, <2>11, <3>1 DEF Attempt
    <3>3. /\ k.pc = "create" /\ k.task = r.task /\ k.n = n /\ k.tried = t /\ k.frames = g
      BY <2>10, <3>1 DEF UserState
    <3>4. All(k) <=> All(r)
      BY <3>3 DEF All
    <3>5. <<e>> \in Seq(Path) /\ w = <<e>> \o z
      <4>1. <<e>> \in Seq(Path) /\ Piece(Below, e) = <<e>>
        BY <2>2, <2>13, Pieces
      <4> QED
        BY <2>8, <4>1
    <3>6. t = r.tried \o <<e>> /\ Len(t) = Len(r.tried) + 1 /\ Len(r.tried) \in Nat
      BY <1>2, <2>13, <3>1, AppendIsConcat, AppendProperties, LenProperties
    <3>7. t \o z = Below[Tree[r.task.dir]]
      <4>1. PICK a \in Seq(Path), o \in Seq(Path) : a = r.tried /\ o = <<e>>
        BY <1>2, <3>5, Zenon
      <4>2. (a \o o) \o z = a \o (o \o z)
        BY <2>7, ConcatAssociative
      <4>3. t = a \o o /\ w = o \o z /\ a \o w = Below[Tree[r.task.dir]]
        BY <1>3, <3>5, <3>6, <4>1, Zenon
      <4> QED
        BY <4>2, <4>3, Zenon
    <3>8. ~ All(k) => k.n \in Nat /\ k.n = k.task.n - Len(k.tried)
      <4> SUFFICES ASSUME ~ All(k)
                   PROVE  k.n \in Nat /\ k.n = k.task.n - Len(k.tried)
        OBVIOUS
      <4>1. PICK a \in Int, b \in Nat, c \in Int : a = r.task.n /\ b = Len(r.tried) /\ c = r.n
        BY <1>2, <3>6, Zenon
      <4>2. c \in Nat /\ c = a - b /\ c >= 1
        BY <1>2, <1>5, <3>4, <4>1, Zenon
      <4>3. n = c - 1
        BY <3>1, <3>4, <4>1
      <4>4. Len(t) = b + 1
        BY <3>6, <4>1
      <4>5. n \in Nat /\ n = a - (b + 1)
        BY <4>2, <4>3
      <4> QED
        BY <3>3, <4>1, <4>4, <4>5, Zenon
    <3>9. WalkOK(k)
      BY <1>2, <2>7, <3>3, <3>7, <3>8 DEF WalkOK
    <3>10. e \notin Dotted
      BY <2>13, SessionAssumption DEF SessionAssumption
    <3> QED
      BY <2>13, <3>2, <3>9, <3>10
  <2>14. CASE e \notin Dotted /\ e \notin Path
    <3>1. e \in DOMAIN Tree /\ Tree[e] \in Seq(Entries)
      BY <2>2, <2>14, SessionAssumption DEF SessionAssumption, Entries
    <3>2. PICK s \in Seq(Entries) : s = Tree[e]
      BY <3>1
    <3>3. PICK h : h = Append(g, s)
      OBVIOUS
    <3>4. PICK k : k = [q EXCEPT !.frames = h]
      OBVIOUS
    <3>5. k = Enter(Past(r), e)
      BY <2>9, <2>10, <3>2, <3>3, <3>4 DEF Enter
    <3>6. h \in Seq(Seq(Entries))
      BY <2>7, <3>2, <3>3, AppendProperties
    <3>7. /\ k.pc = "walk" /\ k.task = r.task /\ k.n = r.n /\ k.tried = r.tried /\ k.frames = h
      BY <2>10, <3>4 DEF UserState
    <3>8. All(k) <=> All(r)
      BY <3>7 DEF All
    <3>9. w = Below[s] \o z
      <4>1. Piece(Below, e) = Below[s] /\ Below[s] \in Seq(Path)
        BY <2>2, <2>14, <3>2, Pieces, BelowSolves
      <4> QED
        BY <2>8, <4>1
    <3>10. Covers(h, w)
      BY <2>7, <3>2, <3>3, <3>9, CoversPush
    <3>11. WalkOK(k)
      BY <1>2, <1>3, <3>7, <3>8, <3>10 DEF WalkOK
    <3> QED
      BY <2>14, <3>5, <3>11
  <2> QED
    BY <2>12, <2>13, <2>14
<1> QED
  BY <1>4, <1>5

\* Where openAppendClose returns to, the walk goes on where it was.
LEMMA WalkReturns ==
  ASSUME NEW r \in UserState, WalkOK(r), r.pc \in Calls, r.pc # "bye", NEW ok \in BOOLEAN
  PROVE  WalkOK(GoOn(r, ok))
<1>1. PICK p : p = After(r, ok)
  OBVIOUS
<1>2. /\ p \in {"walk", "create", "openW", "append", "closeW"} =>
           r.pc \in {"create", "openW", "append", "closeW"}
      /\ p = "walk" => r.task.kind = "w"
  BY <1>1 DEF After, Back, Calls
<1>3. PICK k : k = [r EXCEPT !.pc = p, !.sent = FALSE]
  OBVIOUS
<1>4. /\ k.pc = p /\ k.task = r.task /\ k.n = r.n /\ k.tried = r.tried /\ k.frames = r.frames
  BY <1>3 DEF UserState
<1>5. Walking(k) => Walking(r)
  BY <1>2, <1>4 DEF Walking
<1>6. WalkOK(k)
  BY <1>2, <1>4, <1>5, WalkUntouched
<1> QED
  BY <1>1, <1>3, <1>6 DEF GoOn

\* -w begins (client.c:151-194).
LEMMA WalkBegins ==
  ASSUME NEW q \in UserState, NEW t \in Tasks, q.task = t
  PROVE  WalkOK(Started(q, t))
<1>1. t.kind \in Kinds /\ t.dir \in DOMAIN Tree /\ t.n \in Int
  BY DEF Tasks
<1>2. CASE t.kind = "w"
  <2>1. PICK s \in Seq(Entries) : s = Tree[t.dir]
    BY <1>1, SessionAssumption DEF SessionAssumption
  <2>2. PICK f, e : f = <<s>> /\ e = <<>>
    OBVIOUS
  <2>3. PICK k : k = [q EXCEPT !.pc = "walk", !.frames = f, !.n = t.n, !.tried = e]
    OBVIOUS
  <2>4. k = Started(q, t)
    BY <1>2, <2>1, <2>2, <2>3 DEF Started
  <2>5. /\ k.pc = "walk" /\ k.task = t /\ k.n = t.n /\ k.tried = <<>> /\ k.frames = f
    BY <2>2, <2>3 DEF UserState
  <2>6. PICK w \in Seq(Path) : w = Below[s]
    BY BelowSolves
  <2>7. Covers(f, w)
    <3>1. <<>> \in Seq(Path) /\ <<>> \in Seq(Seq(Entries)) /\ Len(<<>>) = 0
      OBVIOUS
    <3>2. Covers(<<>>, <<>>)
      <4> DEFINE R == [i \in 0 .. 0 |-> <<>>]
      <4>1. R \in [0 .. 0 -> Seq(Path)] /\ R[0] = <<>>
        BY <3>1
      <4> HIDE DEF R
      <4> QED
        BY <3>1, <4>1 DEF Covers
    <3>3. f = Append(<<>>, s) /\ w = Below[s] \o <<>>
      BY <2>2, <2>6, ConcatEmptySeq
    <3> QED
      BY <3>1, <3>2, <3>3, CoversPush
  <2>8. k.tried \o w = Below[Tree[t.dir]]
    BY <2>1, <2>5, <2>6, ConcatEmptySeq
  <2>9. ~ All(k) => k.n \in Nat /\ k.n = k.task.n - Len(k.tried)
    <3>1. Len(k.tried) = 0
      BY <2>5
    <3> QED
      BY <1>1, <2>5, <3>1 DEF All
  <2>10. WalkOK(k)
    BY <1>2, <2>5, <2>7, <2>8, <2>9 DEF WalkOK
  <2> QED
    BY <2>4, <2>10
<1>3. CASE t.kind = "bad"
  <2>1. Started(q, t) = Over(q, "exited")
    BY <1>3 DEF Started
  <2> QED
    BY <2>1, OverFields, WalkElsewhere
<1>4. CASE t.kind \in {"W", "r"}
  <2>1. PICK k : k = [q EXCEPT !.pc = "next", !.left = t.paths]
    OBVIOUS
  <2>2. k = Started(q, t) /\ k.pc = "next"
    BY <1>4, <2>1 DEF Started, UserState
  <2> QED
    BY <2>2, WalkElsewhere
<1>5. CASE t.kind = "R"
  <2>1. PICK k : k = [q EXCEPT !.pc = "readN"]
    OBVIOUS
  <2>2. k = Started(q, t) /\ k.pc = "readN"
    BY <1>5, <2>1 DEF Started, UserState
  <2> QED
    BY <2>2, WalkElsewhere
<1> QED
  BY <1>1, <1>2, <1>3, <1>4, <1>5 DEF Kinds

\* A step of one user.
LEMMA WalkOfOne ==
  ASSUME TypeInv, WalkInv, NEW u \in User, NEW k, Become(u, k), WalkOK(k)
  PROVE  WalkInv'
<1>1. \A v \in User : user'[v] = IF v = u THEN k ELSE user[v]
  BY DEF TypeInv, Become
<1> QED
  BY <1>1 DEF WalkInv

\* The loops over options, files and directories (client.c:144-277,
\* util_client.c:153-195).
LEMMA LoopsWalk ==
  ASSUME IInv, WalkInv, NEW u \in User, Dispatch(u) \/ NextFile(u) \/ Walk(u)
  PROVE  WalkInv'
<1>1. PICK r : r = user[u] /\ r \in UserState /\ WalkOK(r)
  BY Typed DEF WalkInv
<1> SUFFICES \E k : Become(u, k) /\ WalkOK(k)
  BY WalkOfOne DEF IInv
<1>2. CASE Dispatch(u)
  <2>1. CASE r.tasks = <<>>
    <3>1. PICK k : k = [r EXCEPT !.pc = "bye", !.task = NULL]
      OBVIOUS
    <3>2. k.pc = "bye"
      BY <1>1, <3>1 DEF UserState
    <3>3. Become(u, k)
      BY <1>1, <1>2, <2>1, <3>1 DEF Dispatch
    <3> QED
      BY <3>2, <3>3, WalkElsewhere
  <2>2. CASE r.tasks # <<>>
    <3>1. PICK t, ts : t = Head(r.tasks) /\ ts = Tail(r.tasks)
      OBVIOUS
    <3>2. t \in Tasks /\ ts \in Seq(Tasks)
      BY <1>1, <2>2, <3>1 DEF UserState
    <3>3. PICK q : q = [r EXCEPT !.task = t, !.tasks = ts]
      OBVIOUS
    <3>4. q \in UserState /\ q.task = t
      BY <1>1, <3>2, <3>3 DEF UserState
    <3>5. Become(u, Started(q, t))
      BY <1>1, <1>2, <2>2, <3>1, <3>3 DEF Dispatch
    <3> QED
      BY <3>2, <3>4, <3>5, WalkBegins
  <2> QED
    BY <2>1, <2>2
<1>3. CASE NextFile(u)
  <2>1. CASE r.left = <<>>
    <3>1. PICK k : k = [r EXCEPT !.pc = "dispatch"]
      OBVIOUS
    <3>2. k.pc = "dispatch"
      BY <1>1, <3>1 DEF UserState
    <3>3. Become(u, k)
      BY <1>1, <1>3, <2>1, <3>1 DEF NextFile
    <3> QED
      BY <3>2, <3>3, WalkElsewhere
  <2>2. CASE r.left # <<>>
    <3>1. PICK pc, p, l : /\ pc = IF r.task.kind = "W" THEN "create" ELSE "openR"
                          /\ p = Head(r.left) /\ l = Tail(r.left)
      OBVIOUS
    <3>2. PICK k : k = [r EXCEPT !.pc = pc, !.path = p, !.left = l]
      OBVIOUS
    <3>3. k.pc = pc /\ k.task = r.task
      BY <1>1, <3>2 DEF UserState
    <3>4. Become(u, k)
      BY <1>1, <1>3, <2>2, <3>1, <3>2 DEF NextFile
    <3>5. k.pc # "walk" /\ ~ Walking(k)
      BY <3>1, <3>3 DEF Walking
    <3> QED
      BY <3>4, <3>5 DEF WalkOK
  <2> QED
    BY <2>1, <2>2
<1>4. CASE Walk(u)
  <2>1. r.pc = "walk" /\ r.n \in Int
    BY <1>1, <1>4 DEF Walk, Is, UserState
  <2>2. CASE r.frames = <<>>
    <3>1. PICK k : k = [r EXCEPT !.pc = "dispatch"]
      OBVIOUS
    <3>2. k.pc = "dispatch"
      BY <1>1, <3>1 DEF UserState
    <3>3. Become(u, k)
      BY <1>1, <1>4, <2>2, <3>1 DEF Walk
    <3> QED
      BY <3>2, <3>3, WalkElsewhere
  <2>3. CASE r.frames # <<>>
    <3>1. CASE Last(r.frames) = <<>> \/ (r.n < 1 /\ ~ All(r))
      <4>1. ~ (Last(r.frames) # <<>> /\ (r.n >= 1 \/ All(r)))
        BY <2>1, <3>1
      <4>2. Become(u, Pop(r))
        BY <1>1, <1>4, <2>3, <4>1 DEF Walk
      <4> QED
        BY <1>1, <2>1, <2>3, <3>1, <4>2, WalkGoesOn
    <3>2. CASE ~ (Last(r.frames) = <<>> \/ (r.n < 1 /\ ~ All(r)))
      <4>1. PICK e : e = Head(Last(r.frames))
        OBVIOUS
      <4>2. PICK k : k = CASE e \in Dotted -> Past(r)
                           [] e \in Path   -> Attempt(Past(r), e)
                           [] OTHER        -> Enter(Past(r), e)
        OBVIOUS
      <4>3. Last(r.frames) # <<>> /\ (r.n >= 1 \/ All(r))
        BY <2>1, <3>2
      <4>4. Become(u, k)
        BY <1>1, <1>4, <2>3, <3>2, <4>1, <4>2 DEF Walk
      <4>5. WalkOK(k)
        BY <1>1, <2>1, <2>3, <4>1, <4>2, <4>3, WalkGoesOn
      <4> QED
        BY <4>4, <4>5
    <3> QED
      BY <3>1, <3>2
  <2> QED
    BY <2>2, <2>3
<1> QED
  BY <1>2, <1>3, <1>4

\* The calls: sent, answered, or lost with the server.
LEMMA CallsWalk ==
  ASSUME IInv, WalkInv, NEW u \in User, Send(u) \/ Receive(u) \/ Hangup(u) \/ LoseAnswer(u)
  PROVE  WalkInv'
<1>1. PICK r : r = user[u] /\ r \in UserState /\ WalkOK(r) /\ UserOK(r)
  BY Typed DEF WalkInv
<1> SUFFICES \E k : Become(u, k) /\ WalkOK(k)
  BY WalkOfOne DEF IInv
<1>2. \A q \in UserState, pc \in {"ended", "exited"} : WalkOK(Over(q, pc))
  BY OverFields, WalkElsewhere
<1>3. CASE Send(u)
  <2>1. CASE Become(u, Over(r, "exited"))
    BY <1>1, <1>2, <2>1
  <2>2. CASE Become(u, [r EXCEPT !.sent = TRUE])
    <3>1. PICK k : k = [r EXCEPT !.sent = TRUE]
      OBVIOUS
    <3>2. /\ k.pc = r.pc /\ k.task = r.task /\ k.n = r.n /\ k.tried = r.tried
          /\ k.frames = r.frames
      BY <1>1, <3>1 DEF UserState
    <3>3. (Walking(k) => Walking(r)) /\ (k.pc = "walk" => k.task.kind = "w")
      BY <1>1, <3>2 DEF Walking, WalkOK
    <3> QED
      BY <1>1, <2>2, <3>1, <3>2, <3>3, WalkUntouched
  <2> QED
    BY <1>1, <1>3, <2>1, <2>2 DEF Send
<1>4. CASE Receive(u)
  <2>1. r.sent /\ r.pc \in Calls /\ r.pc # "bye"
    BY <1>1, <1>4 DEF Receive, UserOK
  <2>2. PICK ok \in BOOLEAN : Become(u, GoOn(r, ok))
    BY <1>1, <1>4 DEF Receive
  <2> QED
    BY <1>1, <2>1, <2>2, WalkReturns
<1>5. CASE Hangup(u)
  <2>1. r.pc \in {"bye", "byeEarly"}
    BY <1>1, <1>5 DEF Hangup
  <2>2. PICK s : s = [r EXCEPT !.fd = NoClient]
    OBVIOUS
  <2>3. /\ s \in UserState /\ s.pc = r.pc /\ s.task = r.task /\ s.n = r.n
        /\ s.tried = r.tried /\ s.frames = r.frames
    BY <1>1, <2>2 DEF UserState
  <2>4. WalkOK(s)
    BY <2>1, <2>3, WalkElsewhere
  <2>5. Become(u, IF s.pc = "bye" THEN Over(s, "ended") ELSE GoOn(s, TRUE))
    BY <1>1, <1>5, <2>2, <2>3 DEF Hangup
  <2>6. s.pc = "byeEarly" => WalkOK(GoOn(s, TRUE))
    BY <2>3, <2>4, WalkReturns DEF Calls
  <2> QED
    BY <1>2, <2>1, <2>3, <2>5, <2>6
<1>6. CASE LoseAnswer(u)
  <2>1. CASE Become(u, Over(r, "exited"))
    BY <1>1, <1>2, <2>1
  <2>2. CASE /\ r.pc \in Fooling
             /\ LET s == [r EXCEPT !.fooled = @ \cup {r.pc}] IN
                Become(u, IF s.pc = "bye" THEN Over(s, "ended") ELSE GoOn(s, TRUE))
    <3>1. PICK o, s : o = r.fooled \cup {r.pc} /\ s = [r EXCEPT !.fooled = o]
      OBVIOUS
    <3>2. o \in SUBSET Fooling
      BY <1>1, <2>2, <3>1 DEF UserState
    <3>3. /\ s \in UserState /\ s.pc = r.pc /\ s.task = r.task /\ s.n = r.n
          /\ s.tried = r.tried /\ s.frames = r.frames
      BY <1>1, <3>1, <3>2 DEF UserState
    <3>4. (Walking(s) => Walking(r)) /\ (s.pc = "walk" => s.task.kind = "w")
      BY <1>1, <3>3 DEF Walking, WalkOK
    <3>5. WalkOK(s)
      BY <1>1, <3>3, <3>4, WalkUntouched
    <3>6. Become(u, IF s.pc = "bye" THEN Over(s, "ended") ELSE GoOn(s, TRUE))
      BY <2>2, <3>1
    <3>7. s.pc \in Calls
      BY <2>2, <3>3 DEF Fooling, Calls
    <3>8. s.pc # "bye" => WalkOK(GoOn(s, TRUE))
      BY <3>3, <3>5, <3>7, WalkReturns
    <3> QED
      BY <1>2, <3>3, <3>6, <3>8
  <2> QED
    BY <1>1, <1>6, <2>1, <2>2 DEF LoseAnswer
<1> QED
  BY <1>3, <1>4, <1>5, <1>6

\* Users come and are accepted, or are not.
LEMMA ComingWalk ==
  ASSUME IInv, WalkInv, NEW u \in User, Arrive(u) \/ Accept(u) \/ Unaccepted(u)
  PROVE  WalkInv'
<1>1. PICK r : r = user[u] /\ r \in UserState
  BY Typed
<1> SUFFICES \E k : Become(u, k) /\ WalkOK(k)
  BY WalkOfOne DEF IInv
<1>2. WalkOK(Over(Away, "exited"))
  <2>1. Over(Away, "exited").pc = "exited"
    BY DEF Over, Away
  <2> QED
    BY <2>1, WalkElsewhere
<1>3. CASE Arrive(u)
  <2>1. PICK tasks : Become(u, [Away EXCEPT !.pc = "backlog", !.tasks = tasks])
                     \/ Become(u, Over(Away, "exited"))
    BY <1>3 DEF Arrive
  <2>2. PICK k : k = [Away EXCEPT !.pc = "backlog", !.tasks = tasks]
    OBVIOUS
  <2>3. k.pc = "backlog"
    BY <2>2 DEF Away
  <2> QED
    BY <1>2, <2>1, <2>2, <2>3, WalkElsewhere
<1>4. CASE Accept(u)
  <2>1. PICK fd, k : k = [r EXCEPT !.pc = "dispatch", !.fd = fd] /\ Become(u, k)
    BY <1>1, <1>4 DEF Accept
  <2>2. k.pc = "dispatch"
    BY <1>1, <2>1 DEF UserState
  <2> QED
    BY <2>1, <2>2, WalkElsewhere
<1>5. CASE Unaccepted(u)
  BY <1>2, <1>5 DEF Unaccepted
<1> QED
  BY <1>3, <1>4, <1>5

\* The end of the server leaves the walks where they are.
LEMMA LossWalk ==
  ASSUME IInv, WalkInv, Gone
  PROVE  WalkInv'
<1> SUFFICES ASSUME NEW u \in User PROVE WalkOK(user'[u])
  BY DEF WalkInv
<1>1. PICK r : r = user[u] /\ r \in UserState /\ WalkOK(r)
  BY Typed DEF WalkInv
<1>2. PICK k : k = [r EXCEPT !.lost = TRUE, !.fd = NoClient]
  OBVIOUS
<1>3. user'[u] = r \/ user'[u] = k
  BY <1>1, <1>2 DEF Gone, Lost
<1>4. /\ k.pc = r.pc /\ k.task = r.task /\ k.n = r.n /\ k.tried = r.tried
      /\ k.frames = r.frames
  BY <1>1, <1>2 DEF UserState
<1>5. (Walking(k) => Walking(r)) /\ (k.pc = "walk" => k.task.kind = "w")
  BY <1>1, <1>4 DEF Walking, WalkOK
<1>6. WalkOK(k)
  BY <1>1, <1>4, <1>5, WalkUntouched
<1> QED
  BY <1>1, <1>3, <1>6

\* One step of a deployment.
LEMMA WalkStep ==
  ASSUME IInv, WalkInv, [Next]_vars
  PROVE  WalkInv'
<1>1. CASE user' = user
  BY <1>1 DEF WalkInv
<1>2. CASE Gone
  BY <1>2, LossWalk
<1>3. ASSUME NEW u \in User, Arrive(u) \/ Accept(u) \/ Leave(u) \/ Step(u) PROVE WalkInv'
  <2>1. CASE ClientStep(u)
    BY <2>1, LoopsWalk, CallsWalk DEF ClientStep
  <2> QED
    BY <1>3, <2>1, ComingWalk, CallsWalk DEF Step, Leave
<1>4. \/ user' = user \/ Gone
      \/ \E u \in User : Arrive(u) \/ Accept(u) \/ Leave(u) \/ Step(u)
  BY DEF Next, vars, sessions, Configure, BootFails, ThreadsFail, Bind, BindFails, Listen,
         Signal, End, ReadListener, ReadEnd, Restart, Serve, CloseFd
<1> QED
  BY <1>1, <1>2, <1>3, <1>4

\* At the end of a walk: nothing is to come, or as much as was asked for
\* has been attempted.
LEMMA WalkEnds ==
  ASSUME NEW r \in UserState, WalkOK(r), r.pc = "walk", r.frames = <<>>
  PROVE  LET found == Below[Tree[r.task.dir]]
             n     == r.task.n
         IN r.tried = IF n < 1 \/ n > Len(found) THEN found ELSE SubSeq(found, 1, n)
<1>1. PICK a, n, found : a = r.tried /\ n = r.task.n /\ found = Below[Tree[r.task.dir]]
  OBVIOUS
<1>2. Walking(r)
  BY DEF WalkOK, Walking
<1>3. PICK w \in Seq(Path) : /\ a \o w = found
                             /\ n < 1 \/ r.n >= 1 => Covers(<<>>, w)
  BY <1>1, <1>2 DEF WalkOK, All
<1>4. /\ a \in Seq(Path) /\ n \in Int /\ Len(a) \in Nat /\ Len(w) \in Nat
      /\ n >= 1 => r.n \in Nat /\ r.n = n - Len(a)
  <2>1. a \in Seq(Path) /\ n \in Int
    BY <1>1, <1>2 DEF WalkOK, Tasks, UserState
  <2>2. n >= 1 => r.n \in Nat /\ r.n = n - Len(a)
    BY <1>1, <1>2, <2>1 DEF WalkOK, All
  <2> QED
    BY <2>1, <2>2, LenProperties
<1>5. /\ Len(found) = Len(a) + Len(w)
      /\ SubSeq(found, 1, Len(a)) = a
  BY <1>3, <1>4, ConcatProperties, SubSeqOfConcat1
<1>6. a = IF n < 1 \/ n > Len(found) THEN found ELSE SubSeq(found, 1, n)
  <2>1. CASE n < 1 \/ r.n >= 1
    <3>1. w = <<>>
      BY <1>3, <2>1, CoversNothing
    <3>2. a = found /\ Len(a) = Len(found)
      BY <1>3, <1>4, <3>1, ConcatEmptySeq
    <3>3. n < 1 \/ n > Len(found)
      BY <1>4, <2>1, <3>2
    <3> QED
      BY <3>2, <3>3
  <2>2. CASE n >= 1 /\ r.n = 0
    <3>1. Len(a) = n /\ n <= Len(found) /\ Len(found) \in Nat
      BY <1>4, <1>5, <2>2
    <3>2. SubSeq(found, 1, n) = a /\ ~ (n < 1 \/ n > Len(found))
      BY <1>4, <1>5, <2>2, <3>1
    <3> QED
      BY <3>2
  <2>3. n < 1 \/ r.n >= 1 \/ (n >= 1 /\ r.n = 0)
    BY <1>4
  <2> QED
    BY <2>1, <2>2, <2>3
<1> QED
  BY <1>1, <1>6

\* util_client.c:153-195 and client.c:151-194: -w attempts the first N
\* files of every finite tree, all if no limit was given, each once and in
\* order, whatever fails on the way and however deep they are.
THEOREM WalkCorrect == Spec => []WalkIsExact
<1>1. Init => WalkInv
  <2> SUFFICES ASSUME Init, NEW u \in User PROVE WalkOK(user[u])
    BY DEF WalkInv
  <2>1. user[u].pc = "away"
    BY DEF Init, SessionInit, Away
  <2> QED
    BY <2>1, WalkElsewhere
<1>2. IInv /\ WalkInv /\ [Next]_vars => WalkInv'
  BY WalkStep
<1>3. IInv /\ WalkInv => WalkIsExact
  <2> SUFFICES ASSUME IInv, WalkInv, NEW u \in User, Is(u, "walk"), user[u].frames = <<>>
               PROVE  LET found == Below[Tree[user[u].task.dir]]
                          n     == user[u].task.n
                      IN user[u].tried = IF n < 1 \/ n > Len(found) THEN found
                                         ELSE SubSeq(found, 1, n)
    BY DEF WalkIsExact
  <2>1. PICK r : r = user[u] /\ r \in UserState /\ WalkOK(r) /\ r.pc = "walk"
    BY Typed DEF WalkInv, Is
  <2> QED
    BY <2>1, WalkEnds
<1> QED
  BY <1>1, <1>2, <1>3, SessionsInvariant, PTL DEF Spec
==============================================================================
