--------------------------- MODULE StartupProofs ---------------------------
(***************************************************************************)
(* Proofs about module Startup, for every command line, host table and     *)
(* build: whichever call of the start-up fails, what the loop is entered   *)
(* with, what is reported and where.                                       *)
(***************************************************************************)
EXTENDS Startup, ListLemmas

-----------------------------------------------------------------------------
(* What is true at the labels. *)

AtHome     == {"ParseCommandline", "fork", "setsid", "fork again", "chdir"}
Detaching  == {"fork", "setsid", "fork again", "chdir", "close"}
Listening  == {"socket", "bind", "Process"}
Labels     == {"ParseCommandline"} \cup Detaching \cup Listening \cup Ended

Types ==
  /\ pc \in Labels
  /\ commandLine \in Seq(Option)
  /\ optind \in 1..(Len(commandLine) + 1)
  /\ mListenPort \in Int
  /\ mBindAddress = INADDR_ANY
  /\ mDaemon \in BOOLEAN /\ daemon_proc \in BOOLEAN
  /\ descriptors \in [Fd -> {"terminal", "inherited", "closed", "socket", "log"}]

\* The options taken so far decide the port; past the labels of
\* ParseCommandline() they are all taken.
Parsed ==
  /\ mListenPort = PortAskedFor({k \in Given("p") : k < optind})
  /\ pc \in Detaching \cup Listening => optind > Len(commandLine)

\* Up to "close" messages go to the terminal, and a descriptor is free.
Attached ==
  /\ descriptors[1] = "terminal" /\ descriptors[2] = "terminal"
  /\ pc \in AtHome \cup {"close", "socket"} => descriptors[4] = "closed"

\* A daemon has left the session, and its descriptors are its own.
Detached ==
  /\ session = "own" /\ ~leader /\ ~mGracefulQuit
  /\ \A fd \in Fd :
       \/ descriptors[fd] \in {"closed", "log"} /\ (pc = "socket" => descriptors[fd] = "closed")
       \/ descriptors[fd] = "socket" /\ fd = mListenSocket /\ pc # "socket"

Control ==
  /\ pc \in Detaching => mDaemon
  /\ pc \in AtHome => ~daemon_proc
  /\ pc = "close" => daemon_proc
  /\ pc \in Listening => daemon_proc = mDaemon
  /\ pc \in AtHome \cup {"close"} \/ (pc \in Listening /\ ~mDaemon) => Attached
  /\ pc \in Listening /\ mDaemon => Detached
  /\ pc \in AtHome \cup {"close", "socket"} => ~handled /\ ~mGracefulQuit
  /\ pc \in {"fork again", "chdir", "close"} => session = "own"
  /\ pc \in {"chdir", "close"} => ~leader

Bound ==
  /\ pc \in {"bind", "Process"} /\ mListenSocket # -1 =>
       mListenSocket \in Fd /\ descriptors[mListenSocket] = "socket"
  /\ pc = "Process" => /\ mListenSocket # -1
                       /\ local = [addr |-> mBindAddress, port |-> LocalPort(mListenPort)]

\* Nothing has failed while options are parsed; the shell has seen no status
\* but that of the parent of a daemon; reports come from the loop.
Reported ==
  /\ pc = "ParseCommandline" => failure = "none"
  /\ pc \in {"ParseCommandline", "fork"} \/ (pc \in Listening /\ ~mDaemon) => status = None
  /\ pc \notin {"Process", "killed"} => \A w \in written : w.text # "report"

StartInv ==
  /\ Types /\ Parsed /\ Control /\ Bound /\ Reported
  /\ FailureReported /\ MessagesReadable

-----------------------------------------------------------------------------
(* Descriptors and messages. *)

(* Where a descriptor is free, the kernel finds one. *)
LEMMA LowestFreeProperties ==
  ASSUME NEW open, NEW fd \in Fd, open[fd] = "closed"
  PROVE  LowestFree(open) \in Fd /\ open[LowestFree(open)] = "closed"
<1> DEFINE T == {f \in Fd : open[f] = "closed"}
<1>1. T \in SUBSET Nat /\ T # {}
  BY DEF Fd
<1> HIDE DEF T
<1>2. \E i \in T : \A j \in T : i <= j
  BY <1>1, FirstExists
<1>3. Min(T) \in T
  BY <1>2 DEF Min
<1>4. QED
  BY <1>3 DEF LowestFree, T

(* Before the process is a daemon, err_doit() writes to the terminal. *)
LEMMA ToTerminal ==
  ASSUME descriptors[2] = "terminal", ~daemon_proc, NEW text, err_doit(text)
  PROVE  /\ descriptors' = descriptors
         /\ written' = written \cup {Message(text, "stderr", "terminal")}
BY DEF err_doit, Write, Stream

(* A daemon's goes to the log, whose connection takes a free descriptor. *)
LEMMA ToLog ==
  ASSUME Types, Detached, daemon_proc, NEW text, err_doit(text)
  PROVE  /\ written' = written \cup {Message(text, "syslog", "log")}
         /\ \/ descriptors' = descriptors
            \/ \E fd \in Fd : /\ descriptors[fd] = "closed"
                              /\ descriptors' = [descriptors EXCEPT ![fd] = "log"]
<1>1. written' = written \cup {Message(text, "syslog", "log")}
  BY DEF err_doit, syslog
<1>2. CASE \E fd \in Fd : descriptors[fd] = "log"
  BY <1>1, <1>2 DEF err_doit, syslog
<1>3. CASE ~\E fd \in Fd : descriptors[fd] = "log"
  <2>1. \E fd \in Fd : descriptors[fd] = "closed"
    <3>1. 0 \in Fd /\ 1 \in Fd
      BY DEF Fd
    <3>2. QED
      BY <1>3, <3>1 DEF Detached
  <2>2. LowestFree(descriptors) \in Fd /\ descriptors[LowestFree(descriptors)] = "closed"
    BY <2>1, LowestFreeProperties
  <2>3. descriptors' = [descriptors EXCEPT ![LowestFree(descriptors)] = "log"]
    BY <1>3 DEF err_doit, syslog
  <2>4. QED
    BY <1>1, <2>2, <2>3
<1>4. QED
  BY <1>2, <1>3

-----------------------------------------------------------------------------
(* The options. *)

(* One more option: the port is its argument, if it has a number for one. *)
LEMMA PortOfNext ==
  ASSUME commandLine \in Seq(Option), optind \in 1..Len(commandLine)
  PROVE  PortAskedFor({k \in Given("p") : k < optind + 1})
           = IF commandLine[optind].opt = "p" /\ commandLine[optind].arg # Unparsable
             THEN commandLine[optind].arg
             ELSE PortAskedFor({k \in Given("p") : k < optind})
<1> DEFINE Numbers(n) ==
      {k \in {j \in Given("p") : j < n} : commandLine[k].arg # Unparsable}
<1>1. Len(commandLine) \in Nat /\ DOMAIN commandLine = 1..Len(commandLine)
  BY LenProperties
<1>2. Given("p") \subseteq 1..Len(commandLine)
  BY <1>1 DEF Given
<1>3. CASE commandLine[optind].opt = "p" /\ commandLine[optind].arg # Unparsable
  <2> DEFINE N == Numbers(optind + 1)
  <2>1. optind \in N /\ \A k \in N : k \in Nat /\ optind >= k
    BY <1>1, <1>2, <1>3 DEF Given
  <2> HIDE DEF N
  <2>2. Max(N) = optind
    <3>1. \A x \in N : (\A y \in N : x >= y) => x = optind
      BY <2>1
    <3>2. QED
      BY <2>1, <3>1 DEF Max
  <2>3. PortAskedFor({k \in Given("p") : k < optind + 1}) = LastArg(N)
    BY <2>1 DEF PortAskedFor, N
  <2>4. QED
    BY <1>3, <2>2, <2>3 DEF LastArg
<1>4. CASE ~(commandLine[optind].opt = "p" /\ commandLine[optind].arg # Unparsable)
  <2>1. Numbers(optind + 1) = Numbers(optind)
    BY <1>1, <1>2, <1>4 DEF Given
  <2>2. QED
    BY <1>4, <2>1 DEF PortAskedFor
<1>5. QED
  BY <1>3, <1>4

(* An option takes the place of the next one, and decides the port if it   *)
(* is a -p with a number.                                                  *)
LEMMA OptionTaken ==
  ASSUME Types, Parsed, NEW opt, Getopt(opt),
         mListenPort' = IF opt = "p" /\ optarg # Unparsable THEN optarg ELSE mListenPort,
         pc' \in {"ParseCommandline", "exited"}
  PROVE  /\ commandLine' = commandLine
         /\ optind' \in 1..(Len(commandLine') + 1)
         /\ mListenPort' \in Int
         /\ Parsed'
         /\ UNCHANGED <<session, leader, handled, mGracefulQuit, daemon_proc,
                        mListenSocket, local>>
<1>1. Len(commandLine) \in Nat
  BY LenProperties DEF Types
<1>2. /\ optind \in 1..Len(commandLine) /\ optind' = optind + 1
      /\ commandLine' = commandLine /\ commandLine[optind].opt = opt
  BY <1>1 DEF Getopt, Types
<1>3. mListenPort' = PortAskedFor({k \in Given("p") : k < optind + 1})
  BY <1>2, PortOfNext DEF Types, Parsed, optarg
<1>4. mListenPort' = PortAskedFor({k \in Given("p") : k < optind})'
  BY <1>2, <1>3 DEF PortAskedFor, Given, LastArg
<1>5. Parsed'
  <2>1. pc' \notin Detaching \cup Listening
    BY DEF Detaching, Listening
  <2>2. QED
    BY <1>4, <2>1, Zenon DEF Parsed
<1>6. optind' \in 1..(Len(commandLine') + 1)
  BY <1>1, <1>2
<1>7. mListenPort' \in Int
  <2>1. commandLine[optind] \in Option
    BY <1>2, ElementOfSeq DEF Types
  <2>2. opt = "p" /\ optarg # Unparsable => optarg \in Int
    BY <1>2, <2>1 DEF Option, optarg
  <2>3. QED
    BY <2>2 DEF Types
<1>8. UNCHANGED <<session, leader, handled, mGracefulQuit, daemon_proc,
                  mListenSocket, local>>
  BY DEF Getopt, process
<1>9. QED
  BY <1>2, <1>5, <1>6, <1>7, <1>8

(* What is written adds a message of the given text. *)
LEMMA WriteAdds ==
  ASSUME NEW text, NEW stream, Write(text, stream), text # "report",
         \A w \in written : w.text # "report"
  PROVE  descriptors' = descriptors /\ \A w \in written' : w.text # "report"
BY DEF Write, Message

\* The state in which the options are parsed.
Parsing ==
  /\ Types /\ Parsed /\ pc = "ParseCommandline"
  /\ Attached /\ ~daemon_proc /\ ~handled /\ ~mGracefulQuit
  /\ failure = "none" /\ status = None
  /\ \A w \in written : w.text # "report"

(* An option that is taken leaves that state as it is, or ends the process *)
(* with a status that tells a failure.                                     *)
LEMMA OptionKept ==
  ASSUME Parsing, ParseCommandline, ~Announce
  PROVE  \/ Parsing'
         \/ /\ pc' = "exited"
            /\ Types' /\ Parsed' /\ FailureReported'
            /\ \A w \in written' : w.text # "report"
<1> USE DEF Parsing
<1>1. ASSUME NEW opt, Getopt(opt), mBindAddress' = mBindAddress, mDaemon' \in BOOLEAN,
             mListenPort' = IF opt = "p" /\ optarg # Unparsable THEN optarg ELSE mListenPort,
             \/ pc' = "ParseCommandline" /\ UNCHANGED <<status, failure>>
             \/ pc' = "exited" /\ (failure' = "none" \/ status' # 0),
             \/ Silent
             \/ \E text \in {"version", "help", "no such host", "unknown option"} :
                  \E stream : Write(text, stream)
      PROVE  \/ Parsing'
             \/ /\ pc' = "exited"
                /\ Types' /\ Parsed' /\ FailureReported'
                /\ \A w \in written' : w.text # "report"
  <2>1. descriptors' = descriptors /\ \A w \in written' : w.text # "report"
    BY <1>1, WriteAdds DEF Silent
  <2>2. /\ commandLine' = commandLine
        /\ optind' \in 1..(Len(commandLine') + 1)
        /\ mListenPort' \in Int
        /\ Parsed'
        /\ UNCHANGED <<session, leader, handled, mGracefulQuit, daemon_proc,
                       mListenSocket, local>>
    BY <1>1, OptionTaken
  <2>3. Types'
    BY <1>1, <2>1, <2>2 DEF Types, Labels, Ended
  <2>4. CASE pc' = "ParseCommandline"
    <3>1. Attached'
      BY <2>1, <2>4 DEF Attached
    <3>2. failure' = failure /\ status' = status
      BY <1>1, <2>4
    <3>3. QED
      BY <2>1, <2>2, <2>3, <2>4, <3>1, <3>2
  <2>5. CASE pc' = "exited"
    <3>1. FailureReported'
      BY <1>1, <2>5 DEF FailureReported
    <3>2. QED
      BY <2>1, <2>2, <2>3, <2>5, <3>1
  <2>6. QED
    BY <1>1, <2>4, <2>5
<1>2. CASE VersionAndLicense
  <2>1. Getopt("v") /\ Write("version", "stdout") /\ pc' = "exited" /\ failure' = "none"
    BY <1>2 DEF VersionAndLicense, exit
  <2>2. mBindAddress' = mBindAddress /\ mDaemon' \in BOOLEAN /\ mListenPort' = mListenPort
    BY <1>2 DEF VersionAndLicense, Types
  <2>3. QED
    BY <1>1, <2>1, <2>2
<1>2a. CASE Help
  <2>1. Getopt("h") /\ Write("help", "stdout") /\ pc' = "exited" /\ failure' = "none"
    BY <1>2a DEF Help, exit
  <2>2. mBindAddress' = mBindAddress /\ mDaemon' \in BOOLEAN /\ mListenPort' = mListenPort
    BY <1>2a DEF Help, Types
  <2>3. QED
    BY <1>1, <2>1, <2>2
<1>3. CASE OptPort
  BY <1>1, <1>3 DEF OptPort, NotEnding, Types
<1>4. CASE OptQuiet \/ OptDaemon \/ Operand
  BY <1>1, <1>4 DEF OptQuiet, OptDaemon, Operand, NotEnding, Types
<1>5. CASE OptExecute \/ OptUnknown
  BY <1>1, <1>5 DEF OptExecute, OptUnknown, NotEnding, Types
<1>6. CASE OptServerIp
  <2>1. Getopt("s") /\ mDaemon' = mDaemon /\ mListenPort' = mListenPort
    BY <1>6 DEF OptServerIp
  <2>2. CASE LookupHost(optarg) /\ NotEnding /\ Silent
    BY <1>1, <2>1, <2>2 DEF LookupHost, NotEnding, Types
  <2>3. CASE Write("no such host", "stdout") /\ exit(1) /\ mBindAddress' = mBindAddress
    <3>1. pc' = "exited" /\ status' = 1
      BY <2>3 DEF exit
    <3>2. mBindAddress' = mBindAddress /\ mDaemon' \in BOOLEAN
      BY <2>1, <2>3 DEF Types
    <3>3. \E text \in {"version", "help", "no such host", "unknown option"} :
            \E stream : Write(text, stream)
      BY <2>3
    <3>4. status' # 0
      BY <3>1, SMT
    <3>5. QED
      BY <1>1, <2>1, <3>1, <3>2, <3>3, <3>4
  <2>4. QED
    BY <1>6, <2>2, <2>3 DEF OptServerIp
<1>7. QED
  BY <1>2, <1>2a, <1>3, <1>4, <1>5, <1>6 DEF ParseCommandline

-----------------------------------------------------------------------------
(* The steps. *)

(* Of the options, those before the end of the command line are all.       *)
LEMMA AllGiven ==
  ASSUME Types, optind > Len(commandLine)
  PROVE  {k \in Given("p") : k < optind} = Given("p")
<1>1. Len(commandLine) \in Nat /\ DOMAIN commandLine = 1..Len(commandLine)
  BY LenProperties DEF Types
<1>2. QED
  BY <1>1 DEF Given, Types

(* What is parsed stays parsed when neither options nor place change.      *)
LEMMA ParsedKept ==
  ASSUME Parsed, UNCHANGED <<commandLine, optind, mListenPort>>,
         pc' \in Detaching \cup Listening => optind > Len(commandLine)
  PROVE  Parsed'
<1>1. {k \in Given("p") : k < optind}' = {k \in Given("p") : k < optind}
  BY DEF Given
<1>2. PortAskedFor({k \in Given("p") : k < optind})'
        = PortAskedFor({k \in Given("p") : k < optind})
  BY <1>1 DEF PortAskedFor, LastArg
<1>3. QED
  BY <1>2 DEF Parsed

(* The options and the announcement of them keep the invariant.            *)
LEMMA ParseCommandlineKeeps ==
  ASSUME StartInv, ParseCommandline
  PROVE  StartInv'
<1>1. pc = "ParseCommandline"
  BY DEF ParseCommandline, VersionAndLicense, Help, OptPort, OptQuiet, OptServerIp,
         OptDaemon, OptExecute, OptUnknown, Operand, Announce, Getopt
<1>2. Parsing
  BY <1>1 DEF Parsing, StartInv, Control, Reported, AtHome
<1>3. CASE ~Announce
  <2>1. CASE Parsing'
    <3>1. Control' /\ Bound' /\ Reported' /\ FailureReported' /\ MessagesReadable'
      BY <2>1 DEF Parsing, Control, Bound, Reported, FailureReported, MessagesReadable,
                  AtHome, Detaching, Listening
    <3>2. QED
      BY <2>1, <3>1 DEF StartInv, Parsing
  <2>2. CASE /\ pc' = "exited"
             /\ Types' /\ Parsed' /\ FailureReported'
             /\ \A w \in written' : w.text # "report"
    <3>1. Control' /\ Bound' /\ Reported' /\ MessagesReadable'
      BY <2>2 DEF Control, Bound, Reported, MessagesReadable, AtHome, Detaching, Listening
    <3>2. QED
      BY <2>2, <3>1 DEF StartInv
  <2>3. QED
    BY <1>2, <1>3, <2>1, <2>2, OptionKept
<1>4. CASE Announce
  <2>1. descriptors' = descriptors /\ \A w \in written' : w.text # "report"
    BY <1>2, <1>4, WriteAdds DEF Announce, Silent, Parsing
  <2>2. Types'
    BY <1>2, <1>4, <2>1 DEF Announce, Parsing, Types, Labels, Detaching, Listening
  <2>3. Parsed'
    BY <1>2, <1>4, ParsedKept DEF Announce, Parsing
  <2>4. Attached'
    BY <1>2, <1>4, <2>1, <1>1 DEF Announce, Parsing, Attached, AtHome
  <2>5. /\ pc' = IF mDaemon THEN "fork" ELSE "socket"
        /\ UNCHANGED <<mDaemon, daemon_proc, handled, mGracefulQuit, failure, status>>
    BY <1>4 DEF Announce, process
  <2>6. mDaemon \in BOOLEAN /\ daemon_proc = FALSE /\ ~handled /\ ~mGracefulQuit /\ status = None
    BY <1>2 DEF Parsing, Types
  <2>7. Control'
    BY <2>4, <2>5, <2>6 DEF Control, AtHome, Detaching, Listening
  <2>8. Bound' /\ Reported' /\ FailureReported' /\ MessagesReadable'
    BY <2>1, <2>5, <2>6 DEF Bound, Reported, FailureReported, MessagesReadable
  <2>9. QED
    BY <2>2, <2>3, <2>7, <2>8 DEF StartInv
<1>5. QED
  BY <1>3, <1>4

(* The options keep their values from Announce on.                         *)
LEMMA OptionsKept ==
  ASSUME StartInv, UNCHANGED options, pc' \in Labels, daemon_proc' \in BOOLEAN,
         descriptors' \in [Fd -> {"terminal", "inherited", "closed", "socket", "log"}],
         pc' \in Detaching \cup Listening => pc \in Detaching \cup Listening
  PROVE  Types' /\ Parsed' /\ mDaemon' = mDaemon
<1>1. UNCHANGED <<commandLine, optind, mListenPort, mBindAddress, mDaemon>>
  BY DEF options
<1>2. Types'
  BY <1>1 DEF StartInv, Types
<1>3. pc' \in Detaching \cup Listening => optind > Len(commandLine)
  BY DEF StartInv, Parsed
<1>4. Parsed'
  BY <1>1, <1>3, ParsedKept DEF StartInv
<1>5. QED
  BY <1>1, <1>2, <1>4

(* Nothing is reported before the loop.                                    *)
LEMMA NoReportYet ==
  ASSUME Reported, pc \notin {"Process", "killed"}, NEW text, text # "report",
         NEW stream, NEW sink,
         written' = written \/ written' = written \cup {Message(text, stream, sink)}
  PROVE  \A w \in written' : w.text # "report"
<1>1. \A w \in written : w.text # "report"
  BY DEF Reported
<1>2. Message(text, stream, sink).text # "report"
  BY DEF Message
<1>3. QED
  BY <1>1, <1>2

(* The steps of Daemonize() keep the invariant.                            *)
LEMMA DaemonizeKeeps ==
  ASSUME StartInv, Daemonize
  PROVE  StartInv'
<1> DEFINE Kinds == {"terminal", "inherited", "closed", "socket", "log"}
<1>1. UNCHANGED options
  BY DEF Daemonize, ForkFails, Fork, Setsid, ForkAgain, Chdir, CloseAll
<1>2. Types /\ Control /\ Reported /\ MessagesReadable
  BY DEF StartInv
<1>3. CASE ForkFails
  <2>1. pc \in {"fork", "fork again"} /\ Attached /\ ~daemon_proc
    BY <1>2, <1>3 DEF ForkFails, Control, AtHome
  <2>2. /\ descriptors' = descriptors
        /\ written' = written \cup {Message("fork", "stderr", "terminal")}
    BY <1>3, <2>1, ToTerminal DEF ForkFails, Attached
  <2>3. pc' = "exited" /\ failure' = "fork" /\ daemon_proc' = daemon_proc
    BY <1>3 DEF ForkFails, exit
  <2>4. Types' /\ Parsed'
    BY <1>1, <1>2, <2>2, <2>3, OptionsKept DEF Types, Labels, Ended, Detaching, Listening
  <2>5. Message("fork", "stderr", "terminal") \in written'
    BY <2>2
  <2>6. FailureReported'
    BY <2>3, <2>5 DEF FailureReported, Message
  <2>7. \A w \in written' : w.text # "report"
    BY <1>2, <2>1, <2>2, NoReportYet
  <2>8. Control' /\ Bound' /\ Reported' /\ MessagesReadable'
    BY <2>3, <2>7 DEF Control, Bound, Reported, MessagesReadable, AtHome, Detaching, Listening
  <2>9. QED
    BY <2>4, <2>6, <2>8 DEF StartInv
<1>4. ASSUME pc \in Detaching, pc' \in Detaching \cup {"socket"},
             descriptors' \in [Fd -> Kinds], daemon_proc' \in BOOLEAN, Control',
             written' = written \/ \E stream : Write("chdir", stream)
      PROVE  StartInv'
  <2>1. Types' /\ Parsed' /\ mDaemon' = mDaemon /\ mDaemon
    BY <1>1, <1>2, <1>4, OptionsKept DEF Labels, Detaching, Listening, Control
  <2>2. \A w \in written' : w.text # "report"
    <3>1. pc \notin {"Process", "killed"}
      BY <1>4 DEF Detaching
    <3>2. CASE written' = written
      BY <1>2, <3>1, <3>2, NoReportYet
    <3>3. CASE \E stream : Write("chdir", stream)
      BY <1>2, <3>1, <3>3, NoReportYet DEF Write
    <3>4. QED
      BY <1>4, <3>2, <3>3
  <2>3. pc' # "fork"
    BY <1>1, <1>2, <1>4 DEF Daemonize, ForkFails, Fork, Setsid, ForkAgain, Chdir, CloseAll, exit
  <2>4. Bound' /\ Reported' /\ FailureReported' /\ MessagesReadable'
    BY <1>4, <2>1, <2>2, <2>3
       DEF Bound, Reported, FailureReported, MessagesReadable, Detaching, Listening
  <2>5. QED
    BY <1>4, <2>1, <2>4 DEF StartInv
<1>5. CASE Fork \/ Setsid \/ ForkAgain
  <2>1. /\ pc \in {"fork", "setsid", "fork again"}
        /\ pc' \in {"setsid", "fork again", "chdir"}
        /\ UNCHANGED <<descriptors, written, daemon_proc, handled, mGracefulQuit>>
        /\ pc' = "fork again" => session' = "own"
        /\ pc' = "chdir" => session' = session /\ ~leader' /\ pc = "fork again"
    BY <1>5 DEF Fork, Setsid, ForkAgain, Silent, process
  <2>2. Attached /\ ~daemon_proc /\ mDaemon /\ ~handled /\ ~mGracefulQuit
        /\ (pc = "fork again" => session = "own")
    BY <1>2, <2>1 DEF Control, AtHome, Detaching
  <2>3. Attached' /\ mDaemon'
    BY <1>1, <2>1, <2>2 DEF Attached, AtHome, options
  <2>4. Control'
    BY <2>1, <2>2, <2>3 DEF Control, AtHome, Detaching, Listening
  <2>5. QED
    BY <1>2, <1>4, <2>1, <2>4 DEF Types, Detaching
<1>6. CASE Chdir
  <2>1. /\ pc = "chdir" /\ pc' = "close" /\ daemon_proc' = TRUE
        /\ descriptors' = descriptors
        /\ written' = written \/ Write("chdir", "stderr")
        /\ UNCHANGED <<session, leader, handled, mGracefulQuit>>
    BY <1>6 DEF Chdir, Silent, Write, process
  <2>2. Attached /\ mDaemon /\ session = "own" /\ ~leader /\ ~handled /\ ~mGracefulQuit
    BY <1>2, <2>1 DEF Control, AtHome, Detaching
  <2>3. Attached' /\ mDaemon'
    BY <1>1, <2>1, <2>2 DEF Attached, AtHome, options
  <2>4. Control'
    BY <2>1, <2>2, <2>3 DEF Control, AtHome, Detaching, Listening
  <2>5. QED
    BY <1>2, <1>4, <2>1, <2>4 DEF Types, Detaching
<1>7. CASE CloseAll
  <2>1. /\ pc = "close" /\ pc' = "socket"
        /\ descriptors' = [fd \in Fd |-> "closed"]
        /\ UNCHANGED <<session, leader, handled, mGracefulQuit, daemon_proc, written>>
    BY <1>7 DEF CloseAll, process
  <2>2. mDaemon /\ daemon_proc /\ session = "own" /\ ~leader /\ ~handled /\ ~mGracefulQuit
    BY <1>2, <2>1 DEF Control, AtHome, Detaching
  <2>3. Detached' /\ mDaemon' = mDaemon
    BY <1>1, <2>1, <2>2 DEF Detached, options
  <2>4. daemon_proc' = mDaemon'
    BY <1>2, <2>1, <2>2, <2>3 DEF Types
  <2>5. Control'
    BY <2>1, <2>2, <2>3, <2>4 DEF Control, AtHome, Detaching, Listening
  <2>6. QED
    BY <1>2, <1>4, <2>1, <2>5 DEF Types, Detaching
<1>8. QED
  BY <1>3, <1>5, <1>6, <1>7 DEF Daemonize

(* Wherever err_doit() is called, someone can read what it writes, and a   *)
(* daemon's descriptors stay its own.                                      *)
LEMMA ErrDoit ==
  ASSUME StartInv, pc \in Listening, NEW text, err_doit(text),
         mListenSocket' = mListenSocket \/ pc = "socket",
         pc' \in {"bind", "Process", "exited"},
         UNCHANGED <<session, leader, mGracefulQuit>>
  PROVE  /\ IF mDaemon THEN written' = written \cup {Message(text, "syslog", "log")}
                       ELSE written' = written \cup {Message(text, "stderr", "terminal")}
         /\ descriptors' \in [Fd -> {"terminal", "inherited", "closed", "socket", "log"}]
         /\ IF mDaemon THEN Detached' ELSE Attached'
         /\ \A fd \in Fd : descriptors[fd] = "socket" => descriptors'[fd] = "socket"
<1>1. Types /\ daemon_proc = mDaemon
  BY DEF StartInv, Control
<1>2. CASE mDaemon
  <2>1. Detached
    BY <1>2 DEF StartInv, Control
  <2>2. /\ written' = written \cup {Message(text, "syslog", "log")}
        /\ \/ descriptors' = descriptors
           \/ \E fd \in Fd : /\ descriptors[fd] = "closed"
                             /\ descriptors' = [descriptors EXCEPT ![fd] = "log"]
    BY <1>1, <1>2, <2>1, ToLog
  <2>3. \A fd \in Fd : descriptors'[fd] = descriptors[fd] \/ (descriptors[fd] = "closed" /\ descriptors'[fd] = "log")
    BY <1>1, <2>2 DEF Types
  <2>4. descriptors' \in [Fd -> {"terminal", "inherited", "closed", "socket", "log"}]
    BY <1>1, <2>2 DEF Types
  <2>5. Detached'
    BY <2>1, <2>3 DEF Detached
  <2>6. \A fd \in Fd : descriptors[fd] = "socket" => descriptors'[fd] = "socket"
    BY <2>3
  <2>7. QED
    BY <1>2, <2>2, <2>4, <2>5, <2>6
<1>3. CASE ~mDaemon
  <2>1. Attached
    BY <1>3 DEF StartInv, Control
  <2>2. descriptors' = descriptors
        /\ written' = written \cup {Message(text, "stderr", "terminal")}
    BY <1>1, <1>3, <2>1, ToTerminal DEF Attached
  <2>3. Attached'
    BY <2>1, <2>2 DEF Attached, AtHome
  <2>4. QED
    BY <1>1, <1>3, <2>2, <2>3 DEF Types
<1>4. QED
  BY <1>2, <1>3

(* The steps of the rest of Initialize() keep the invariant.               *)
LEMMA InitializeKeeps ==
  ASSUME StartInv, Socket \/ SocketFails \/ Bind \/ BindFails
  PROVE  StartInv'
<1> DEFINE Kinds == {"terminal", "inherited", "closed", "socket", "log"}
<1>1. UNCHANGED options /\ pc \in {"socket", "bind"}
  BY DEF Socket, SocketFails, Bind, BindFails
<1>2. Types /\ Control /\ Reported /\ Bound /\ daemon_proc \in BOOLEAN
      /\ daemon_proc = mDaemon
  BY <1>1 DEF StartInv, Types, Control, Listening
<1>3. UNCHANGED <<session, leader, mGracefulQuit, daemon_proc>>
  BY DEF Socket, SocketFails, Bind, BindFails, process
<1>4. ASSUME pc' \in {"bind", "Process"}, descriptors' \in [Fd -> Kinds],
             status' = status, Bound',
             IF mDaemon THEN Detached' ELSE Attached',
             \A w \in written' : w.text # "report"
      PROVE  StartInv'
  <2>1. Types' /\ Parsed' /\ mDaemon' = mDaemon
    BY <1>1, <1>2, <1>3, <1>4, OptionsKept DEF Labels, Listening
  <2>2. Control'
    BY <1>2, <1>3, <1>4, <2>1 DEF Control, AtHome, Detaching, Listening
  <2>3. ~mDaemon => status' = None
    BY <1>1, <1>2, <1>4 DEF Reported, Listening
  <2>4. Reported' /\ FailureReported' /\ MessagesReadable'
    BY <1>4, <2>1, <2>3 DEF Reported, FailureReported, MessagesReadable, Listening
  <2>5. QED
    BY <1>4, <2>1, <2>2, <2>4 DEF StartInv
<1>5. CASE Socket
  <2>1. /\ pc = "socket" /\ pc' = "bind" /\ UNCHANGED <<status, written>>
        /\ mListenSocket' = LowestFree(descriptors)
        /\ descriptors' = [descriptors EXCEPT ![mListenSocket'] = "socket"]
    BY <1>5 DEF Socket
  <2>2. ASSUME mDaemon PROVE mListenSocket' \in Fd /\ Detached'
    <3>1. Detached
      BY <1>2, <2>1, <2>2 DEF Control, Listening
    <3>2. 0 \in Fd /\ descriptors[0] = "closed"
      BY <2>1, <3>1 DEF Detached, Fd
    <3>3. mListenSocket' \in Fd
      BY <2>1, <3>2, LowestFreeProperties
    <3>4. Detached'
      BY <1>2, <1>3, <2>1, <3>1, <3>3 DEF Detached, Types
    <3>5. QED
      BY <3>3, <3>4
  <2>3. ASSUME ~mDaemon PROVE mListenSocket' \in Fd /\ Attached'
    <3>1. Attached
      BY <1>2, <2>1, <2>3 DEF Control, Listening
    <3>2. 4 \in Fd /\ descriptors[4] = "closed"
      BY <2>1, <3>1 DEF Attached, Fd
    <3>3. mListenSocket' \in Fd /\ descriptors[mListenSocket'] = "closed"
      BY <2>1, <3>2, LowestFreeProperties
    <3>4. mListenSocket' # 1 /\ mListenSocket' # 2
      BY <3>1, <3>3 DEF Attached
    <3>5. Attached'
      BY <1>2, <2>1, <3>1, <3>3, <3>4 DEF Attached, AtHome, Types
    <3>6. QED
      BY <3>3, <3>5
  <2>4. mListenSocket' \in Fd /\ (IF mDaemon THEN Detached' ELSE Attached')
    BY <2>2, <2>3
  <2>5. descriptors' \in [Fd -> Kinds] /\ descriptors'[mListenSocket'] = "socket"
    BY <1>2, <2>1, <2>4 DEF Types
  <2>6. Bound'
    BY <2>1, <2>4, <2>5 DEF Bound
  <2>7. \A w \in written' : w.text # "report"
    BY <1>2, <2>1 DEF Reported
  <2>8. QED
    BY <1>4, <2>1, <2>4, <2>5, <2>6, <2>7
<1>6. CASE SocketFails
  <2>1. /\ pc = "socket" /\ pc' = "bind" /\ status' = status
        /\ mListenSocket' = -1 /\ err_doit("socket")
    BY <1>6 DEF SocketFails
  <2>2. /\ descriptors' \in [Fd -> Kinds]
        /\ IF mDaemon THEN Detached' ELSE Attached'
        /\ \E stream, sink : written' = written \cup {Message("socket", stream, sink)}
    BY <1>3, <2>1, ErrDoit DEF Listening
  <2>3. \A w \in written' : w.text # "report"
    BY <1>2, <2>1, <2>2, NoReportYet
  <2>4. Bound'
    BY <2>1 DEF Bound
  <2>5. QED
    BY <1>4, <2>1, <2>2, <2>3, <2>4
<1>7. CASE Bind
  <2>1. /\ pc = "bind" /\ pc' = "Process" /\ mListenSocket # -1
        /\ local' = [addr |-> mBindAddress, port |-> LocalPort(mListenPort)]
        /\ UNCHANGED <<status, mListenSocket, descriptors, written>>
    BY <1>7 DEF Bind, Silent
  <2>2. mBindAddress' = mBindAddress /\ mListenPort' = mListenPort
    BY <1>1 DEF options
  <2>3. Bound'
    BY <1>2, <2>1, <2>2 DEF Bound, LocalPort, htons
  <2>4. ASSUME mDaemon PROVE Detached'
    <3>1. Detached
      BY <1>2, <2>1, <2>4 DEF Control, Listening
    <3>2. QED
      BY <1>3, <2>1, <3>1 DEF Detached
  <2>5. ASSUME ~mDaemon PROVE Attached'
    <3>1. Attached
      BY <1>2, <2>1, <2>5 DEF Control, Listening
    <3>2. QED
      BY <2>1, <3>1 DEF Attached, AtHome
  <2>6. \A w \in written' : w.text # "report"
    BY <1>2, <2>1 DEF Reported
  <2>7. IF mDaemon THEN Detached' ELSE Attached'
    BY <2>4, <2>5
  <2>8. QED
    BY <1>2, <1>4, <2>1, <2>3, <2>6, <2>7 DEF Types
<1>8. CASE BindFails
  <2>1. /\ pc = "bind" /\ pc' = "exited" /\ failure' = "bind"
        /\ mListenSocket' = mListenSocket /\ err_doit("bind")
    BY <1>8 DEF BindFails, exit
  <2>2. /\ descriptors' \in [Fd -> Kinds]
        /\ IF mDaemon THEN written' = written \cup {Message("bind", "syslog", "log")}
                      ELSE written' = written \cup {Message("bind", "stderr", "terminal")}
    BY <1>3, <2>1, ErrDoit DEF Listening
  <2>3. \A w \in written' : w.text # "report"
    BY <1>2, <2>1, <2>2, NoReportYet
  <2>4. \E w \in written' : w.text = failure' /\ w.sink \in {"terminal", "log"}
    <3>1. PICK m \in {Message("bind", "syslog", "log"),
                      Message("bind", "stderr", "terminal")} : m \in written'
      BY <2>2
    <3>2. m.text = "bind" /\ m.sink \in {"terminal", "log"}
      BY DEF Message
    <3>3. QED
      BY <2>1, <3>1, <3>2
  <2>5. Types' /\ Parsed'
    BY <1>1, <1>2, <1>3, <2>1, <2>2, OptionsKept DEF Labels, Ended, Detaching, Listening
  <2>6. Control' /\ Bound' /\ Reported' /\ FailureReported' /\ MessagesReadable'
    BY <2>1, <2>3, <2>4 DEF Control, Bound, Reported, FailureReported, MessagesReadable,
                            AtHome, Detaching, Listening
  <2>7. QED
    BY <2>5, <2>6 DEF StartInv
<1>9. QED
  BY <1>5, <1>6, <1>7, <1>8

(* What is reported from the loop keeps the invariant.                     *)
LEMMA ServingKeeps ==
  ASSUME StartInv, Report \/ ReportUnknownType
  PROVE  StartInv'
<1> DEFINE Kinds == {"terminal", "inherited", "closed", "socket", "log"}
<1>1. /\ pc = "Process" /\ pc' = pc /\ UNCHANGED options
      /\ UNCHANGED <<session, leader, handled, mGracefulQuit, status, daemon_proc,
                     mListenSocket, local, failure>>
  BY DEF Report, ReportUnknownType, process
<1>2. Types /\ Control /\ Bound /\ Reported /\ MessagesReadable
  BY DEF StartInv
<1>3. ASSUME descriptors' \in [Fd -> Kinds],
             IF mDaemon THEN Detached' ELSE Attached',
             \A fd \in Fd : descriptors[fd] = "socket" => descriptors'[fd] = "socket",
             MessagesReadable'
      PROVE  StartInv'
  <2>1. Types' /\ Parsed' /\ mDaemon' = mDaemon
    BY <1>1, <1>2, <1>3, OptionsKept DEF Types
  <2>2. Control'
    BY <1>1, <1>2, <1>3, <2>1 DEF Control, AtHome, Detaching, Listening
  <2>3. Bound'
    BY <1>1, <1>2, <1>3 DEF Bound, LocalPort, htons, options
  <2>4. Reported' /\ FailureReported'
    BY <1>1, <1>2, <2>1 DEF Reported, FailureReported, Listening
  <2>5. QED
    BY <1>3, <2>1, <2>2, <2>3, <2>4 DEF StartInv
<1>4. mDaemon' = mDaemon
  BY <1>1 DEF options
<1>5. CASE Report
  <2>1. err_doit("report")
    BY <1>5 DEF Report
  <2>2. /\ descriptors' \in [Fd -> Kinds]
        /\ IF mDaemon THEN Detached' ELSE Attached'
        /\ \A fd \in Fd : descriptors[fd] = "socket" => descriptors'[fd] = "socket"
        /\ IF mDaemon THEN written' = written \cup {Message("report", "syslog", "log")}
                      ELSE written' = written \cup {Message("report", "stderr", "terminal")}
    BY <1>1, <2>1, ErrDoit DEF Listening
  <2>3. /\ Message("report", "syslog", "log").stream = "syslog"
        /\ Message("report", "stderr", "terminal").sink = "terminal"
    BY DEF Message
  <2>4. MessagesReadable'
    BY <1>2, <1>4, <2>2, <2>3 DEF MessagesReadable
  <2>5. QED
    BY <1>3, <2>2, <2>4
<1>6. CASE ReportUnknownType
  <2>1. descriptors' = descriptors
        /\ \E sink : written' = written \cup {Message("unknown type", "stdout", sink)}
    BY <1>6 DEF ReportUnknownType, Write
  <2>2. \A sink : Message("unknown type", "stdout", sink).text # "report"
    BY DEF Message
  <2>3. MessagesReadable'
    BY <1>2, <1>4, <2>1, <2>2 DEF MessagesReadable
  <2>4. ASSUME mDaemon PROVE Detached'
    <3>1. Detached
      BY <1>1, <1>2, <2>4 DEF Control, Listening
    <3>2. QED
      BY <1>1, <2>1, <3>1 DEF Detached
  <2>5. ASSUME ~mDaemon PROVE Attached'
    <3>1. Attached
      BY <1>1, <1>2, <2>5 DEF Control, Listening
    <3>2. QED
      BY <1>1, <2>1, <3>1 DEF Attached
  <2>6. descriptors' \in [Fd -> Kinds]
    BY <1>2, <2>1 DEF Types
  <2>7. IF mDaemon THEN Detached' ELSE Attached'
    BY <2>4, <2>5
  <2>8. QED
    BY <1>3, <2>1, <2>3, <2>6, <2>7
<1>7. QED
  BY <1>5, <1>6

(* What the terminal does keeps the invariant: it kills the process, or is *)
(* caught by one that is no daemon.                                        *)
LEMMA SignalsKeep ==
  ASSUME StartInv, SIGHUP \/ SIGINT
  PROVE  StartInv'
<1>1. /\ pc \notin Ended /\ session = "shell" /\ UNCHANGED options
      /\ UNCHANGED <<session, leader, handled, status, daemon_proc, mListenSocket,
                     local, failure, descriptors, written>>
      /\ pc' = "killed" \/ (handled /\ pc' = pc)
  BY DEF SIGHUP, SIGINT, Silent, process
<1>2. Types /\ Control /\ Bound /\ Reported /\ MessagesReadable /\ FailureReported
  BY DEF StartInv
<1>3. Types' /\ Parsed' /\ mDaemon' = mDaemon
  BY <1>1, <1>2, OptionsKept DEF Types, Labels, Ended, Detaching, Listening
<1>4. MessagesReadable'
  BY <1>1, <1>2, <1>3 DEF MessagesReadable
<1>5. CASE pc' = "killed"
  <2>1. Control' /\ Bound' /\ Reported' /\ FailureReported'
    BY <1>5 DEF Control, Bound, Reported, FailureReported, AtHome, Detaching, Listening
  <2>2. QED
    BY <1>3, <1>4, <2>1 DEF StartInv
<1>6. CASE handled /\ pc' = pc
  <2>1. pc \in {"bind", "Process"}
    BY <1>1, <1>2, <1>6 DEF Types, Control, Labels, AtHome, Detaching, Listening
  <2>2. ~mDaemon /\ Attached /\ daemon_proc = mDaemon
    BY <1>1, <1>2, <2>1 DEF Control, Detached, Listening
  <2>3. Attached'
    BY <1>1, <1>6, <2>2 DEF Attached
  <2>4. Control'
    BY <1>1, <1>3, <1>6, <2>1, <2>2, <2>3 DEF Control, AtHome, Detaching, Listening
  <2>5. Bound'
    BY <1>1, <1>2, <1>6 DEF Bound, LocalPort, htons, options
  <2>6. Reported' /\ FailureReported'
    BY <1>1, <1>2, <1>3, <1>6 DEF Reported, FailureReported
  <2>7. QED
    BY <1>3, <1>4, <2>4, <2>5, <2>6 DEF StartInv
<1>7. QED
  BY <1>1, <1>5, <1>6

(* A process that has parsed no option has failed nowhere.                 *)
LEMMA InitStarts == Init => StartInv
<1> SUFFICES ASSUME Init PROVE StartInv
  OBVIOUS
<1> DEFINE Kinds == {"terminal", "inherited", "closed", "socket", "log"}
<1>1. commandLine \in Seq(Option) /\ optind = 1 /\ pc = "ParseCommandline" /\ written = {}
  BY StartupAssumption DEF Init
<1>2. Len(commandLine) \in Nat /\ DOMAIN commandLine = 1..Len(commandLine)
  BY <1>1, LenProperties
<1>3. Types
  <2>1. descriptors \in [Fd -> Kinds]
    BY DEF Init
  <2>2. mListenPort \in Int /\ optind \in 1..(Len(commandLine) + 1)
    BY <1>1, <1>2 DEF Init, DEFAULT_LISTEN_PORT
  <2>3. mBindAddress = INADDR_ANY /\ mDaemon \in BOOLEAN /\ daemon_proc \in BOOLEAN
    BY DEF Init
  <2>4. QED
    BY <1>1, <2>1, <2>2, <2>3 DEF Types, Labels
<1>4. Parsed
  <2>1. {k \in Given("p") : k < optind} = {}
    BY <1>1, <1>2 DEF Given
  <2>2. PortAskedFor({}) = DEFAULT_LISTEN_PORT
    BY DEF PortAskedFor
  <2>3. QED
    BY <1>1, <2>1, <2>2 DEF Init, Parsed, Detaching, Listening
<1>5. Attached
  BY DEF Init, Attached, Fd
<1>6. Control /\ Bound /\ Reported /\ FailureReported /\ MessagesReadable
  BY <1>1, <1>5 DEF Init, Control, Bound, Reported, FailureReported, MessagesReadable,
                    AtHome, Detaching, Listening
<1>7. QED
  BY <1>3, <1>4, <1>6 DEF StartInv

(* No step of the process leaves the invariant.                            *)
LEMMA StepKeeps == StartInv /\ [Next]_vars => StartInv'
<1> SUFFICES ASSUME StartInv, [Next]_vars PROVE StartInv'
  OBVIOUS
<1>1. CASE UNCHANGED vars
  <2>1. UNCHANGED <<options, pc, session, leader, handled, mGracefulQuit, status, descriptors,
                    daemon_proc, mListenSocket, local, failure, written>>
    BY <1>1 DEF vars, process
  <2>2. Types' /\ Parsed' /\ mDaemon' = mDaemon
    BY <2>1, OptionsKept DEF StartInv, Types
  <2>3. (Attached => Attached') /\ (Detached => Detached')
    BY <2>1 DEF Attached, Detached
  <2>4. Control' /\ Bound'
    <3>1. Control'
      BY <2>1, <2>2, <2>3 DEF StartInv, Control
    <3>2. Bound'
      BY <2>1 DEF StartInv, Bound, LocalPort, htons, options
    <3>3. QED
      BY <3>1, <3>2
  <2>5. Reported' /\ FailureReported' /\ MessagesReadable'
    BY <2>1, <2>2 DEF StartInv, Reported, FailureReported, MessagesReadable
  <2>6. QED
    BY <2>2, <2>4, <2>5 DEF StartInv
<1>2. CASE ParseCommandline
  BY <1>2, ParseCommandlineKeeps
<1>3. CASE Daemonize
  BY <1>3, DaemonizeKeeps
<1>4. CASE Socket \/ SocketFails \/ Bind \/ BindFails
  BY <1>4, InitializeKeeps
<1>5. CASE Report \/ ReportUnknownType
  BY <1>5, ServingKeeps
<1>6. CASE SIGHUP \/ SIGINT
  BY <1>6, SignalsKeep
<1>7. QED
  BY <1>1, <1>2, <1>3, <1>4, <1>5, <1>6 DEF Next, main

(* The state of the start-up is as StartInv says at every label.           *)
LEMMA StartInvariant == Spec => []StartInv
BY InitStarts, StepKeeps, PTL DEF Spec

-----------------------------------------------------------------------------
(* The theorems. *)

(***************************************************************************)
(* However the command line names it, and whichever call before it fails,  *)
(* Process() is entered only with an open socket that is bound, and to the *)
(* port of the last -p with a number, or the default one, whenever that is *)
(* a port there is: Initialize() and ParseCommandline() together.          *)
(***************************************************************************)
THEOREM ServesAtThePortAskedFor == Spec => []ListensOnValidPort
<1>1. StartInv => ListensOnValidPort
  <2> SUFFICES ASSUME StartInv, pc = "Process" PROVE ListensOnValidPort
    BY DEF ListensOnValidPort
  <2>1. Types /\ Parsed /\ Bound
    BY DEF StartInv
  <2>2. mListenSocket \in Fd /\ descriptors[mListenSocket] = "socket"
    BY <2>1 DEF Bound
  <2>3. local = [addr |-> INADDR_ANY, port |-> LocalPort(mListenPort)]
    BY <2>1 DEF Bound, Types
  <2>4. LocalPort(mListenPort) \in Int \cup {Ephemeral}
    <3>1. mListenPort % 65536 \in Int
      BY <2>1 DEF Types
    <3>2. QED
      BY <3>1 DEF LocalPort, htons
  <2>5. local # None
    BY <2>3, <2>4, StartupAssumption
  <2>6. mListenPort = PortAskedFor(Given("p"))
    BY <2>1, AllGiven DEF Parsed, Listening
  <2>7. mListenPort \in Port => local.port = mListenPort
    <3> SUFFICES ASSUME mListenPort \in Port PROVE local.port = mListenPort
      OBVIOUS
    <3>1. mListenPort \in Nat /\ 0 < mListenPort /\ mListenPort < 65536
      BY DEF Port
    <3>2. mListenPort % 65536 = mListenPort
      BY <3>1
    <3>3. LocalPort(mListenPort) = mListenPort
      BY <3>1, <3>2 DEF LocalPort, htons
    <3>4. QED
      BY <2>3, <3>3
  <2>8. mListenSocket \in DOMAIN descriptors
    BY <2>1, <2>2 DEF Types
  <2>9. PortAskedFor(Given("p")) \in Port => local.port = PortAskedFor(Given("p"))
    BY <2>6, <2>7
  <2>10. QED
    BY <2>2, <2>5, <2>8, <2>9 DEF ListensOnValidPort
<1>2. QED
  BY <1>1, StartInvariant, PTL

(***************************************************************************)
(* Once it serves, a daemon holds nothing of the terminal or of what it    *)
(* was started with, cannot acquire a terminal and gets no signal of one:  *)
(* what Daemonize() is for, with socket() and syslog() taking descriptors  *)
(* after it.                                                               *)
(***************************************************************************)
THEOREM DaemonsArePolite == Spec => []PoliteDaemon
<1>1. StartInv => PoliteDaemon
  <2> SUFFICES ASSUME StartInv, mDaemon, pc = "Process" PROVE PoliteDaemon
    BY DEF PoliteDaemon
  <2>1. Detached
    BY DEF StartInv, Control, Listening
  <2>2. \A fd \in Fd : descriptors[fd] \in {"closed", "log", "socket"}
    BY <2>1 DEF Detached
  <2>3. QED
    BY <2>1, <2>2 DEF PoliteDaemon, Detached
<1>2. QED
  BY <1>1, StartInvariant, PTL

(***************************************************************************)
(* A start-up that fails, in whichever call and with whatever options, is  *)
(* told to the shell by a status other than 0, or to the terminal or the   *)
(* log by err_doit().                                                      *)
(***************************************************************************)
THEOREM FailuresAreReported == Spec => []FailureReported
<1>1. StartInv => FailureReported
  BY DEF StartInv
<1>2. QED
  BY <1>1, StartInvariant, PTL

(***************************************************************************)
(* What the loop and its handlers report reaches the terminal or, from a   *)
(* daemon, syslog: the flag daemon_proc is set before the descriptors are  *)
(* closed, and is never set without -d.                                    *)
(***************************************************************************)
THEOREM ReportsReachAReader == Spec => []MessagesReadable
<1>1. StartInv => MessagesReadable
  BY DEF StartInv
<1>2. QED
  BY <1>1, StartInvariant, PTL
=============================================================================
