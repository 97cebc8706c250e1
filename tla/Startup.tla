------------------------------ MODULE Startup ------------------------------
(***************************************************************************)
(* The life of the process up to the event loop: main(), the options that  *)
(* ParseCommandline() takes, Daemonize(), the socket that Initialize()     *)
(* binds; and the two channels of its messages, stderr before it is a      *)
(* daemon and syslog after.                                                *)
(*                                                                         *)
(* The process is the one that goes on: where fork() succeeds, the parent  *)
(* exits and the child is the process from there on.                       *)
(***************************************************************************)
EXTENDS Integers, SequencesExt

CONSTANTS
  CommandLines,    \* what main may be called with, as sequences of Option
  Address,         \* the address of each host name that can be looked up
  INADDR_ANY,      \* the address that stands for every local one
  Ephemeral,       \* a port the kernel chooses
  Unparsable,      \* a port argument that is not a number
  NoArgument,
  None,            \* no exit status yet; no local address yet
  DEBUG            \* TRUE for a build with -DDEBUG

DEFAULT_LISTEN_PORT == 8453

\* An option as getopt_long() returns it, with its argument, a port as the
\* number that "%i" reads; "operand" is a word that is no option, and "?"
\* one that is not known or lacks its argument.  The command given with -x is
\* TRUE unless it is empty.
Option ==
  [opt : {"h", "v", "q", "d", "?", "operand"}, arg : {NoArgument}]
    \cup [opt : {"p"}, arg : Int \cup {Unparsable}]
    \cup [opt : {"s"}, arg : STRING]
    \cup [opt : {"x"}, arg : BOOLEAN]

ASSUME StartupAssumption ==
  /\ CommandLines \subseteq Seq(Option)
  /\ DEBUG \in BOOLEAN
  /\ None \notin [addr : {INADDR_ANY}, port : Int \cup {Ephemeral}]

VARIABLES
  commandLine,    \* argv
  optind,         \* the next option, as a position in it
  quiet, server_ip_specified, mBindAddress, mListenPort, mDaemon, mExecute,
  pc,             \* the call the process is about to perform
  session,        \* "shell", or "own" from setsid() on
  leader,         \* whether the process leads its session
  hangup,         \* what SIGHUP does: "default" or "ignored"
  handled,        \* whether SIGINT has its handler
  mGracefulQuit,  \* SIGINTHandler::mGracefulQuit
  status,         \* the exit status the shell has seen
  descriptors,    \* what each file descriptor is open on
  daemon_proc,
  mListenSocket,
  local,          \* the address and port the socket is bound to
  failure,        \* history: what made the start-up fail
  written         \* history: the messages, with stream and what it was open on

options == <<commandLine, optind, quiet, server_ip_specified, mBindAddress,
             mListenPort, mDaemon, mExecute>>
process == <<session, leader, hangup, handled, mGracefulQuit>>
vars == <<options, process, pc, status, descriptors, daemon_proc,
          mListenSocket, local, failure, written>>

Ended == {"exited", "killed"}

-----------------------------------------------------------------------------
(* Descriptors and messages. *)

Fd == 0..4

LowestFree(open) == Min({fd \in Fd : open[fd] = "closed"})

Stream == [stdout |-> 1, stderr |-> 2]

Message(text, stream, sink) == [text |-> text, stream |-> stream, sink |-> sink]

\* cout, cerr, printf and fputs reach whatever their descriptor is open on.
Write(text, stream) ==
  /\ written' = written \cup {Message(text, stream, descriptors[Stream[stream]])}
  /\ UNCHANGED descriptors

\* syslog(): openlog() leaves it to the first message to connect.
syslog(text) ==
  /\ descriptors' = IF \E fd \in Fd : descriptors[fd] = "log" THEN descriptors
                    ELSE [descriptors EXCEPT ![LowestFree(descriptors)] = "log"]
  /\ written' = written \cup {Message(text, "syslog", "log")}

\* err_sys(), notice_msg(), warning_msg() and debug_msg(): none of them exits.
err_doit(text) == IF daemon_proc THEN syslog(text) ELSE Write(text, "stderr")

\* The shell sees the status of the process that it started, which is the
\* first to exit.
exit(n) ==
  /\ pc' = "exited"
  /\ status' = IF status = None THEN n ELSE status

-----------------------------------------------------------------------------

\* Of the descriptors above 2 the process may have inherited one.
Init ==
  /\ commandLine \in CommandLines
  /\ optind = 1
  /\ quiet = FALSE /\ server_ip_specified = FALSE
  /\ mBindAddress = INADDR_ANY      \* memset() to 0
  /\ mListenPort = DEFAULT_LISTEN_PORT
  /\ mDaemon = FALSE /\ mExecute = FALSE
  /\ pc = "ParseCommandline"
  /\ session = "shell" /\ leader = FALSE /\ hangup = "default"
  /\ handled = FALSE /\ mGracefulQuit = FALSE
  /\ status = None
  /\ \E inherited \in {"inherited", "closed"} :
       descriptors = [fd \in Fd |-> IF fd <= 2 THEN "terminal"
                                    ELSE IF fd = 3 THEN inherited ELSE "closed"]
  /\ daemon_proc = FALSE
  /\ mListenSocket = 0
  /\ local = None
  /\ failure = "none"
  /\ written = {}

-----------------------------------------------------------------------------
(* ParseCommandline(). *)

\* getopt_long returns the next option; operands it moves behind the options.
Getopt(opt) ==
  /\ pc = "ParseCommandline"
  /\ optind <= Len(commandLine)
  /\ commandLine[optind].opt = opt
  /\ optind' = optind + 1
  /\ UNCHANGED <<commandLine, process, daemon_proc, mListenSocket, local>>

optarg == commandLine[optind].arg

NotEnding == UNCHANGED <<pc, status, failure>>
Silent    == UNCHANGED <<written, descriptors>>

VersionAndLicense ==
  /\ Getopt("v")
  /\ Write("version", "stdout")
  /\ exit(0)
  /\ UNCHANGED <<quiet, server_ip_specified, mBindAddress, mListenPort, mDaemon,
                 mExecute, failure>>

Help ==
  /\ Getopt("h")
  /\ Write("help", "stdout")
  /\ exit(0)
  /\ UNCHANGED <<quiet, server_ip_specified, mBindAddress, mListenPort, mDaemon,
                 mExecute, failure>>

\* sscanf() leaves the port alone when the argument is not a number.
OptPort ==
  /\ Getopt("p")
  /\ mListenPort' = IF optarg = Unparsable THEN mListenPort ELSE optarg
  /\ NotEnding /\ Silent
  /\ UNCHANGED <<quiet, server_ip_specified, mBindAddress, mDaemon, mExecute>>

OptQuiet ==
  /\ Getopt("q")
  /\ quiet' = TRUE
  /\ NotEnding /\ Silent
  /\ UNCHANGED <<server_ip_specified, mBindAddress, mListenPort, mDaemon, mExecute>>

\* LookupHost() assigns the address to its parameter, not to what that points
\* to: mBindAddress stays as it is.
LookupHost(hostname) == hostname \in DOMAIN Address /\ UNCHANGED mBindAddress

OptServerIp ==
  /\ Getopt("s")
  /\ \/ /\ LookupHost(optarg)
        /\ server_ip_specified' = TRUE
        /\ NotEnding /\ Silent
     \/ /\ optarg \notin DOMAIN Address
        /\ Write("no such host", "stdout")
        /\ failure' = "host"
        /\ exit(1)
        /\ UNCHANGED <<server_ip_specified, mBindAddress>>
  /\ UNCHANGED <<quiet, mListenPort, mDaemon, mExecute>>

OptDaemon ==
  /\ Getopt("d")
  /\ mDaemon' = TRUE
  /\ NotEnding /\ Silent
  /\ UNCHANGED <<quiet, server_ip_specified, mBindAddress, mListenPort, mExecute>>

OptExecute ==
  /\ Getopt("x")
  /\ mExecute' = optarg
  /\ NotEnding /\ Silent
  /\ UNCHANGED <<quiet, server_ip_specified, mBindAddress, mListenPort, mDaemon>>

\* getopt_long itself complains on stderr.
OptUnknown ==
  /\ Getopt("?")
  /\ Write("unknown option", "stderr")
  /\ NotEnding
  /\ UNCHANGED <<quiet, server_ip_specified, mBindAddress, mListenPort, mDaemon, mExecute>>

Operand ==
  /\ Getopt("operand")
  /\ NotEnding /\ Silent
  /\ UNCHANGED <<quiet, server_ip_specified, mBindAddress, mListenPort, mDaemon, mExecute>>

\* The options are done: what is in effect is announced on stdout.
Announce ==
  /\ pc = "ParseCommandline"
  /\ optind > Len(commandLine)
  /\ mBindAddress' = IF server_ip_specified THEN mBindAddress ELSE INADDR_ANY
  /\ IF quiet THEN Silent ELSE Write("announcement", "stdout")
  /\ pc' = IF mDaemon THEN "fork" ELSE "socket"
  /\ UNCHANGED <<commandLine, optind, quiet, server_ip_specified, mListenPort, mDaemon,
                 mExecute, process, status, daemon_proc, mListenSocket, local, failure>>

ParseCommandline ==
  \/ VersionAndLicense \/ Help \/ OptPort \/ OptQuiet \/ OptServerIp
  \/ OptDaemon \/ OptExecute \/ OptUnknown \/ Operand \/ Announce

-----------------------------------------------------------------------------
(* Daemonize(). *)

\* Mutant: fork(2) is called without the wrapper that reports its failure.
ForkFailsSilently ==
  /\ pc \in {"fork", "fork again"}
  /\ Silent
  /\ failure' = "fork"
  /\ exit(0)
  /\ UNCHANGED <<options, process, daemon_proc, mListenSocket, local>>

\* fork() returns -1, which is not 0 either: exit(0), as a parent would.
ForkFails ==
  /\ pc \in {"fork", "fork again"}
  /\ err_doit("fork")
  /\ failure' = "fork"
  /\ exit(0)
  /\ UNCHANGED <<options, process, daemon_proc, mListenSocket, local>>

\* The parent exits, the child is in the same session.
Fork ==
  /\ pc = "fork"
  /\ status' = 0
  /\ pc' = "setsid"
  /\ UNCHANGED <<options, process, daemon_proc, mListenSocket, local, failure>>
  /\ Silent

\* Signal(SIGHUP, SIG_IGN)
IgnoreHangup == hangup' = "ignored"

\* Mutant: the first child stays in the session of the shell.
NoSetsid ==
  /\ pc = "setsid"
  /\ IgnoreHangup
  /\ pc' = "fork again"
  /\ UNCHANGED <<options, session, leader, handled, mGracefulQuit, status, daemon_proc,
                 mListenSocket, local, failure>>
  /\ Silent

Setsid ==
  /\ pc = "setsid"
  /\ session' = "own" /\ leader' = TRUE
  /\ IgnoreHangup
  /\ pc' = "fork again"
  /\ UNCHANGED <<options, handled, mGracefulQuit, status, daemon_proc,
                 mListenSocket, local, failure>>
  /\ Silent

ForkAgain ==
  /\ pc = "fork again"
  /\ leader' = FALSE
  /\ pc' = "chdir"
  /\ UNCHANGED <<options, session, hangup, handled, mGracefulQuit, status, daemon_proc,
                 mListenSocket, local, failure>>
  /\ Silent

\* Mutant: the messages go on to stderr.
ChdirNoDaemonProc ==
  /\ pc = "chdir"
  /\ pc' = "close"
  /\ \/ Silent
     \/ Write("chdir", "stderr")
  /\ UNCHANGED <<options, process, status, daemon_proc, mListenSocket, local, failure>>

\* From daemon_proc on, err_doit() is for syslog; a chdir("/") that fails is
\* still told to stderr, and is no reason to stop.
Chdir ==
  /\ pc = "chdir"
  /\ daemon_proc' = TRUE
  /\ pc' = "close"
  /\ \/ Silent
     \/ Write("chdir", "stderr")
  /\ UNCHANGED <<options, process, status, mListenSocket, local, failure>>

CloseAll ==
  /\ pc = "close"
  /\ descriptors' = [fd \in Fd |-> "closed"]
  /\ pc' = "socket"
  /\ UNCHANGED <<options, process, status, daemon_proc, mListenSocket, local, failure, written>>

Daemonize == ForkFails \/ Fork \/ Setsid \/ ForkAgain \/ Chdir \/ CloseAll

-----------------------------------------------------------------------------
(* The rest of Initialize(). *)

\* RegisterHandler(SIGINT) and socket(), which takes the lowest descriptor.
Socket ==
  /\ pc = "socket"
  /\ handled' = TRUE
  /\ mListenSocket' = LowestFree(descriptors)
  /\ descriptors' = [descriptors EXCEPT ![mListenSocket'] = "socket"]
  /\ pc' = "bind"
  /\ UNCHANGED <<options, session, leader, hangup, mGracefulQuit, status, daemon_proc,
                 local, failure, written>>

SocketFails ==
  /\ pc = "socket"
  /\ handled' = TRUE
  /\ mListenSocket' = -1
  /\ err_doit("socket")
  /\ failure' = "socket"
  /\ pc' = "bind"
  /\ UNCHANGED <<options, session, leader, hangup, mGracefulQuit, status, daemon_proc, local>>

\* htons() takes the low 16 bits of the port; bind() takes 0 for any port.
htons(port) == port % 65536

LocalPort(port) == IF htons(port) = 0 THEN Ephemeral ELSE htons(port)

Bind ==
  /\ pc = "bind"
  /\ mListenSocket # -1
  /\ local' = [addr |-> mBindAddress, port |-> LocalPort(mListenPort)]
  /\ pc' = "Process"
  /\ UNCHANGED <<options, process, status, daemon_proc, mListenSocket, failure>>
  /\ Silent

\* Mutant: the loop is entered whatever bind() says.
BindFailsUnnoticed ==
  /\ pc = "bind"
  /\ err_doit("bind")
  /\ failure' = "bind"
  /\ pc' = "Process"
  /\ UNCHANGED <<options, process, status, daemon_proc, mListenSocket, local>>

\* The address or the port cannot be had, or there is no socket: main
\* returns 2.
BindFails ==
  /\ pc = "bind"
  /\ err_doit("bind")
  /\ failure' = "bind"
  /\ exit(2)
  /\ UNCHANGED <<options, process, daemon_proc, mListenSocket, local>>

-----------------------------------------------------------------------------
(* What is written from Process(), and what the terminal does meanwhile. *)

\* A message from a handler or of a failed sendto() or recvfrom().
Report ==
  /\ pc = "Process"
  /\ err_doit("report")
  /\ UNCHANGED <<options, process, pc, status, daemon_proc, mListenSocket, local, failure>>

\* In a DEBUG build, a datagram of a type that has no handler.
ReportUnknownType ==
  /\ pc = "Process"
  /\ DEBUG
  /\ Write("unknown type", "stdout")
  /\ UNCHANGED <<options, process, pc, status, daemon_proc, mListenSocket, local, failure>>

\* The terminal is closed; its signal may reach every process of the session.
SIGHUP ==
  /\ pc \notin Ended
  /\ session = "shell"
  /\ hangup = "default"
  /\ pc' = "killed"
  /\ UNCHANGED <<options, process, status, daemon_proc, mListenSocket, local, failure>>
  /\ Silent

\* An interrupt from the terminal.
SIGINT ==
  /\ pc \notin Ended
  /\ session = "shell"
  /\ IF handled THEN mGracefulQuit' = TRUE /\ UNCHANGED pc
     ELSE pc' = "killed" /\ UNCHANGED mGracefulQuit
  /\ UNCHANGED <<options, session, leader, hangup, handled, status, daemon_proc,
                 mListenSocket, local, failure>>
  /\ Silent

-----------------------------------------------------------------------------

main ==
  \/ ParseCommandline \/ Daemonize
  \/ Socket \/ SocketFails \/ Bind \/ BindFails
  \/ Report \/ ReportUnknownType

Next == main \/ SIGHUP \/ SIGINT

Spec == Init /\ [][Next]_vars

-----------------------------------------------------------------------------
(* Properties. *)

\* Where an option is given on the command line.
Given(opt) == {k \in DOMAIN commandLine : commandLine[k].opt = opt}

\* The argument of the last of the options at these places.
LastArg(places) == commandLine[Max(places)].arg

\* The ports that there are.
Port == 1..65535

\* The port that the options at these places ask for: those whose argument
\* is not a number do not count.
PortAskedFor(places) ==
  LET numbers == {k \in places : commandLine[k].arg # Unparsable}
  IN  IF numbers = {} THEN DEFAULT_LISTEN_PORT ELSE LastArg(numbers)

(***************************************************************************)
(* Whichever of the calls before it fails, the loop is entered only with   *)
(* an open socket that is bound; and if the last -p with a number named a  *)
(* port there is, or none was named, then to that port, or the default.    *)
(***************************************************************************)
ListensOnValidPort ==
  pc = "Process" =>
    /\ mListenSocket \in DOMAIN descriptors
    /\ descriptors[mListenSocket] = "socket"
    /\ local # None
    /\ PortAskedFor(Given("p")) \in Port => local.port = PortAskedFor(Given("p"))

(***************************************************************************)
(* "behave politely as a daemon": once it serves, a daemon holds nothing   *)
(* of the terminal or of the process that started it, it cannot acquire a  *)
(* terminal, and nothing the terminal does reaches it.                     *)
(***************************************************************************)
PoliteDaemon ==
  mDaemon /\ pc = "Process" =>
    /\ \A fd \in Fd : descriptors[fd] \notin {"terminal", "inherited"}
    /\ session = "own" /\ ~leader
    /\ ~mGracefulQuit

(***************************************************************************)
(* A start-up that fails is never silent, also in a daemon and with -q:    *)
(* the shell sees a status other than 0, or there is a message of it where *)
(* someone can read it.                                                    *)
(***************************************************************************)
FailureReported ==
  pc = "exited" /\ failure # "none" =>
    \/ status # 0
    \/ \E w \in written : w.text = failure /\ w.sink \in {"terminal", "log"}

(***************************************************************************)
(* "Configure your syslog to show you daemon notices to see its production *)
(* messages, and add daemon debug to see debug messages": what the loop    *)
(* and its handlers report reaches the terminal or, in a daemon, the log   *)
(* through syslog().  The one message of Process() itself, the printf of a *)
(* DEBUG build about a type that has no handler, is not among them.        *)
(***************************************************************************)
MessagesReadable ==
  \A w \in written : w.text = "report" =>
    IF mDaemon THEN w.stream = "syslog" ELSE w.sink = "terminal"

(***************************************************************************)
(* "bind to a specified port and/or specified IP address": the process     *)
(* serves at the very port that the last -p named, which it announces, and *)
(* at the address of the last --server-ip, if there was one.               *)
(***************************************************************************)
BindsAsSpecified ==
  pc = "Process" =>
    /\ local.port = PortAskedFor(Given("p"))
    /\ local.addr = IF Given("s") = {} THEN INADDR_ANY ELSE Address[LastArg(Given("s"))]
=============================================================================
