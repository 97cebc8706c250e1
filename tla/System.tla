------------------------------- MODULE System -------------------------------
(***************************************************************************)
(* The metaserver and the game servers that register with it, as the test  *)
(* server does: a script of keepalives, pauses and terminations, over a    *)
(* network that may lose, repeat and reorder datagrams.  A game server     *)
(* waits for the answer to its KEEPALIVE without a timeout, and exits when *)
(* a call fails.                                                           *)
(*                                                                         *)
(* The metaserver is module Metaserver; what was left open there, which    *)
(* datagram comes next, is what the game servers and the network do here.  *)
(***************************************************************************)
EXTENDS Metaserver

CONSTANTS
  Rounds,        \* keepalives before the first long wait
  Pause,         \* seconds between two of them
  Wait,          \* seconds of a long wait
  RoundTime,     \* seconds that keepalive, handshake and shake may take
  Ordered,       \* whether the network keeps datagrams in order
  Interruptible, \* whether an operator may interrupt the metaserver
  MaxRepeats,    \* bound: datagrams that are delivered once more
  MaxLosses,     \* bound: datagrams that are lost
  MaxFailures    \* bound: game servers that exit early

\* What game servers send.
ServerDatagrams ==
  [type : {"SERVERKEEPALIVE", "TERMINATE"}, src : EndPoint, arg : {0}]
    \cup [type : {"SERVERSHAKE"}, src : EndPoint, arg : HandshakeValue]

ASSUME SystemAssumption ==
  /\ {Rounds, Pause, Wait, RoundTime, MaxRepeats, MaxLosses, MaxFailures} \subseteq Nat
  /\ Ordered \in BOOLEAN /\ Interruptible \in BOOLEAN
  /\ ServerDatagrams \subseteq Datagrams

VARIABLES
  at,        \* where each game server is in Script
  until,     \* when its latest sleep ends
  due,       \* by when it is done with what follows the sleep before
  exited,    \* the game servers that a failed call has ended
  toServer,  \* datagrams under way to the metaserver, in the order sent
  inbox,     \* datagrams in the metaserver's receive buffer
  toPeer,    \* the handshakes under way to each game server
  repeats, losses,
  bogus,     \* history: SHAKEs that found no pending handshake
  voided,    \* history: pending handshakes that were reaped
  disturbed  \* history: the game servers of which a TERMINATE was lost on its
             \* way, or overtook a SHAKE

peers   == <<at, until, due, exited>>
network == <<toServer, inbox, toPeer, repeats, losses>>
history == <<bogus, voided, disturbed>>
sysVars == <<vars, peers, network, history>>

-----------------------------------------------------------------------------
(* The script of dg_cli(). *)

Round == <<"keepalive", "recvfrom", "pause">>

Script ==
  [k \in 1..(3 * Rounds) |-> Round[((k - 1) % 3) + 1]]
    \o <<"wait", "keepalive", "recvfrom", "terminate", "wait", "terminate">>

Op(p) == IF at[p] <= Len(Script) THEN Script[at[p]] ELSE "exit"

Running(p) == p \notin exited /\ Op(p) # "exit"

Seconds(op) == IF op = "pause" THEN Pause ELSE Wait

Sleeping(p) == Op(p) \in {"pause", "wait"}

\* Mutant: a termination takes the sleep behind it along.
AdvancePastSleep(p) ==
  /\ at' = [at EXCEPT ![p] = IF Op(p) = "terminate" THEN @ + 2 ELSE @ + 1]
  /\ UNCHANGED <<until, due, exited>>

\* The next statement of the script; a sleep begins at once.
Advance(p) ==
  /\ at' = [at EXCEPT ![p] = @ + 1]
  /\ until' = IF at'[p] <= Len(Script) /\ Script[at'[p]] \in {"pause", "wait"}
              THEN [until EXCEPT ![p] = now + Seconds(Script[at'[p]])] ELSE until
  /\ due' = IF Sleeping(p) THEN [due EXCEPT ![p] = until[p] + RoundTime] ELSE due
  /\ UNCHANGED exited

-----------------------------------------------------------------------------
(* The network. *)

SysInit ==
  /\ Init
  /\ at = [p \in EndPoint |-> 1]
  /\ until = [p \in EndPoint |-> 0]
  /\ due = [p \in EndPoint |-> RoundTime]
  /\ exited = {}
  /\ toServer = <<>> /\ inbox = <<>>
  /\ toPeer = [p \in EndPoint |-> <<>>]
  /\ repeats = 0 /\ losses = 0
  /\ bogus = 0 /\ voided = 0 /\ disturbed = {}

\* The datagrams that may be delivered next.
Deliverable(queue) == IF Ordered THEN {1} \cap DOMAIN queue ELSE DOMAIN queue

\* What may be under way, and repeated, once the i-th datagram is delivered.
Remaining(queue, i) ==
  {<<RemoveAt(queue, i), repeats>>}
    \cup (IF repeats < MaxRepeats THEN {<<queue, repeats + 1>>} ELSE {})

Send(type, p, arg) ==
  toServer' = Append(toServer, [type |-> type, src |-> p, arg |-> arg])

\* The i-th datagram under way is a TERMINATE that overtakes a SHAKE of its sender.
Overtakes(i) ==
  /\ toServer[i].type = "TERMINATE"
  /\ \E j \in 1..(i-1) : toServer[j].src = toServer[i].src /\ toServer[j].type = "SERVERSHAKE"

Disturb(p) == disturbed' = disturbed \cup {p}

\* A datagram reaches the metaserver's receive buffer.
Deliver ==
  /\ DatagramArrives
  /\ \E i \in Deliverable(toServer) : \E r \in Remaining(toServer, i) :
       /\ toServer' = r[1] /\ repeats' = r[2]
       /\ inbox' = Append(inbox, toServer[i])
       /\ IF Overtakes(i) THEN Disturb(toServer[i].src) ELSE UNCHANGED disturbed
  /\ UNCHANGED <<peers, toPeer, losses, bogus, voided>>

LoseRequest(i) ==
  /\ toServer' = RemoveAt(toServer, i)
  /\ IF toServer[i].type = "TERMINATE" THEN Disturb(toServer[i].src) ELSE UNCHANGED disturbed
  /\ UNCHANGED toPeer

LoseAnswer(p, i) ==
  /\ toPeer' = [toPeer EXCEPT ![p] = RemoveAt(@, i)]
  /\ UNCHANGED <<toServer, disturbed>>

Lose ==
  /\ losses < MaxLosses
  /\ losses' = losses + 1
  /\ \/ \E i \in DOMAIN toServer : LoseRequest(i)
     \/ \E p \in EndPoint : \E i \in DOMAIN toPeer[p] : LoseAnswer(p, i)
  /\ UNCHANGED <<vars, peers, inbox, repeats, bogus, voided>>

-----------------------------------------------------------------------------
(* The game servers. *)

\* Nothing that p has sent is under way.
NothingUnderWay(p) ==
  /\ \A i \in DOMAIN toServer : toServer[i].src # p
  /\ \A i \in DOMAIN inbox : inbox[i].src # p

\* metaserver_keepalive(), up to its recvfrom.
Keepalive(p) ==
  /\ Op(p) = "keepalive"
  /\ Send("SERVERKEEPALIVE", p, 0)
  /\ Advance(p)
  /\ UNCHANGED <<vars, inbox, toPeer, repeats, losses, history>>

\* The rest of it: whatever HANDSHAKE comes is answered.
Shake(p) ==
  /\ Op(p) = "recvfrom"
  /\ \E i \in Deliverable(toPeer[p]) : \E r \in Remaining(toPeer[p], i) :
       /\ toPeer' = [toPeer EXCEPT ![p] = r[1]] /\ repeats' = r[2]
       /\ Send("SERVERSHAKE", p, toPeer[p][i])
  /\ Advance(p)
  /\ UNCHANGED <<vars, inbox, losses, history>>

Terminate(p) ==
  /\ Op(p) = "terminate"
  /\ Send("TERMINATE", p, 0)
  /\ Advance(p)
  /\ UNCHANGED <<vars, inbox, toPeer, repeats, losses, history>>

\* A sleep may last longer than asked for.  The clock stops at its bound: who
\* sleeps then may wake as soon as all it sent is handled.
Wake(p) ==
  /\ Sleeping(p)
  /\ now >= until[p] \/ (now = MaxTime /\ NothingUnderWay(p))
  /\ Advance(p)
  /\ UNCHANGED <<vars, network, history>>

\* It prints a message and exits.
err_sys(p) == exited' = exited \cup {p}

\* Sendto() or Recvfrom() fails.
Fail(p) ==
  /\ Cardinality(exited) < MaxFailures
  /\ Op(p) \in {"keepalive", "recvfrom", "terminate"}
  /\ err_sys(p)
  /\ UNCHANGED <<vars, at, until, due, network, history>>

GameServer(p) ==
  p \notin exited /\ (Keepalive(p) \/ Shake(p) \/ Terminate(p) \/ Wake(p))

-----------------------------------------------------------------------------
(* The metaserver. *)

Pending == lists["SERVER_HANDSHAKE_LIST"]

\* It takes the next datagram from its receive buffer, and its answer goes
\* into the network.
Serve ==
  /\ inbox # <<>>
  /\ Receive(Head(inbox))
  /\ inbox' = Tail(inbox)
  /\ toPeer' = IF out' = NoReply THEN toPeer
               ELSE [toPeer EXCEPT ![out'.dst] = Append(@, out'.hs)]
  /\ bogus' = IF /\ Head(inbox).type = "SERVERSHAKE"
                 /\ FindByHS(Pending, Head(inbox).arg) = {}
              THEN bogus + 1 ELSE bogus
  /\ UNCHANGED <<peers, toServer, repeats, losses, voided, disturbed>>

\* Every other step of the process; only a sweep shortens the pending list.
Housekeep ==
  /\ \/ Initialize \/ RegisterAlarm \/ FirstAlarm \/ CheckQuit \/ CheckAlarm
     \/ Reaper \/ Block \/ HookReturns
  /\ voided' = voided + Len(Pending) - Len(Pending')
  /\ UNCHANGED <<peers, network, bogus, disturbed>>

Alarm == AlarmSignal /\ UNCHANGED <<peers, network, history>>

Interrupt == Interruptible /\ InterruptSignal /\ UNCHANGED <<peers, network, history>>

-----------------------------------------------------------------------------
(* Time. *)

\* A game server sleeps, and does what follows the sleep until all of it has
\* reached the metaserver's handlers, at most RoundTime longer than it asked
\* to sleep.
Punctual(p) ==
  \/ ~Running(p) /\ NothingUnderWay(p)
  \/ Sleeping(p) /\ NothingUnderWay(p) /\ now < until[p] + RoundTime
  \/ ~(Sleeping(p) /\ NothingUnderWay(p)) /\ now < due[p]

Second ==
  /\ \A p \in EndPoint : Punctual(p)
  /\ Tick
  /\ UNCHANGED <<peers, network, history>>

-----------------------------------------------------------------------------

SysNext ==
  \/ Serve \/ Housekeep \/ Alarm \/ Interrupt \/ Second
  \/ Deliver \/ Lose
  \/ \E p \in EndPoint : GameServer(p) \/ (p \notin exited /\ Fail(p))

SysSafety == SysInit /\ [][SysNext]_sysVars

(***************************************************************************)
(* Fairness: the metaserver and the game servers are scheduled, alarms are *)
(* delivered, time passes, and what the network does not lose it delivers. *)
(***************************************************************************)
SysSpec ==
  /\ SysSafety
  /\ WF_sysVars(Serve \/ Housekeep)
  /\ WF_sysVars(Alarm)
  /\ WF_sysVars(Second)
  /\ WF_sysVars(Deliver)
  /\ \A p \in EndPoint : WF_sysVars(GameServer(p))

-----------------------------------------------------------------------------
(* Properties. *)

(* The values the variables range over: what is under way is only what     *)
(* game servers send and handshakes that the metaserver issued, nobody     *)
(* runs past the end of the script, and no sweep adds to a pending list.   *)
SysTypeOK ==
  /\ at \in [EndPoint -> 1..(Len(Script) + 1)]
  /\ until \in [EndPoint -> Nat] /\ due \in [EndPoint -> Nat]
  /\ exited \subseteq EndPoint
  /\ toServer \in Seq(ServerDatagrams) /\ inbox \in Seq(ServerDatagrams)
  /\ toPeer \in [EndPoint -> Seq(HandshakeValue)]
  /\ {repeats, losses, bogus, voided} \subseteq Nat
  /\ disturbed \subseteq EndPoint

IsListed(p) == \E i \in DOMAIN lists["SERVER_LIST"] :
                 lists["SERVER_LIST"][i].addr = Host[p]

(***************************************************************************)
(* The metaserver warns of a bogus SHAKE only for a reason: a datagram was *)
(* repeated, or a handshake was reaped before its SHAKE came.  Neither the *)
(* order of datagrams, nor losses, nor handshake values that coincide      *)
(* (the search goes by value alone, so servers use up each other's) make a *)
(* server's SHAKE fail.                                                    *)
(***************************************************************************)
BogusExplained == bogus <= repeats + voided

(***************************************************************************)
(* A game server comes to the end of its script, unless a datagram is      *)
(* lost, a call fails or the metaserver ends: then it may wait for ever.   *)
(***************************************************************************)
ScriptsEnd ==
  <>((\A p \in EndPoint : ~Running(p)) \/ losses > 0 \/ pc \in Ended)

(***************************************************************************)
(* "Waiting for 2X debug reap interval...", and then "Sending 1 server     *)
(* terminate msg for unlisted server...": when the game server comes to    *)
(* its second TERMINATE, nothing it sent is under way any more and the     *)
(* metaserver has nothing left to do, it is not listed.                    *)
(***************************************************************************)
UnlistedAtLastTerminate ==
  pc = "blocked" /\ ~mAlarm =>
    \A p \in EndPoint : at[p] >= Len(Script) /\ NothingUnderWay(p) => ~IsListed(p)

(***************************************************************************)
(* What becomes of that on a network that loses, repeats and reorders: the *)
(* game server is unlisted then, unless a TERMINATE of its own was lost or *)
(* overtook one of its SHAKEs.  No other loss, order or repetition, no     *)
(* pending handshake left over and no other server's datagrams list it.    *)
(***************************************************************************)
UnlistedUnlessDisturbed ==
  \A p \in EndPoint :
    at[p] >= Len(Script) /\ NothingUnderWay(p) /\ p \notin disturbed => ~IsListed(p)

(***************************************************************************)
(* A game server that is listed and sends its keepalives in time is not    *)
(* delisted while it does, or until it exits, however its datagrams and    *)
(* those of others interleave with the sweeps: the interval is a pause and *)
(* the seconds a round may take ("5 seconds plus 2 slack"), and a round    *)
(* takes less than a pause, so that its SHAKE is handled before the next   *)
(* round begins.                                                           *)
(***************************************************************************)
StaysListed ==
  [][\A p \in EndPoint :
       at[p] <= 3 * Rounds /\ p \notin exited /\ IsListed(p) => IsListed(p)']_sysVars

(***************************************************************************)
(* A host whose game servers have fallen silent, because they ended by a   *)
(* failing call without a TERMINATE, or because their TERMINATE was lost   *)
(* or overtaken, or because they sleep, does not stay listed: two          *)
(* intervals and a sweep after the time by which the latest of them was    *)
(* done, it is off the list, unless the alarm's wake-up was lost.          *)
(***************************************************************************)
Silent(p) == NothingUnderWay(p) /\ now > due[p] + MaxAge

SilentAreGone ==
  pc = "blocked" /\ ~mAlarm =>
    \A i \in DOMAIN lists["SERVER_LIST"] :
      \E p \in EndPoint : Host[p] = lists["SERVER_LIST"][i].addr /\ ~Silent(p)
=============================================================================
