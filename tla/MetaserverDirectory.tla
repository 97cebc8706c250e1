------------------------ MODULE MetaserverDirectory ------------------------
(***************************************************************************)
(* The metaserver keeps two directories: its lists, handlers and Reaper    *)
(* implement module Directory once for servers and once for clients.  To a *)
(* client that asks for the servers it keeps a module Roster.              *)
(*                                                                         *)
(* A history variable records which datagram a step handles, so that the   *)
(* directory can tell who asked for a change, and what for.                *)
(***************************************************************************)
EXTENDS Metaserver

CONSTANT NotListed   \* the lease of an address that is on no list

ASSUME NotListedAssumption == NotListed \notin Nat

VARIABLE asked   \* history: the datagram that the latest step handled, or Nothing

observedVars == <<vars, asked>>

Nothing == [type |-> "NOTHING"]

\* Every step of the metaserver that takes no datagram.
Unasked ==
  \/ Initialize \/ RegisterAlarm \/ FirstAlarm \/ CheckQuit \/ CheckAlarm
  \/ Reaper \/ Block \/ HookReturns \/ Kernel

ObservedNext ==
  \/ \E d \in Datagrams : Receive(d) /\ asked' = d
  \/ Unasked /\ asked' = Nothing

ObservedInit == Init /\ asked = Nothing

ObservedSpec == ObservedInit /\ [][ObservedNext]_observedVars

-----------------------------------------------------------------------------

(* The lease an active list grants each address: its entry's timestamp. *)
Lease(w) ==
  [a \in Addr |-> IF a \in AddrsOf(lists[w])
                  THEN lists[w][CHOOSE i \in DOMAIN lists[w] : lists[w][i].addr = a].ts
                  ELSE NotListed]

(* What the types of datagrams ask of each directory. *)
AsksServers == [SERVERKEEPALIVE |-> "ticket", SERVERSHAKE |-> "redeem",
                TERMINATE |-> "withdraw"]

AsksClients == [CLIENTKEEPALIVE |-> "ticket", CLIENTSHAKE |-> "redeem"]

(* A datagram as a request to a directory: the address asks, not the port, *)
(* and a SHAKE shows the value that it carries.                            *)
Request(asks, d) ==
  IF d = Nothing THEN [kind |-> "none"]
  ELSE [kind  |-> IF d.type \in DOMAIN asks THEN asks[d.type] ELSE "other",
        addr  |-> SenderAddr(d),
        value |-> d.arg]

AskedOfServers == Request(AsksServers, asked)
AskedOfClients == Request(AsksClients, asked)

Servers == INSTANCE Directory
  WITH TicketValue <- HandshakeValue, StaleAfter <- REAP_INTERVAL, clock <- now,
       lease <- Lease("SERVER_LIST"), tickets <- lists["SERVER_HANDSHAKE_LIST"],
       request <- AskedOfServers

Clients == INSTANCE Directory
  WITH TicketValue <- HandshakeValue, StaleAfter <- REAP_INTERVAL, clock <- now,
       lease <- Lease("CLIENT_LIST"), tickets <- lists["CLIENT_HANDSHAKE_LIST"],
       request <- AskedOfClients

(* A client that pages through the servers sees their addresses in order. *)
Paged == INSTANCE Roster WITH roster <- Listed

(***************************************************************************)
(* The servers' directory.  A SERVERSHAKE lists or renews its sender's     *)
(* address and uses up one pending handshake, the oldest with the value it *)
(* shows; a value replayed or invented changes nothing.  A server leaves   *)
(* only by a TERMINATE from its own address, or unasked when its last      *)
(* shake is more than REAP_INTERVAL ago, also when the command ran between *)
(* the test of its age and its removal.  No other datagram, the clients'   *)
(* included, changes the list or the pending handshakes.                   *)
(***************************************************************************)
ServersImplemented == Servers!DirSpec

(***************************************************************************)
(* The clients' directory, the same but that nothing asks for an end: not  *)
(* even a TERMINATE from a client's address, where a game server may run.  *)
(***************************************************************************)
ClientsImplemented == Clients!DirSpec

(***************************************************************************)
(* The order that a client pages through by position: a server joins at    *)
(* the end, once, and only a departure moves those behind it.  A renewal   *)
(* in particular does not move its server.                                 *)
(***************************************************************************)
RegistrationOrder == Paged!RosterSpec
=============================================================================
