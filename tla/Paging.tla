------------------------------- MODULE Paging -------------------------------
(***************************************************************************)
(* A client fetches the server list with several LISTREQs, as the test     *)
(* client's metaserver_listreq() does, over a network that may lose,       *)
(* repeat and reorder datagrams, while servers join and leave the list.    *)
(*                                                                         *)
(* Of the metaserver only its answers (module ListRequest) and its list    *)
(* are modelled; that the list is a Roster is shown in MetaserverDirectory.*)
(***************************************************************************)
EXTENDS Roster, ListRequest

CONSTANTS
  MaxJoins,     \* bound: servers that join
  MaxLeaves,    \* bound: servers that leave; 0 for a list that only grows
  MaxRepeats    \* bound: datagrams that are delivered once more

ASSUME PagingAssumption ==
  /\ MaxJoins \in Nat
  /\ MaxLeaves \in Nat
  /\ MaxRepeats \in Nat

VARIABLES
  toServer,   \* the client's datagrams that are under way
  toClient,   \* the metaserver's
  at,         \* where the client is in metaserver_listreq()
  from,       \* its counter of the servers received
  total,      \* the total that the last LISTRESP stated
  html,       \* the addresses printed
  joins, leaves, repeats,
  joined,     \* history: who joined since the first LISTREQ and is still listed
  due,        \* history: who was listed at the latest LISTREQ and still is
  lost        \* history: a datagram was lost

client  == <<at, from, total, html>>
network == <<toServer, toClient, repeats, lost>>
churn   == <<roster, joins, leaves>>
history == <<joined, due>>
pagingVars == <<client, network, churn, history>>

Request(n) == [type |-> "LISTREQ", from |-> n]
Response(r) == [type |-> "LISTRESP", total |-> r.total, servers |-> r.servers]
Keepalive  == [type |-> "CLIENTKEEPALIVE"]
Shake      == [type |-> "CLIENTSHAKE"]
Handshake  == [type |-> "HANDSHAKE"]

Listed == {roster[i] : i \in 1..Len(roster)}
Printed == {html[i] : i \in 1..Len(html)}

PagingInit ==
  /\ RosterInit
  /\ toServer = {} /\ toClient = {}
  /\ at = "start" /\ from = 0 /\ total = 1 /\ html = <<>>
  /\ joins = 0 /\ leaves = 0 /\ repeats = 0
  /\ joined = {} /\ due = {}
  /\ lost = FALSE

-----------------------------------------------------------------------------
(* The network delivers a datagram, and may keep it to deliver it again. *)

Remaining(net, m) ==
  \/ /\ repeats' = repeats
     /\ net' = net \ {m}
  \/ /\ repeats < MaxRepeats
     /\ repeats' = repeats + 1
     /\ net' = net

Lose ==
  /\ \/ /\ \E m \in toServer : toServer' = toServer \ {m}
        /\ UNCHANGED toClient
     \/ /\ \E m \in toClient : toClient' = toClient \ {m}
        /\ UNCHANGED toServer
  /\ lost' = TRUE
  /\ UNCHANGED <<client, repeats, churn, history>>

-----------------------------------------------------------------------------
(* The client. *)

Send(m) == toServer' = toServer \cup {m}

ClientStart ==
  /\ at = "start"
  /\ Send(Keepalive)
  /\ at' = "shake"
  /\ UNCHANGED <<from, total, html, toClient, repeats, lost, churn, history>>

\* The first datagram received is answered if it is a HANDSHAKE.
ClientShake(m) ==
  /\ at = "shake"
  /\ m \in toClient
  /\ Remaining(toClient, m)
  /\ IF m.type = "HANDSHAKE" THEN Send(Shake) ELSE UNCHANGED toServer
  /\ at' = "test"
  /\ UNCHANGED <<from, total, html, lost, churn, history>>

ClientRequest ==
  /\ at = "test"
  /\ from <= total /\ total # 0
  /\ Send(Request(from))
  /\ at' = "response"
  /\ due' = Listed
  /\ UNCHANGED <<from, total, html, toClient, repeats, lost, churn, joined>>

ClientDone ==
  /\ at = "test"
  /\ from > total \/ total = 0
  /\ at' = "done"
  /\ UNCHANGED <<from, total, html, network, churn, history>>

\* Mutant: the client counts a full block whatever it has received.
CountsFullBlock(m) ==
  /\ at = "response"
  /\ m \in toClient
  /\ m.type = "LISTRESP"
  /\ Remaining(toClient, m)
  /\ total' = m.total
  /\ from' = from + mMax
  /\ html' = html \o m.servers
  /\ at' = "test"
  /\ UNCHANGED <<toServer, lost, churn, history>>

ClientResponse(m) ==
  /\ at = "response"
  /\ m \in toClient
  /\ m.type = "LISTRESP"
  /\ Remaining(toClient, m)
  /\ total' = m.total
  /\ from' = from + Len(m.servers)
  /\ html' = html \o m.servers
  /\ at' = "test"
  /\ UNCHANGED <<toServer, lost, churn, history>>

\* Anything else ends the loop.
ClientUnexpected(m) ==
  /\ at = "response"
  /\ m \in toClient
  /\ m.type # "LISTRESP"
  /\ Remaining(toClient, m)
  /\ at' = "done"
  /\ UNCHANGED <<from, total, html, toServer, lost, churn, history>>

Client ==
  \/ ClientStart \/ ClientRequest \/ ClientDone
  \/ \E m \in toClient : ClientShake(m) \/ ClientResponse(m) \/ ClientUnexpected(m)

-----------------------------------------------------------------------------
(* The metaserver.  A CLIENTSHAKE lists the client, which no answer shows. *)

Answers(m) ==
  CASE m.type = "CLIENTKEEPALIVE" -> {{Handshake}}
    [] m.type = "CLIENTSHAKE"     -> {{}}
    [] m.type = "LISTREQ"         -> {{Response(r)} : r \in ListResponses(roster, m.from)}

Serve(m) ==
  /\ m \in toServer
  /\ Remaining(toServer, m)
  /\ \E answer \in Answers(m) : toClient' = toClient \cup answer
  /\ UNCHANGED <<client, lost, churn, history>>

Server == \E m \in toServer : Serve(m)

-----------------------------------------------------------------------------
(* The list changes; what happens after the client has finished, or before *)
(* it starts to shrink, is of no interest.                                 *)

\* The client has sent its first LISTREQ.
Requesting == at = "response" \/ (at = "test" /\ from > 0)

ServerJoins(a) ==
  /\ at # "done" /\ joins < MaxJoins
  /\ Join(a)
  /\ joins' = joins + 1
  /\ joined' = IF Requesting THEN joined \cup {a} ELSE joined
  /\ UNCHANGED <<client, network, leaves, due>>

ServerLeaves(i) ==
  /\ at # "done" /\ leaves < MaxLeaves
  /\ Leave(i)
  /\ leaves' = leaves + 1
  /\ joined' = joined \ {roster[i]}
  /\ due' = due \ {roster[i]}
  /\ UNCHANGED <<client, network, joins>>

Churn == (\E a \in Addr : ServerJoins(a)) \/ (\E i \in 1..Len(roster) : ServerLeaves(i))

-----------------------------------------------------------------------------

PagingNext == Client \/ Server \/ Lose \/ Churn

PagingSafety == PagingInit /\ [][PagingNext]_pagingVars

(* The client and the metaserver run, and take what the network delivers.  *)
PagingSpec == PagingSafety /\ WF_pagingVars(Client) /\ WF_pagingVars(Server)

-----------------------------------------------------------------------------
(* Properties. *)

(* The values the client's and the list's variables range over; "from" is  *)
(* the number of addresses printed.                                        *)
PagingTypeOK ==
  /\ at \in {"start", "shake", "test", "response", "done"}
  /\ roster \in Seq(Addr)
  /\ html \in Seq(Addr)
  /\ from = Len(html)
  /\ total \in Nat
  /\ due \subseteq Addr

(***************************************************************************)
(* While servers only join and no datagram is repeated, the client prints  *)
(* the list from its beginning without a gap or a repetition, and when it  *)
(* is done it has printed everyone listed at its last request, those that  *)
(* joined between its requests included.                                   *)
(***************************************************************************)
PagingComplete ==
  leaves = 0 /\ repeats = 0 =>
    /\ Len(html) <= Len(roster) /\ \A i \in 1..Len(html) : html[i] = roster[i]
    /\ at = "done" => due \subseteq Printed

(***************************************************************************)
(* Whatever joins and leaves, and whatever is repeated or reordered, the   *)
(* client's loop comes to its end unless a datagram is lost: a response    *)
(* either brings servers, which moves "from" on, or says 0 of 0.           *)
(***************************************************************************)
ClientEnds == <>(at = "done" \/ lost)

(***************************************************************************)
(* A server that registers between the client's requests, and stays, is    *)
(* printed: what the note in HandleListRequest says.                       *)
(***************************************************************************)
NewServersReached == at = "done" => due \cap joined \subseteq Printed
=============================================================================
