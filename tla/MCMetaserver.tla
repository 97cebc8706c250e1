---------------------------- MODULE MCMetaserver ----------------------------
(***************************************************************************)
(* Small instances of Metaserver for TLC: two hosts, one of which may have *)
(* two end points, and the datagrams each may send.                        *)
(***************************************************************************)
EXTENDS MetaserverDirectory

MCAddr == {"a", "b"}

\* One end point on each host.
MCOnePortEach     == {"a:1", "b:1"}
MCOnePortEachHost == [e \in MCOnePortEach |-> IF e = "b:1" THEN "b" ELSE "a"]

\* A second end point on host a, as behind an address translator.
MCSharedHost     == MCOnePortEach \cup {"a:2"}
MCSharedHostHost == [e \in MCSharedHost |-> IF e = "b:1" THEN "b" ELSE "a"]

DatagramsOf(types, args) == [type : types, src : EndPoint, arg : args]

\* What game servers send, with SHAKEs of a value never issued.
MCServerDatagrams ==
  DatagramsOf({"SERVERKEEPALIVE", "TERMINATE"}, {0})
    \cup DatagramsOf({"SERVERSHAKE"}, HandshakeValue \cup {9})

\* What clients send, what is not for the clients' directory, and a type the
\* metaserver ignores.
MCClientDatagrams ==
  DatagramsOf({"CLIENTKEEPALIVE", "TERMINATE", "IGNORED"}, {0})
    \cup DatagramsOf({"CLIENTSHAKE", "SERVERSHAKE"}, HandshakeValue)

\* Servers that register, and clients that ask for the list or show values
\* that only servers were issued.
MCListingDatagrams ==
  MCServerDatagrams
    \cup DatagramsOf({"LISTREQ"}, 0..2) \cup DatagramsOf({"CLIENTSHAKE"}, {1})
=============================================================================
