---------------------------- MODULE SystemProofs ----------------------------
(***************************************************************************)
(* Proofs about module System, for any number of game servers, any script  *)
(* of its form, any bounds and any network: the metaserver in it is the    *)
(* one of module Metaserver, and what is proved there holds among its      *)
(* peers.                                                                  *)
(***************************************************************************)
EXTENDS System, MetaserverProofs

SysInv == Inv /\ SysTypeOK

-----------------------------------------------------------------------------
(* Every step of the system is one of the metaserver, or none. *)

(* Only a datagram that a game server sent reaches a handler. *)
LEMMA ServeReceives ==
  ASSUME SysTypeOK, Serve
  PROVE  /\ Head(inbox) \in ServerDatagrams
         /\ Receive(Head(inbox))
BY HeadTailProperties DEF SysTypeOK, Serve

(* What the environment may do in Metaserver it does here, or less. *)
LEMMA StepIsMetaserverStep ==
  ASSUME SysTypeOK, [SysNext]_sysVars
  PROVE  [Next]_vars
<1>1. CASE Serve
  <2>1. Head(inbox) \in Datagrams
    BY <1>1, ServeReceives, SystemAssumption
  <2>2. QED
    BY <1>1, <2>1, ServeReceives DEF Next, Process
<1>2. CASE Housekeep
  BY <1>2 DEF Housekeep, Next, Process
<1>3. CASE Alarm \/ Interrupt \/ Second \/ Deliver
  BY <1>3 DEF Alarm, Interrupt, Second, Deliver, Next, Kernel
<1>4. CASE Lose
  BY <1>4 DEF Lose
<1>5. CASE \E p \in EndPoint : GameServer(p) \/ Fail(p)
  BY <1>5 DEF GameServer, Keepalive, Shake, Terminate, Wake, Fail
<1>6. CASE UNCHANGED sysVars
  BY <1>6 DEF sysVars
<1>7. QED
  BY <1>1, <1>2, <1>3, <1>4, <1>5, <1>6 DEF SysNext

-----------------------------------------------------------------------------
(* Types. *)

(* The script ends with two TERMINATEs and a wait between them. *)
LEMMA ScriptTail ==
  /\ Len(Script) \in Nat /\ Len(Script) >= 6
  /\ Script[Len(Script) - 2] = "terminate"
  /\ Script[Len(Script) - 1] = "wait"
  /\ Script[Len(Script)] = "terminate"
<1> DEFINE rounds == [k \in 1..(3 * Rounds) |-> Round[((k - 1) % 3) + 1]]
           rest   == <<"wait", "keepalive", "recvfrom", "terminate", "wait", "terminate">>
           n == 3 * Rounds
           S == {"keepalive", "recvfrom", "pause", "wait", "terminate"}
<1>1. n \in Nat
  BY SystemAssumption
<1>2. rounds \in Seq(S) /\ Len(rounds) = n
  <2>1. \A k \in 1..n : ((k - 1) % 3) + 1 \in 1..3
    BY <1>1
  <2>2. rounds \in [1..n -> S]
    BY <2>1 DEF Round
  <2> HIDE DEF rounds, S
  <2>3. rounds \in Seq(S)
    BY <1>1, <2>2, FunctionIsSeq
  <2>4. DOMAIN rounds = 1..n
    BY <2>2
  <2>5. QED
    BY <1>1, <2>3, <2>4, LenProperties
<1>3. /\ rest \in Seq(S) /\ Len(rest) = 6
      /\ rest[4] = "terminate" /\ rest[5] = "wait" /\ rest[6] = "terminate"
  OBVIOUS
<1>4. Script = rounds \o rest
  BY DEF Script
<1> HIDE DEF rounds, rest, n
<1>5. /\ Len(rounds \o rest) = n + 6
      /\ \A k \in 1..(n + 6) :
           (rounds \o rest)[k] = IF k <= n THEN rounds[k] ELSE rest[k - n]
  <2>1. /\ Len(rounds \o rest) = Len(rounds) + Len(rest)
        /\ \A k \in 1..(Len(rounds) + Len(rest)) :
             (rounds \o rest)[k] = IF k <= Len(rounds) THEN rounds[k]
                                   ELSE rest[k - Len(rounds)]
    <3> HIDE DEF S
    <3> QED BY <1>2, <1>3, ConcatProperties
  <2>2. QED
    BY <1>2, <1>3, <2>1
<1>6. /\ Script[n + 4] = rest[4] /\ Script[n + 5] = rest[5] /\ Script[n + 6] = rest[6]
  BY <1>1, <1>4, <1>5
<1>7. Len(Script) = n + 6
  BY <1>4, <1>5
<1>8. Len(Script) - 2 = n + 4 /\ Len(Script) - 1 = n + 5
  BY <1>1, <1>7
<1>9. QED
  BY <1>1, <1>3, <1>6, <1>7, <1>8

(* A game server that is not at the end of its script gets one step on. *)
LEMMA AdvanceTypes ==
  ASSUME SysTypeOK, now \in Nat, NEW p \in EndPoint, Op(p) # "exit", Advance(p)
  PROVE  /\ at' \in [EndPoint -> 1..(Len(Script) + 1)]
         /\ until' \in [EndPoint -> Nat] /\ due' \in [EndPoint -> Nat]
         /\ exited' \subseteq EndPoint
<1>1. Len(Script) \in Nat
  BY ScriptTail
<1>2. at[p] \in 1..Len(Script)
  BY <1>1 DEF Op, SysTypeOK
<1>3. at' \in [EndPoint -> 1..(Len(Script) + 1)]
  BY <1>1, <1>2 DEF Advance, SysTypeOK
<1>4. Pause \in Nat /\ Wait \in Nat /\ RoundTime \in Nat
  BY SystemAssumption
<1>5. \A op : Seconds(op) \in Nat
  BY <1>4 DEF Seconds
<1>6. until' \in [EndPoint -> Nat]
  <2>1. now + Seconds(Script[at'[p]]) \in Nat
    BY <1>5
  <2>2. QED
    BY <2>1 DEF Advance, SysTypeOK
<1>7. due' \in [EndPoint -> Nat]
  <2>1. until[p] + RoundTime \in Nat
    BY <1>4 DEF SysTypeOK
  <2>2. QED
    BY <2>1 DEF Advance, SysTypeOK
<1>8. QED
  BY <1>3, <1>6, <1>7 DEF Advance, SysTypeOK

(* A queue of datagrams from which the network takes one. *)
LEMMA RemainingType ==
  ASSUME SysTypeOK, NEW S, NEW queue \in Seq(S), NEW i \in Deliverable(queue),
         NEW r \in Remaining(queue, i)
  PROVE  queue[i] \in S /\ r[1] \in Seq(S) /\ r[2] \in Nat
<1>1. i \in 1..Len(queue)
  BY LenProperties DEF Deliverable
<1>2. queue[i] \in S /\ RemoveAt(queue, i) \in Seq(S)
  BY <1>1, ElementOfSeq, RemoveAtElements
<1>3. repeats \in Nat
  BY DEF SysTypeOK
<1>4. QED
  BY <1>2, <1>3 DEF Remaining

(* What a game server sends is one of its datagrams. *)
LEMMA SendType ==
  ASSUME SysTypeOK, NEW p \in EndPoint, NEW type, NEW arg, Send(type, p, arg),
         \/ type \in {"SERVERKEEPALIVE", "TERMINATE"} /\ arg = 0
         \/ type = "SERVERSHAKE" /\ arg \in HandshakeValue
  PROVE  toServer' \in Seq(ServerDatagrams)
<1>1. [type |-> type, src |-> p, arg |-> arg] \in ServerDatagrams
  BY DEF ServerDatagrams
<1>2. QED
  BY <1>1, AppendElements DEF Send, SysTypeOK

(* A game server's step. *)
LEMMA GameServerTypes ==
  ASSUME SysTypeOK, now \in Nat, NEW p \in EndPoint, GameServer(p)
  PROVE  SysTypeOK'
<1>1. CASE Keepalive(p)
  <2>1. toServer' \in Seq(ServerDatagrams)
    BY <1>1, SendType DEF Keepalive
  <2>2. QED
    BY <1>1, <2>1, AdvanceTypes DEF Keepalive, SysTypeOK, history
<1>2. CASE Shake(p)
  <2> PICK i \in Deliverable(toPeer[p]) : \E r \in Remaining(toPeer[p], i) :
        /\ toPeer' = [toPeer EXCEPT ![p] = r[1]] /\ repeats' = r[2]
        /\ Send("SERVERSHAKE", p, toPeer[p][i])
    BY <1>2 DEF Shake
  <2>1. PICK r \in Remaining(toPeer[p], i) :
          /\ toPeer' = [toPeer EXCEPT ![p] = r[1]] /\ repeats' = r[2]
          /\ Send("SERVERSHAKE", p, toPeer[p][i])
    OBVIOUS
  <2>2. toPeer[p] \in Seq(HandshakeValue)
    BY DEF SysTypeOK
  <2>3. toPeer[p][i] \in HandshakeValue /\ r[1] \in Seq(HandshakeValue) /\ r[2] \in Nat
    BY <2>2, RemainingType
  <2>4. toServer' \in Seq(ServerDatagrams)
    BY <2>1, <2>3, SendType
  <2>5. toPeer' \in [EndPoint -> Seq(HandshakeValue)] /\ repeats' \in Nat
    BY <2>1, <2>3 DEF SysTypeOK
  <2>6. Op(p) # "exit" /\ Advance(p) /\ UNCHANGED <<inbox, losses, history>>
    BY <1>2 DEF Shake
  <2>7. /\ at' \in [EndPoint -> 1..(Len(Script) + 1)]
        /\ until' \in [EndPoint -> Nat] /\ due' \in [EndPoint -> Nat]
        /\ exited' \subseteq EndPoint
    BY <2>6, AdvanceTypes
  <2>8. /\ inbox' \in Seq(ServerDatagrams) /\ {losses', bogus', voided'} \subseteq Nat
        /\ disturbed' \subseteq EndPoint
    BY <2>6 DEF SysTypeOK, history
  <2>9. QED
    BY <2>4, <2>5, <2>7, <2>8 DEF SysTypeOK
<1>3. CASE Terminate(p)
  <2>1. toServer' \in Seq(ServerDatagrams)
    BY <1>3, SendType DEF Terminate
  <2>2. QED
    BY <1>3, <2>1, AdvanceTypes DEF Terminate, SysTypeOK, history
<1>4. CASE Wake(p)
  <2>1. Op(p) # "exit" /\ Advance(p)
    BY <1>4 DEF Wake, Sleeping
  <2>2. UNCHANGED <<network, history>>
    BY <1>4 DEF Wake
  <2>3. QED
    BY <2>1, <2>2, AdvanceTypes DEF SysTypeOK, network, history
<1>5. QED
  BY <1>1, <1>2, <1>3, <1>4 DEF GameServer

(* The network's. *)
LEMMA NetworkTypes ==
  ASSUME SysTypeOK, Deliver \/ Lose
  PROVE  SysTypeOK'
<1>1. CASE Deliver
  <2> PICK i \in Deliverable(toServer) : \E r \in Remaining(toServer, i) :
        /\ toServer' = r[1] /\ repeats' = r[2]
        /\ inbox' = Append(inbox, toServer[i])
        /\ disturbed' \subseteq disturbed \cup {toServer[i].src}
    BY <1>1 DEF Deliver, Disturb
  <2>1. PICK r \in Remaining(toServer, i) :
          /\ toServer' = r[1] /\ repeats' = r[2]
          /\ inbox' = Append(inbox, toServer[i])
    OBVIOUS
  <2>2. toServer \in Seq(ServerDatagrams) /\ inbox \in Seq(ServerDatagrams)
    BY DEF SysTypeOK
  <2>3. toServer[i] \in ServerDatagrams /\ r[1] \in Seq(ServerDatagrams) /\ r[2] \in Nat
    BY <2>2, RemainingType
  <2>4. inbox' \in Seq(ServerDatagrams)
    BY <2>1, <2>2, <2>3, AppendElements
  <2>5. disturbed' \subseteq EndPoint
    BY <2>3 DEF SysTypeOK, ServerDatagrams
  <2>6. QED
    BY <1>1, <2>1, <2>3, <2>4, <2>5 DEF Deliver, SysTypeOK, peers
<1>2. CASE Lose
  <2>1. losses' \in Nat
    BY <1>2 DEF Lose, SysTypeOK
  <2>2. /\ toServer' \in Seq(ServerDatagrams) /\ toPeer' \in [EndPoint -> Seq(HandshakeValue)]
        /\ disturbed' \subseteq EndPoint
    <3>1. CASE \E i \in DOMAIN toServer : LoseRequest(i)
      <4>1. PICK i \in DOMAIN toServer : LoseRequest(i)
        BY <3>1
      <4>2. toServer \in Seq(ServerDatagrams) /\ i \in 1..Len(toServer)
        BY LenProperties DEF SysTypeOK
      <4>3. toServer[i] \in ServerDatagrams /\ RemoveAt(toServer, i) \in Seq(ServerDatagrams)
        BY <4>2, ElementOfSeq, RemoveAtElements
      <4>4. toServer[i].src \in EndPoint
        BY <4>3 DEF ServerDatagrams
      <4>5. QED
        BY <4>1, <4>3, <4>4 DEF LoseRequest, Disturb, SysTypeOK
    <3>2. CASE \E p \in EndPoint : \E i \in DOMAIN toPeer[p] : LoseAnswer(p, i)
      <4>1. PICK p \in EndPoint : \E i \in DOMAIN toPeer[p] : LoseAnswer(p, i)
        BY <3>2
      <4>2. PICK i \in DOMAIN toPeer[p] : LoseAnswer(p, i)
        BY <4>1
      <4>3. toPeer[p] \in Seq(HandshakeValue)
        BY DEF SysTypeOK
      <4>4. RemoveAt(toPeer[p], i) \in Seq(HandshakeValue)
        BY <4>3, RemoveAtElements, LenProperties
      <4>5. QED
        BY <4>2, <4>4 DEF LoseAnswer, SysTypeOK
    <3>3. QED
      BY <1>2, <3>1, <3>2 DEF Lose
  <2>3. QED
    BY <1>2, <2>1, <2>2 DEF Lose, SysTypeOK, peers
<1>3. QED
  BY <1>1, <1>2

(* A datagram of a game server is answered with a handshake value or not   *)
(* at all.                                                                 *)
LEMMA ServeTypes ==
  ASSUME SysTypeOK, Serve
  PROVE  SysTypeOK'
<1>1. Head(inbox) \in ServerDatagrams /\ Receive(Head(inbox))
  BY ServeReceives
<1>2. inbox' \in Seq(ServerDatagrams)
  BY HeadTailProperties DEF Serve, SysTypeOK
<1>3. \/ out' = NoReply
      \/ out'.dst \in EndPoint /\ out'.hs \in HandshakeValue
  <2>1. Head(inbox).src \in EndPoint
    BY <1>1 DEF ServerDatagrams
  <2>2. Head(inbox).type \in {"SERVERKEEPALIVE", "TERMINATE", "SERVERSHAKE"}
    BY <1>1 DEF ServerDatagrams
  <2>3. CASE HandleServerKeepalive(Head(inbox))
    BY <2>1, <2>3 DEF HandleServerKeepalive, IssueHandshake
  <2>4. CASE HandleServerShake(Head(inbox)) \/ HandleTerminate(Head(inbox))
    BY <2>4 DEF HandleServerShake, HandleTerminate
  <2>5. QED
    BY <1>1, <2>2, <2>3, <2>4 DEF Receive, HandleClientKeepalive, HandleClientShake,
      HandleListRequest, Ignore
<1>4. toPeer' \in [EndPoint -> Seq(HandshakeValue)]
  <2>1. CASE out' = NoReply
    BY <2>1 DEF Serve, SysTypeOK
  <2>2. CASE out' # NoReply
    <3>1. toPeer[out'.dst] \in Seq(HandshakeValue)
      BY <1>3, <2>2 DEF SysTypeOK
    <3>2. Append(toPeer[out'.dst], out'.hs) \in Seq(HandshakeValue)
      BY <1>3, <2>2, <3>1, AppendElements
    <3>3. toPeer' = [toPeer EXCEPT ![out'.dst] = Append(@, out'.hs)]
      BY <2>2 DEF Serve
    <3>4. QED
      BY <1>3, <2>2, <3>2, <3>3 DEF SysTypeOK
  <2>3. QED
    BY <2>1, <2>2
<1>5. bogus' \in Nat
  BY DEF Serve, SysTypeOK
<1>6. QED
  BY <1>2, <1>4, <1>5 DEF Serve, SysTypeOK, peers

(* Between two datagrams at most one entry is taken away, a stale one. *)
LEMMA HousekeepErases ==
  ASSUME Inv, Housekeep, NEW w \in ListType
  PROVE  \/ Same(w)
         \/ \E i \in 1..Len(lists[w]) :
              lists'[w] = RemoveAt(lists[w], i) /\ Stale(lists[w][i])
<1> DEFINE Sweeps == \/ Same(w)
                     \/ \E i \in 1..Len(lists[w]) :
                          lists'[w] = RemoveAt(lists[w], i) /\ Stale(lists[w][i])
<1>1. CASE UNCHANGED lists
  BY <1>1 DEF Same
<1>2. ASSUME EraseLead, lead <= Len(Reaped), Stale(Reaped[lead]) PROVE Sweeps
  <2>1. lead \in 1..Len(Reaped) /\ ReapOrder[which] \in ListType
    BY <1>2, ReapOrderProperties, LenProperties DEF Inv, TypeOK, Reaped
  <2>2. lists \in [ListType -> Seq(Handshake)]
    BY DEF Inv, TypeOK
  <2>3. CASE ReapOrder[which] = w
    BY <1>2, <2>1, <2>2, <2>3 DEF EraseLead, Reaped
  <2>4. CASE ReapOrder[which] # w
    BY <1>2, <2>2, <2>4 DEF EraseLead, Same
  <2>5. QED
    BY <2>3, <2>4
<1>3. CASE ReapErase
  BY <1>2, <1>3 DEF ReapErase
<1>4. CASE HookReturns
  <2>1. CASE pc = "systemReap"
    BY <1>2, <1>4, <2>1 DEF HookReturns, Inv, AtLead
  <2>2. CASE pc # "systemReap"
    BY <1>1, <1>4, <2>2 DEF HookReturns
  <2>3. QED
    BY <2>1, <2>2
<1>5. CASE Quiet
  BY <1>1, <1>5, QuietSame
<1>6. QED
  BY <1>3, <1>4, <1>5 DEF Housekeep, Reaper, Quiet

(* So it is for the pending handshakes. *)
LEMMA HousekeepPending ==
  ASSUME Inv, Housekeep
  PROVE  /\ Pending \in Seq(Handshake)
         /\ \/ Pending' = Pending
            \/ \E i \in 1..Len(Pending) : Pending' = RemoveAt(Pending, i)
<1>1. "SERVER_HANDSHAKE_LIST" \in ListType
  BY DEF ListType, HandshakeList
<1>2. QED
  BY <1>1, HousekeepErases DEF Inv, TypeOK, Pending, Same

(* So what a sweep takes away is a number. *)
LEMMA HousekeepTypes ==
  ASSUME Inv, SysTypeOK, Housekeep
  PROVE  SysTypeOK'
<1>1. Len(Pending) \in Nat /\ Len(Pending') \in Nat /\ Len(Pending') <= Len(Pending)
  <2>1. Pending \in Seq(Handshake) /\ Len(Pending) \in Nat
    BY HousekeepPending, LenProperties
  <2>2. CASE Pending' = Pending
    BY <2>1, <2>2
  <2>3. CASE \E i \in 1..Len(Pending) : Pending' = RemoveAt(Pending, i)
    <3>1. PICK i \in 1..Len(Pending) : Pending' = RemoveAt(Pending, i)
      BY <2>3
    <3>2. Len(Pending') = Len(Pending) - 1 /\ Len(Pending) >= 1
      BY <2>1, <3>1, RemoveAtElements
    <3>3. QED
      BY <2>1, <3>2
  <2>4. QED
    BY <2>2, <2>3, HousekeepPending
<1>2. voided' \in Nat
  <2>1. voided \in Nat
    BY DEF SysTypeOK
  <2>2. voided' = voided + Len(Pending) - Len(Pending')
    BY DEF Housekeep
  <2>3. QED
    BY <1>1, <2>1, <2>2
<1>3. QED
  BY <1>2 DEF Housekeep, SysTypeOK, peers, network

(* Every step keeps the types and the metaserver's invariant. *)
LEMMA SysNextInv == SysInv /\ [SysNext]_sysVars => SysInv'
<1> SUFFICES ASSUME SysInv, [SysNext]_sysVars PROVE SysInv'
  OBVIOUS
<1>1. Inv'
  BY StepIsMetaserverStep, NextInv DEF SysInv
<1>2. now \in Nat
  BY DEF SysInv, Inv, TypeOK
<1>3. CASE Serve
  BY <1>1, <1>3, ServeTypes DEF SysInv
<1>4. CASE Housekeep
  BY <1>1, <1>4, HousekeepTypes DEF SysInv
<1>5. CASE UNCHANGED <<peers, network, history>>
  BY <1>1, <1>5 DEF SysInv, SysTypeOK, peers, network, history
<1>6. CASE Alarm \/ Interrupt \/ Second
  BY <1>5, <1>6 DEF Alarm, Interrupt, Second
<1>7. CASE Deliver \/ Lose
  BY <1>1, <1>7, NetworkTypes DEF SysInv
<1>8. CASE \E p \in EndPoint : GameServer(p)
  BY <1>1, <1>2, <1>8, GameServerTypes DEF SysInv
<1>9. CASE \E p \in EndPoint : Fail(p)
  BY <1>1, <1>9 DEF Fail, err_sys, SysInv, SysTypeOK, network, history
<1>10. CASE UNCHANGED sysVars
  BY <1>5, <1>10 DEF sysVars
<1>11. QED
  BY <1>3, <1>4, <1>6, <1>7, <1>8, <1>9, <1>10 DEF SysNext

(* So does the start. *)
LEMMA SysInitInv == SysInit => SysInv
<1> SUFFICES ASSUME SysInit PROVE SysInv
  OBVIOUS
<1>1. Inv
  BY InitInv DEF SysInit
<1>2. RoundTime \in Nat
  BY SystemAssumption
<1>3. 1 \in 1..(Len(Script) + 1)
  BY ScriptTail
<1>4. QED
  BY <1>1, <1>2, <1>3 DEF SysInit, SysInv, SysTypeOK

-----------------------------------------------------------------------------
(* The theorems. *)

(* The invariant holds in every reachable state. *)
THEOREM SystemInvariance == SysSafety => []SysInv
BY SysInitInv, SysNextInv, PTL DEF SysSafety

(***************************************************************************)
(* What is under way is what game servers send and handshakes that were    *)
(* issued, for any number of game servers and any faults of the network.   *)
(***************************************************************************)
THEOREM SystemTypeCorrect == SysSafety => []SysTypeOK
<1>1. SysInv => SysTypeOK
  BY DEF SysInv
<1>2. QED
  BY <1>1, SystemInvariance, PTL

(***************************************************************************)
(* Among its peers the metaserver behaves as module Metaserver says, so    *)
(* what is proved of that holds in the system: no server is listed twice,  *)
(* nothing outlives two intervals, the reaping clock never stops.          *)
(***************************************************************************)
THEOREM ImplementsMetaserver == SysSafety => Spec
<1>1. SysInit => Init
  BY DEF SysInit
<1>2. SysInv /\ [SysNext]_sysVars => [Next]_vars
  BY StepIsMetaserverStep DEF SysInv
<1>3. QED
  BY <1>1, <1>2, SystemInvariance, PTL DEF SysSafety, Spec

-----------------------------------------------------------------------------
(* Who is listed, and what comes after a TERMINATE. *)

\* The hosts on the list of servers; no two game servers share one.
ListedAddrs == AddrsOf(lists["SERVER_LIST"])

OwnHosts == \A p, q \in EndPoint : Host[p] = Host[q] => p = q

IsTermination(d, p) == d.type = "TERMINATE" /\ d.src = p
IsShake(d, p) == d.type = "SERVERSHAKE" /\ d.src = p

TerminationToCome(p) ==
  \/ \E j \in DOMAIN inbox : IsTermination(inbox[j], p)
  \/ \E j \in DOMAIN toServer : IsTermination(toServer[j], p)

\* Behind every SHAKE that may list p, and behind its entry, comes a TERMINATE.
Overruled(p) ==
  /\ \A i \in DOMAIN toServer : IsShake(toServer[i], p) =>
       \E j \in DOMAIN toServer : j >= i /\ IsTermination(toServer[j], p)
  /\ \A i \in DOMAIN inbox : IsShake(inbox[i], p) =>
       \/ \E j \in DOMAIN inbox : j >= i /\ IsTermination(inbox[j], p)
       \/ \E j \in DOMAIN toServer : IsTermination(toServer[j], p)
  /\ Host[p] \in ListedAddrs => TerminationToCome(p)

\* So it is from a game server's first TERMINATE on, if no TERMINATE of it was
\* lost or overtook a SHAKE.
TerminateInv ==
  \A p \in EndPoint :
    at[p] >= Len(Script) - 1 /\ p \notin disturbed => Overruled(p)

(* Being listed is having one's host on the list. *)
LEMMA ListedIsThere ==
  ASSUME TypeOK, NEW p
  PROVE  IsListed(p) <=> Host[p] \in ListedAddrs
BY DEF IsListed, ListedAddrs, AddrsOf

(* What erases or renews entries lists nobody. *)
LEMMA ListsNobody ==
  ASSUME TypeOK,
         Same("SERVER_LIST") \/ Erases("SERVER_LIST") \/ Renews("SERVER_LIST")
  PROVE  ListedAddrs' \subseteq ListedAddrs
<1> DEFINE l == lists["SERVER_LIST"]
<1>1. "SERVER_LIST" \in ListType
  BY DEF ListType, ActiveList
<1>2. l \in Seq(Handshake) /\ DOMAIN l = 1..Len(l) /\ Len(l) \in Nat
  BY <1>1, LenProperties DEF TypeOK
<1>3. CASE Same("SERVER_LIST")
  BY <1>3 DEF Same, ListedAddrs
<1>4. CASE Erases("SERVER_LIST")
  <2> HIDE DEF l
  <2>1. PICK i \in 1..Len(l) : l' = RemoveAt(l, i)
    BY <1>4 DEF Erases, l
  <2>2. /\ l' \in Seq(Handshake) /\ Len(l') = Len(l) - 1
        /\ \A j \in 1..(Len(l) - 1) : l'[j] = IF j < i THEN l[j] ELSE l[j + 1]
    BY <1>2, <2>1, RemoveAtElements
  <2>3. DOMAIN l' = 1..(Len(l) - 1)
    BY <2>2, LenProperties
  <2>4. \A j \in DOMAIN l' : \E k \in DOMAIN l : l'[j] = l[k]
    BY <1>2, <2>2, <2>3
  <2>5. QED
    BY <2>4 DEF ListedAddrs, AddrsOf, l
<1>5. CASE Renews("SERVER_LIST")
  BY <1>1, <1>5, RenewedAddrs DEF Renews, ListedAddrs
<1>6. QED
  BY <1>3, <1>4, <1>5

(* Only the SHAKE of a game server on that host lists a host. *)
LEMMA ServeLists ==
  ASSUME TypeOK, SysTypeOK, Serve, Head(inbox).type # "TERMINATE"
  PROVE  \/ ListedAddrs' \subseteq ListedAddrs
         \/ /\ Head(inbox).type = "SERVERSHAKE"
            /\ ListedAddrs' \subseteq ListedAddrs \cup {Host[Head(inbox).src]}
<1> DEFINE d == Head(inbox)
           c == "SERVER_LIST"
           h == "SERVER_HANDSHAKE_LIST"
<1>1. d \in ServerDatagrams /\ Receive(d) /\ d \in Datagrams
  BY ServeReceives, SystemAssumption
<1>2. d.type \in {"SERVERKEEPALIVE", "TERMINATE", "SERVERSHAKE"}
  BY <1>1 DEF ServerDatagrams
<1>3. c \in ListType /\ h \in ListType /\ c # h /\ lists[c] \in Seq(Handshake)
      /\ lists[h] \in Seq(Handshake)
  BY DEF TypeOK, ListType, ActiveList, HandshakeList
<1>4. CASE HandleServerKeepalive(d)
  <2>1. Same(c)
    BY <1>3, <1>4 DEF HandleServerKeepalive, IssueHandshake, Same, TypeOK
  <2>2. QED
    BY <2>1, ListsNobody
<1>5. CASE HandleServerShake(d)
  <2>0. d.type = "SERVERSHAKE"
    BY <1>5 DEF HandleServerShake
  <2>1. CASE BogusShake(h, d)
    BY <2>1, ListsNobody DEF BogusShake, Same
  <2>2. CASE RenewActive(h, c, d)
    <3>1. PICK i \in FindByHS(lists[h], d.arg), j \in FindByAddr(lists[c], SenderAddr(d)) :
            lists' = [lists EXCEPT ![h] = RemoveAt(@, i), ![c][j].ts = now]
      BY <2>2 DEF RenewActive
    <3>2. j \in 1..Len(lists[c])
      BY <1>3, FindProperties
    <3>3. lists'[c] = [lists[c] EXCEPT ![j] = [@ EXCEPT !.ts = now]]
      BY <1>3, <3>1 DEF TypeOK
    <3>4. Renews(c)
      BY <3>2, <3>3 DEF Renews
    <3>5. QED
      BY <3>4, ListsNobody
  <2>3. CASE EnlistActive(h, c, d)
    <3>1. lists'[c] = Append(lists[c], Entry(SenderAddr(d), 0, now))
      BY <1>3, <2>3 DEF EnlistActive, TypeOK
    <3>2. DOMAIN lists'[c] = 1..(Len(lists[c]) + 1) /\ Len(lists[c]) \in Nat
          /\ \A k \in 1..(Len(lists[c]) + 1) :
               lists'[c][k] = IF k <= Len(lists[c]) THEN lists[c][k]
                              ELSE Entry(SenderAddr(d), 0, now)
      BY <1>3, <3>1, LenProperties
    <3>3. \A k \in DOMAIN lists'[c] :
            lists'[c][k].addr \in AddrsOf(lists[c]) \cup {Host[d.src]}
      BY <1>3, <3>2, LenProperties DEF AddrsOf, Entry, SenderAddr
    <3>4. QED
      BY <2>0, <3>3 DEF ListedAddrs, AddrsOf
  <2>4. QED
    BY <1>5, <2>1, <2>2, <2>3 DEF HandleServerShake
<1>6. QED
  BY <1>1, <1>2, <1>4, <1>5
     DEF Receive, HandleTerminate, HandleClientKeepalive, HandleClientShake,
         HandleListRequest, Ignore

(* A TERMINATE takes its sender's host off the list, where it stands once.  *)
LEMMA TerminateUnlists ==
  ASSUME TypeOK, UniqueActive, SysTypeOK, Serve, Head(inbox).type = "TERMINATE"
  PROVE  /\ ListedAddrs' \subseteq ListedAddrs
         /\ Host[Head(inbox).src] \notin ListedAddrs'
<1> DEFINE d == Head(inbox)
           c == "SERVER_LIST"
           l == lists[c]
<1>1. HandleTerminate(d)
  BY ServeReceives DEF Receive, HandleServerKeepalive, HandleClientKeepalive,
     HandleServerShake, HandleClientShake, HandleListRequest, Ignore
<1>2. c \in ListType /\ c \in ActiveList /\ l \in Seq(Handshake) /\ DOMAIN l = 1..Len(l)
      /\ Len(l) \in Nat
  BY LenProperties DEF TypeOK, ListType, ActiveList
<1>3. CASE FindByAddr(l, SenderAddr(d)) = {}
  <2>1. UNCHANGED lists
    BY <1>1, <1>3 DEF HandleTerminate
  <2>2. Host[d.src] \notin AddrsOf(l)
    BY <1>2, <1>3, FindProperties DEF SenderAddr
  <2>3. QED
    BY <2>1, <2>2 DEF ListedAddrs
<1>4. CASE FindByAddr(l, SenderAddr(d)) # {}
  <2>1. PICK i \in FindByAddr(l, SenderAddr(d)) : lists' = [lists EXCEPT ![c] = RemoveAt(@, i)]
    BY <1>1, <1>4 DEF HandleTerminate
  <2>2. i \in 1..Len(l) /\ l[i].addr = Host[d.src]
    BY <1>2, <2>1, FindProperties DEF SenderAddr
  <2>3. lists'[c] = RemoveAt(l, i)
    BY <1>2, <2>1 DEF TypeOK
  <2>4. ListedAddrs' \subseteq ListedAddrs
    BY <2>2, <2>3, ListsNobody DEF Erases
  <2> DEFINE m == lists'[c]
  <2>5. /\ Len(m) = Len(l) - 1 /\ m \in Seq(Handshake)
        /\ \A j \in 1..(Len(l) - 1) : m[j] = IF j < i THEN l[j] ELSE l[j + 1]
    BY <1>2, <2>2, <2>3, RemoveAtElements
  <2>6. \A j \in 1..Len(l) : j # i => l[j].addr # Host[d.src]
    BY <1>2, <2>2 DEF UniqueActive
  <2>7. \A j \in DOMAIN m : m[j].addr # Host[d.src]
    <3> HIDE DEF m, l
    <3>1. TAKE j \in DOMAIN m
    <3>2. j \in 1..(Len(l) - 1)
      BY <2>5, LenProperties
    <3>3. CASE j < i
      BY <1>2, <2>2, <2>5, <2>6, <3>2, <3>3
    <3>4. CASE ~(j < i)
      BY <1>2, <2>2, <2>5, <2>6, <3>2, <3>4
    <3>5. QED
      BY <3>3, <3>4
  <2>8. QED
    BY <2>4, <2>7 DEF ListedAddrs, AddrsOf
<1>5. QED
  BY <1>3, <1>4

(* Everything else lists nobody. *)
LEMMA HousekeepListsNobody ==
  ASSUME Inv, Housekeep
  PROVE  ListedAddrs' \subseteq ListedAddrs
<1>1. "SERVER_LIST" \in ListType /\ TypeOK
  BY DEF Inv, ListType, ActiveList
<1>2. QED
  BY <1>1, HousekeepErases, ListsNobody DEF Erases

(* A datagram of another game server, or a TERMINATE of its own, follows.  *)
LEMMA OverruledSends ==
  ASSUME SysTypeOK, NEW p \in EndPoint, NEW d, d \in ServerDatagrams,
         toServer' = Append(toServer, d), inbox' = inbox,
         ListedAddrs' \subseteq ListedAddrs,
         IsTermination(d, p) \/ (Overruled(p) /\ d.src # p)
  PROVE  Overruled(p)'
<1>1. /\ Len(toServer) \in Nat /\ DOMAIN toServer = 1..Len(toServer)
      /\ DOMAIN toServer' = 1..(Len(toServer) + 1)
      /\ \A j \in 1..(Len(toServer) + 1) :
           toServer'[j] = IF j <= Len(toServer) THEN toServer[j] ELSE d
  BY AppendElements, LenProperties DEF SysTypeOK
<1>2. toServer'[Len(toServer) + 1] = d
  BY <1>1
<1>3. CASE IsTermination(d, p)
  <2>1. \A i \in DOMAIN toServer' :
          Len(toServer) + 1 >= i /\ IsTermination(toServer'[Len(toServer) + 1], p)
    BY <1>1, <1>2, <1>3
  <2>2. Len(toServer) + 1 \in DOMAIN toServer'
    BY <1>1
  <2>3. QED
    BY <1>2, <1>3, <2>1, <2>2 DEF Overruled, TerminationToCome, IsTermination, IsShake
<1>4. CASE Overruled(p) /\ d.src # p
  <2>1. \A j \in DOMAIN toServer : j \in DOMAIN toServer' /\ toServer'[j] = toServer[j]
    BY <1>1
  <2>2. \A i \in DOMAIN toServer' :
          toServer'[i].src = p => i \in DOMAIN toServer /\ toServer'[i] = toServer[i]
    BY <1>1, <1>4
  <2>3. QED
    BY <1>4, <2>1, <2>2 DEF Overruled, TerminationToCome, IsTermination, IsShake
<1>5. QED
  BY <1>3, <1>4

(* What is taken out of the network leaves everything else there in its    *)
(* order, so a SHAKE of p is still followed by p's TERMINATE, unless that  *)
(* overtook it.                                                            *)
LEMMA OverruledTakenOut ==
  ASSUME SysTypeOK, NEW p \in EndPoint, Overruled(p), NEW i \in DOMAIN toServer,
         toServer' = toServer \/ toServer' = RemoveAt(toServer, i),
         IsTermination(toServer[i], p) => ~Overtakes(i)
  PROVE  /\ \A k \in DOMAIN toServer' : IsShake(toServer'[k], p) =>
              \E j \in DOMAIN toServer' : j >= k /\ IsTermination(toServer'[j], p)
         /\ \A j \in DOMAIN toServer : j # i =>
              \E n \in DOMAIN toServer' : toServer'[n] = toServer[j]
<1>1. CASE toServer' = toServer
  BY <1>1 DEF Overruled
<1>2. CASE toServer' = RemoveAt(toServer, i)
  <2>1. /\ toServer \in Seq(ServerDatagrams) /\ Len(toServer) \in Nat
        /\ DOMAIN toServer = 1..Len(toServer) /\ i \in 1..Len(toServer)
    BY LenProperties DEF SysTypeOK
  <2>2. /\ toServer' \in Seq(ServerDatagrams) /\ Len(toServer') = Len(toServer) - 1
        /\ \A j \in 1..(Len(toServer) - 1) :
             toServer'[j] = IF j < i THEN toServer[j] ELSE toServer[j + 1]
    BY <1>2, <2>1, RemoveAtElements
  <2>3. DOMAIN toServer' = 1..(Len(toServer) - 1)
    BY <2>2, LenProperties
  <2>4. ASSUME NEW j \in DOMAIN toServer, j < i
        PROVE  j \in DOMAIN toServer' /\ toServer'[j] = toServer[j]
    BY <2>1, <2>2, <2>3, <2>4
  <2>5. ASSUME NEW j \in DOMAIN toServer, j > i
        PROVE  j - 1 \in DOMAIN toServer' /\ toServer'[j - 1] = toServer[j]
    <3>1. j - 1 \in DOMAIN toServer' /\ ~(j - 1 < i) /\ j - 1 + 1 = j
      BY <2>1, <2>3, <2>5
    <3>2. QED
      BY <2>2, <2>3, <3>1
  <2>6. ASSUME NEW j \in DOMAIN toServer, j # i
        PROVE  \E n \in DOMAIN toServer' : toServer'[n] = toServer[j]
    <3>1. j < i \/ j > i
      BY <2>1, <2>6
    <3>2. QED
      BY <2>4, <2>5, <3>1
  <2>7. ASSUME NEW k \in DOMAIN toServer', IsShake(toServer'[k], p)
        PROVE  \E j \in DOMAIN toServer' : j >= k /\ IsTermination(toServer'[j], p)
    <3>1. CASE k < i
      <4>1. k \in DOMAIN toServer /\ IsShake(toServer[k], p)
        BY <2>1, <2>2, <2>3, <2>7, <3>1
      <4>2. PICK j \in DOMAIN toServer : j >= k /\ IsTermination(toServer[j], p)
        BY <4>1 DEF Overruled
      <4>3. j # i
        BY <2>1, <3>1, <4>1, <4>2 DEF Overtakes, IsTermination, IsShake
      <4>4. CASE j < i
        BY <2>4, <4>2, <4>4
      <4>5. CASE j > i
        <5>1. j - 1 >= k
          BY <2>1, <3>1, <4>1, <4>5
        <5>2. QED
          BY <2>5, <4>2, <4>5, <5>1
      <4>6. QED
        BY <2>1, <4>3, <4>4, <4>5
    <3>2. CASE ~(k < i)
      <4>1. k + 1 \in DOMAIN toServer /\ IsShake(toServer[k + 1], p) /\ k + 1 > i
        BY <2>1, <2>2, <2>3, <2>7, <3>2
      <4>2. PICK j \in DOMAIN toServer : j >= k + 1 /\ IsTermination(toServer[j], p)
        BY <4>1 DEF Overruled
      <4>3. j > i /\ j - 1 >= k
        BY <2>1, <2>3, <4>1, <4>2
      <4>4. QED
        BY <2>5, <4>2, <4>3
    <3>3. QED
      BY <3>1, <3>2
  <2>8. QED
    BY <2>6, <2>7
<1>3. QED
  BY <1>1, <1>2

(* What is delivered without overtaking is still followed by what follows  *)
(* it in the network.                                                      *)
LEMMA OverruledDelivered ==
  ASSUME SysTypeOK, NEW p \in EndPoint, Overruled(p), Deliver, p \notin disturbed'
  PROVE  Overruled(p)'
<1>1. PICK i \in Deliverable(toServer) :
        /\ toServer' = toServer \/ toServer' = RemoveAt(toServer, i)
        /\ inbox' = Append(inbox, toServer[i])
        /\ Overtakes(i) => disturbed' = disturbed \cup {toServer[i].src}
  BY DEF Deliver, Remaining, Disturb
<1>2. ListedAddrs' = ListedAddrs
  BY DEF Deliver, DatagramArrives, ListedAddrs
<1>3. /\ toServer \in Seq(ServerDatagrams) /\ inbox \in Seq(ServerDatagrams)
      /\ i \in DOMAIN toServer /\ DOMAIN toServer = 1..Len(toServer)
      /\ Len(toServer) \in Nat
      /\ Len(inbox) \in Nat /\ DOMAIN inbox = 1..Len(inbox)
  BY LenProperties DEF SysTypeOK, Deliverable
<1>4. /\ DOMAIN inbox' = 1..(Len(inbox) + 1)
      /\ \A j \in DOMAIN inbox : j \in DOMAIN inbox' /\ inbox'[j] = inbox[j]
      /\ inbox'[Len(inbox) + 1] = toServer[i]
  <2>1. toServer[i] \in ServerDatagrams
    BY <1>3, ElementOfSeq
  <2>2. QED
    BY <1>1, <1>3, <2>1, AppendElements, LenProperties
<1>5. IsTermination(toServer[i], p) => ~Overtakes(i)
  BY <1>1 DEF IsTermination
<1>6. /\ \A k \in DOMAIN toServer' : IsShake(toServer'[k], p) =>
           \E j \in DOMAIN toServer' : j >= k /\ IsTermination(toServer'[j], p)
      /\ \A j \in DOMAIN toServer : j # i =>
           \E n \in DOMAIN toServer' : toServer'[n] = toServer[j]
  BY <1>1, <1>3, <1>5, OverruledTakenOut
<1> DEFINE Arrived(m) == \E j \in DOMAIN inbox' : j >= m /\ IsTermination(inbox'[j], p)
           Coming == \E j \in DOMAIN toServer' : IsTermination(toServer'[j], p)
<1>7. ASSUME NEW j \in DOMAIN toServer, IsTermination(toServer[j], p), NEW m \in DOMAIN inbox'
      PROVE  Arrived(m) \/ Coming
  <2>1. CASE j = i
    BY <1>3, <1>4, <1>7, <2>1
  <2>2. CASE j # i
    BY <1>6, <1>7, <2>2
  <2>3. QED
    BY <2>1, <2>2
<1>8. ASSUME NEW m \in DOMAIN inbox', IsShake(inbox'[m], p)
      PROVE  Arrived(m) \/ Coming
  <2>1. CASE m \in DOMAIN inbox
    <3>1. \/ \E j \in DOMAIN inbox : j >= m /\ IsTermination(inbox[j], p)
          \/ \E j \in DOMAIN toServer : IsTermination(toServer[j], p)
      BY <1>4, <1>8, <2>1 DEF Overruled
    <3>2. QED
      BY <1>4, <1>7, <3>1
  <2>2. CASE m \notin DOMAIN inbox
    <3>1. m = Len(inbox) + 1
      BY <1>3, <1>4, <1>8, <2>2
    <3>2. IsShake(toServer[i], p)
      BY <1>4, <1>8, <3>1
    <3>3. \E j \in DOMAIN toServer : IsTermination(toServer[j], p)
      BY <1>3, <3>2 DEF Overruled
    <3>4. QED
      BY <1>7, <3>3
  <2>3. QED
    BY <2>1, <2>2
<1>9. Host[p] \in ListedAddrs' => TerminationToCome(p)'
  <2>1. SUFFICES ASSUME TerminationToCome(p) PROVE TerminationToCome(p)'
    BY <1>2 DEF Overruled
  <2>2. CASE \E j \in DOMAIN inbox : IsTermination(inbox[j], p)
    BY <1>4, <2>2 DEF TerminationToCome, IsTermination
  <2>3. CASE \E j \in DOMAIN toServer : IsTermination(toServer[j], p)
    <3>1. Len(inbox) + 1 \in DOMAIN inbox'
      BY <1>3, <1>4
    <3>2. QED
      BY <1>7, <2>3, <3>1 DEF TerminationToCome, IsTermination
  <2>4. QED
    BY <2>1, <2>2, <2>3 DEF TerminationToCome
<1>10. QED
  BY <1>6, <1>8, <1>9 DEF Overruled, IsTermination, IsShake

(* What is lost is no TERMINATE of p's. *)
LEMMA OverruledLost ==
  ASSUME SysTypeOK, NEW p \in EndPoint, Overruled(p), Lose, p \notin disturbed'
  PROVE  Overruled(p)'
<1>1. UNCHANGED <<inbox, ListedAddrs>>
  BY DEF Lose, ListedAddrs, vars, dataVars
<1>2. CASE \E i \in DOMAIN toServer : LoseRequest(i)
  <2>1. PICK i \in DOMAIN toServer : LoseRequest(i)
    BY <1>2
  <2>2. toServer' = RemoveAt(toServer, i) /\ ~IsTermination(toServer[i], p)
    BY <2>1 DEF LoseRequest, Disturb, IsTermination
  <2>3. /\ \A k \in DOMAIN toServer' : IsShake(toServer'[k], p) =>
             \E j \in DOMAIN toServer' : j >= k /\ IsTermination(toServer'[j], p)
        /\ \A j \in DOMAIN toServer : j # i =>
             \E n \in DOMAIN toServer' : toServer'[n] = toServer[j]
    BY <2>2, OverruledTakenOut
  <2>4. ASSUME NEW j \in DOMAIN toServer, IsTermination(toServer[j], p)
        PROVE  \E n \in DOMAIN toServer' : IsTermination(toServer'[n], p)
    <3>1. j # i
      BY <2>2, <2>4
    <3>2. QED
      BY <2>3, <2>4, <3>1
  <2>5. TerminationToCome(p) => TerminationToCome(p)'
    BY <1>1, <2>4 DEF TerminationToCome, IsTermination
  <2>6. QED
    BY <1>1, <2>3, <2>4, <2>5 DEF Overruled, IsTermination, IsShake
<1>3. CASE UNCHANGED toServer
  BY <1>1, <1>3 DEF Overruled, TerminationToCome, IsTermination, IsShake
<1>4. QED
  BY <1>2, <1>3 DEF Lose, LoseAnswer

(* What the metaserver serves of its own was overruled, and of another's   *)
(* lists another host.                                                     *)
LEMMA OverruledServed ==
  ASSUME Inv, SysTypeOK, OwnHosts, NEW p \in EndPoint, Overruled(p), Serve
  PROVE  Overruled(p)'
<1> DEFINE d == Head(inbox)
<1>1. inbox # <<>> /\ inbox' = Tail(inbox) /\ toServer' = toServer
      /\ inbox \in Seq(ServerDatagrams) /\ d \in ServerDatagrams
  BY ServeReceives DEF Serve, SysTypeOK
<1>2. /\ Len(inbox) \in Nat /\ DOMAIN inbox = 1..Len(inbox) /\ Len(inbox) >= 1
      /\ DOMAIN inbox' = 1..(Len(inbox) - 1) /\ inbox[1] = d
      /\ \A j \in DOMAIN inbox' : inbox'[j] = inbox[j + 1]
  BY <1>1, LenProperties, HeadTailProperties
<1>3. d.src \in EndPoint
  BY <1>1 DEF ServerDatagrams
<1>4. ASSUME NEW j \in DOMAIN inbox, j # 1
      PROVE  j - 1 \in DOMAIN inbox' /\ inbox'[j - 1] = inbox[j]
  <2>1. j - 1 \in DOMAIN inbox' /\ j - 1 + 1 = j
    BY <1>2, <1>4
  <2>2. QED
    BY <1>2, <2>1
<1>5. ASSUME NEW i \in DOMAIN inbox', IsShake(inbox'[i], p)
      PROVE  \/ \E j \in DOMAIN inbox' : j >= i /\ IsTermination(inbox'[j], p)
             \/ \E j \in DOMAIN toServer' : IsTermination(toServer'[j], p)
  <2>1. i + 1 \in DOMAIN inbox /\ IsShake(inbox[i + 1], p)
    BY <1>2, <1>5
  <2>2. CASE \E j \in DOMAIN inbox : j >= i + 1 /\ IsTermination(inbox[j], p)
    <3>1. PICK j \in DOMAIN inbox : j >= i + 1 /\ IsTermination(inbox[j], p)
      BY <2>2
    <3>2. j # 1 /\ j - 1 >= i
      BY <1>2, <3>1
    <3>3. QED
      BY <1>4, <3>1, <3>2
  <2>3. CASE \E j \in DOMAIN toServer : IsTermination(toServer[j], p)
    BY <1>1, <2>3
  <2>4. QED
    BY <2>1, <2>2, <2>3 DEF Overruled
<1>6. ASSUME TerminationToCome(p), ~IsTermination(d, p)
      PROVE  TerminationToCome(p)'
  <2>1. CASE \E j \in DOMAIN inbox : IsTermination(inbox[j], p)
    <3>1. PICK j \in DOMAIN inbox : IsTermination(inbox[j], p)
      BY <2>1
    <3>2. j # 1
      BY <1>2, <1>6, <3>1
    <3>3. QED
      BY <1>4, <3>1, <3>2 DEF TerminationToCome, IsTermination
  <2>2. CASE \E j \in DOMAIN toServer : IsTermination(toServer[j], p)
    BY <1>1, <2>2 DEF TerminationToCome, IsTermination
  <2>3. QED
    BY <1>6, <2>1, <2>2 DEF TerminationToCome
<1>7. Host[p] \in ListedAddrs' => TerminationToCome(p)'
  <2>1. TypeOK /\ UniqueActive
    BY DEF Inv
  <2>2. CASE d.type = "TERMINATE"
    <3>1. ListedAddrs' \subseteq ListedAddrs /\ Host[d.src] \notin ListedAddrs'
      BY <2>1, <2>2, TerminateUnlists
    <3>2. CASE d.src = p
      BY <3>1, <3>2
    <3>3. CASE d.src # p
      BY <1>6, <3>1, <3>3 DEF Overruled, IsTermination, IsShake
    <3>4. QED
      BY <3>2, <3>3
  <2>3. CASE d.type # "TERMINATE"
    <3>1. \/ ListedAddrs' \subseteq ListedAddrs
          \/ /\ d.type = "SERVERSHAKE"
             /\ ListedAddrs' \subseteq ListedAddrs \cup {Host[d.src]}
      BY <2>1, <2>3, ServeLists
    <3>2. ~IsTermination(d, p)
      BY <2>3 DEF IsTermination
    <3>3. CASE IsShake(d, p)
      <4>1. TerminationToCome(p)
        BY <1>2, <3>3 DEF Overruled, TerminationToCome
      <4>2. QED
        BY <1>6, <3>2, <4>1
    <3>4. CASE ~IsShake(d, p)
      <4>1. d.type = "SERVERSHAKE" => Host[d.src] # Host[p]
        BY <1>3, <3>4 DEF OwnHosts, IsShake
      <4>2. QED
        BY <1>6, <3>1, <3>2, <4>1 DEF Overruled
    <3>5. QED
      BY <3>3, <3>4
  <2>4. QED
    BY <2>2, <2>3
<1>8. QED
  BY <1>1, <1>5, <1>7 DEF Overruled, IsTermination, IsShake

(* A game server of which nothing but a TERMINATE is to come sends nothing *)
(* else, and sends its first one when it comes to that state.              *)
LEMMA TerminateInvSends ==
  ASSUME SysTypeOK, NEW p \in EndPoint, NEW q \in EndPoint, GameServer(q),
         at[p] >= Len(Script) - 1 => Overruled(p),
         at'[p] >= Len(Script) - 1
  PROVE  Overruled(p)'
<1>1. UNCHANGED <<lists, inbox>> /\ Advance(q) /\ at \in [EndPoint -> Nat]
      /\ Len(Script) \in Nat
  <2>1. UNCHANGED <<lists, inbox>> /\ Advance(q)
    BY DEF GameServer, Keepalive, Shake, Terminate, Wake, vars, dataVars, network
  <2>2. at \in [EndPoint -> Nat]
    <3>1. 1..(Len(Script) + 1) \subseteq Nat
      BY ScriptTail
    <3>2. QED
      BY <3>1 DEF SysTypeOK
  <2>3. QED
    BY <2>1, <2>2, ScriptTail
<1>2. ListedAddrs' = ListedAddrs
  BY <1>1 DEF ListedAddrs
<1>3. ASSUME NEW d \in ServerDatagrams, toServer' = Append(toServer, d), d.src = q,
             p = q => d.type = "TERMINATE"
      PROVE  Overruled(p)'
  <2>1. CASE p = q
    BY <1>1, <1>2, <1>3, <2>1, OverruledSends DEF IsTermination
  <2>2. CASE p # q
    <3>1. at'[p] = at[p]
      BY <1>1, <2>2 DEF Advance
    <3>2. QED
      BY <1>1, <1>2, <1>3, <2>2, <3>1, OverruledSends
  <2>3. QED
    BY <2>1, <2>2
<1>4. ASSUME p = q PROVE Op(q) \in {"terminate", "wait"}
  <2>1. at'[p] = at[p] + 1
    BY <1>1, <1>4 DEF Advance
  <2>2. at[p] <= Len(Script)
    <3>1. Op(q) # "exit"
      BY DEF GameServer, Keepalive, Shake, Terminate, Wake, Sleeping
    <3>2. QED
      BY <1>4, <3>1 DEF Op
  <2>3. at[p] \in {Len(Script) - 2, Len(Script) - 1, Len(Script)}
    BY <1>1, <2>1, <2>2
  <2>4. QED
    BY <1>4, <2>2, <2>3, ScriptTail DEF Op
<1>5. CASE Keepalive(q)
  <2>1. [type |-> "SERVERKEEPALIVE", src |-> q, arg |-> 0] \in ServerDatagrams
    BY DEF ServerDatagrams
  <2>2. p # q
    BY <1>4, <1>5 DEF Keepalive
  <2>3. QED
    BY <1>3, <1>5, <2>1, <2>2 DEF Keepalive, Send
<1>6. CASE Shake(q)
  <2>1. PICK i \in Deliverable(toPeer[q]) : Send("SERVERSHAKE", q, toPeer[q][i])
    BY <1>6 DEF Shake
  <2>2. toPeer[q] \in Seq(HandshakeValue)
    BY DEF SysTypeOK
  <2>3. i \in 1..Len(toPeer[q])
    BY <2>1, <2>2, LenProperties DEF Deliverable
  <2>4. toPeer[q][i] \in HandshakeValue
    BY <2>2, <2>3, ElementOfSeq
  <2>5. [type |-> "SERVERSHAKE", src |-> q, arg |-> toPeer[q][i]] \in ServerDatagrams
    BY <2>4 DEF ServerDatagrams
  <2>6. p # q
    BY <1>4, <1>6 DEF Shake
  <2>7. QED
    BY <1>3, <2>1, <2>5, <2>6 DEF Send
<1>7. CASE Terminate(q)
  <2>1. [type |-> "TERMINATE", src |-> q, arg |-> 0] \in ServerDatagrams
    BY DEF ServerDatagrams
  <2>2. QED
    BY <1>3, <1>7, <2>1 DEF Terminate, Send
<1>8. CASE Wake(q)
  <2>1. UNCHANGED <<inbox, toServer>>
    BY <1>8 DEF Wake, network
  <2>2. at[p] >= Len(Script) - 1
    <3>1. CASE p = q
      <4>1. at'[p] = at[p] + 1 /\ at[p] # Len(Script) - 2
        BY <1>1, <1>8, <3>1, ScriptTail DEF Advance, Wake, Sleeping, Op
      <4>2. QED
        BY <1>1, <4>1
    <3>2. CASE p # q
      BY <1>1, <3>2 DEF Advance
    <3>3. QED
      BY <3>1, <3>2
  <2>3. QED
    BY <1>2, <2>1, <2>2 DEF Overruled, TerminationToCome, IsTermination, IsShake
<1>9. QED
  BY <1>5, <1>6, <1>7, <1>8 DEF GameServer

(* Once disturbed is so for ever. *)
LEMMA DisturbedGrows ==
  ASSUME [SysNext]_sysVars
  PROVE  disturbed \subseteq disturbed'
<1>1. CASE Deliver \/ Lose
  BY <1>1 DEF Deliver, Lose, LoseRequest, LoseAnswer, Disturb
<1>2. CASE Serve \/ Housekeep
  BY <1>2 DEF Serve, Housekeep
<1>3. CASE UNCHANGED history
  BY <1>3 DEF history
<1>4. QED
  BY <1>1, <1>2, <1>3 DEF SysNext, Alarm, Interrupt, Second, GameServer, Keepalive,
    Shake, Terminate, Wake, Fail, sysVars

(* Every step keeps the invariant, whatever the network does. *)
LEMMA TerminateInvKept ==
  ASSUME OwnHosts, SysInv, TerminateInv, [SysNext]_sysVars
  PROVE  TerminateInv'
<1> SUFFICES ASSUME NEW p \in EndPoint, at'[p] >= Len(Script) - 1, p \notin disturbed'
             PROVE  Overruled(p)'
  BY DEF TerminateInv
<1>1. Inv /\ SysTypeOK /\ (at[p] >= Len(Script) - 1 => Overruled(p))
  BY DisturbedGrows DEF SysInv, TerminateInv
<1>2. CASE \E q \in EndPoint : GameServer(q)
  BY <1>1, <1>2, TerminateInvSends
<1>3. CASE Serve
  <2>1. at' = at
    BY <1>3 DEF Serve, peers
  <2>2. QED
    BY <1>1, <1>3, <2>1, OverruledServed
<1>4. CASE Deliver \/ Lose
  <2>1. at' = at
    BY <1>4 DEF Deliver, Lose, peers
  <2>2. QED
    BY <1>1, <1>4, <2>1, OverruledDelivered, OverruledLost
<1>5. ASSUME UNCHANGED <<at, inbox, toServer>>, ListedAddrs' \subseteq ListedAddrs
      PROVE  Overruled(p)'
  <2>1. Overruled(p)
    BY <1>1, <1>5
  <2>2. QED
    BY <1>5, <2>1 DEF Overruled, TerminationToCome, IsTermination, IsShake
<1>6. CASE Housekeep
  BY <1>1, <1>5, <1>6, HousekeepListsNobody DEF Housekeep, peers, network
<1>7. CASE Alarm \/ Interrupt \/ Second
  <2>1. UNCHANGED <<lists, peers, network>>
    BY <1>7 DEF Alarm, AlarmSignal, Interrupt, InterruptSignal, Second, Tick
  <2>2. QED
    BY <1>5, <2>1 DEF ListedAddrs, peers, network
<1>8. CASE \E q \in EndPoint : Fail(q)
  BY <1>5, <1>8 DEF Fail, ListedAddrs, vars, dataVars, network
<1>9. CASE UNCHANGED sysVars
  BY <1>5, <1>9 DEF sysVars, ListedAddrs, vars, dataVars, peers, network
<1>10. QED
  BY <1>2, <1>3, <1>4, <1>6, <1>7, <1>8, <1>9 DEF SysNext

(***************************************************************************)
(* The test server's "Sending 1 server terminate msg for unlisted server"  *)
(* on any network, for any number of game servers with a host each, any    *)
(* scripts of the form and any failing calls: it is unlisted then, unless  *)
(* a TERMINATE of its own was lost or overtook one of its SHAKEs.  Of all  *)
(* that the network can do it is only this that brings a server back.      *)
(***************************************************************************)
THEOREM UnlistedAtTheEnd ==
  ASSUME OwnHosts
  PROVE  SysSafety => []UnlistedUnlessDisturbed
<1>1. SysInit => TerminateInv
  <2> SUFFICES ASSUME SysInit, NEW p \in EndPoint PROVE ~(at[p] >= Len(Script) - 1)
    BY DEF TerminateInv
  <2>1. QED
    BY ScriptTail DEF SysInit
<1>2. SysInv /\ TerminateInv /\ [SysNext]_sysVars => TerminateInv'
  BY TerminateInvKept
<1>3. SysInv /\ TerminateInv => UnlistedUnlessDisturbed
  <2> SUFFICES ASSUME SysInv, TerminateInv, NEW p \in EndPoint,
                      at[p] >= Len(Script), NothingUnderWay(p), p \notin disturbed
               PROVE  ~IsListed(p)
    BY DEF UnlistedUnlessDisturbed
  <2>1. Overruled(p) /\ TypeOK
    BY ScriptTail DEF TerminateInv, SysInv, Inv, SysTypeOK
  <2>2. ~TerminationToCome(p)
    BY DEF NothingUnderWay, TerminationToCome, IsTermination
  <2>3. QED
    BY <2>1, <2>2, ListedIsThere DEF Overruled
<1>4. QED
  BY <1>1, <1>2, <1>3, SystemInvariance, PTL DEF SysSafety

-----------------------------------------------------------------------------
(* Handshakes under way and those that are pending. *)

\* The pending entries, and the SHAKEs, that have a value in H.
WithValue(H) == {e \in Handshake : e.hs \in H}

ShakesWith(H) == {d \in ServerDatagrams : d.type = "SERVERSHAKE" /\ d.arg \in H}

\* The handshakes on their way to the game servers, as end point and place.
AtPeers(H) == {x \in EndPoint \X Nat : x[2] \in Places(toPeer[x[1]], H)}

UnderWay(H) ==
  Cardinality(AtPeers(H)) + Count(toServer, ShakesWith(H)) + Count(inbox, ShakesWith(H))

Awaited(H) == Count(Pending, WithValue(H))

Spare == repeats + voided - bogus

\* Of the handshakes and SHAKEs under way with a value in H, whatever H is,
\* all have a pending entry but for those that were repeated or whose entry
\* was reaped.  H is every set of values: a SHAKE that turns out to be bogus
\* spends the spare of its own value, which only a larger set accounts for.
Explained ==
  \A H \in SUBSET HandshakeValue :
    IsFiniteSet(AtPeers(H)) /\ UnderWay(H) <= Awaited(H) + Spare

(* All of it is counted in natural numbers. *)
LEMMA CountsTypes ==
  ASSUME TypeOK, SysTypeOK, NEW H, IsFiniteSet(AtPeers(H))
  PROVE  /\ Cardinality(AtPeers(H)) \in Nat
         /\ Count(toServer, ShakesWith(H)) \in Nat
         /\ Count(inbox, ShakesWith(H)) \in Nat
         /\ Awaited(H) \in Nat
         /\ Pending \in Seq(Handshake)
         /\ repeats \in Nat /\ voided \in Nat /\ bogus \in Nat
<1>1. Pending \in Seq(Handshake)
  BY DEF TypeOK, Pending, ListType, HandshakeList
<1>2. Awaited(H) \in Nat
  BY <1>1, CountType DEF Awaited
<1>3. Count(toServer, ShakesWith(H)) \in Nat /\ Count(inbox, ShakesWith(H)) \in Nat
  BY CountType DEF SysTypeOK
<1>4. QED
  BY <1>1, <1>2, <1>3, FS_CardinalityType DEF SysTypeOK

(* What changes for one game server changes the count by as much. *)
LEMMA AtPeersChange ==
  ASSUME SysTypeOK, NEW H, IsFiniteSet(AtPeers(H)), NEW p \in EndPoint,
         NEW s \in Seq(HandshakeValue), toPeer' = [toPeer EXCEPT ![p] = s]
  PROVE  /\ IsFiniteSet(AtPeers(H)')
         /\ Cardinality(AtPeers(H)') =
              Cardinality(AtPeers(H)) - Count(toPeer[p], H) + Count(s, H)
         /\ Count(toPeer[p], H) \in Nat /\ Count(s, H) \in Nat
<1> DEFINE Others  == {x \in AtPeers(H) : x[1] # p}
           Mine(t) == {p} \X Places(t, H)
<1>1. toPeer[p] \in Seq(HandshakeValue)
  BY DEF SysTypeOK
<1>2. ASSUME NEW t \in Seq(HandshakeValue)
      PROVE  /\ IsFiniteSet(Mine(t)) /\ Cardinality(Mine(t)) = Count(t, H)
             /\ Count(t, H) \in Nat
             /\ Others \cap Mine(t) = {}
  <2>1. IsFiniteSet(Places(t, H)) /\ Count(t, H) \in Nat
    BY CountType
  <2>2. IsFiniteSet({p}) /\ Cardinality({p}) = 1
    BY FS_Singleton
  <2>3. /\ IsFiniteSet(Mine(t))
        /\ Cardinality(Mine(t)) = Cardinality({p}) * Cardinality(Places(t, H))
    BY <2>1, <2>2, FS_Product
  <2>4. Cardinality(Mine(t)) = Count(t, H)
    BY <2>1, <2>2, <2>3 DEF Count
  <2>5. QED
    BY <2>1, <2>3, <2>4
<1>3. IsFiniteSet(Others) /\ Cardinality(Others) \in Nat
  <2>1. Others \in SUBSET AtPeers(H)
    OBVIOUS
  <2>2. QED
    BY <2>1, FS_Subset, FS_CardinalityType
<1>4. ASSUME NEW t \in Seq(HandshakeValue)
      PROVE  /\ IsFiniteSet(Others \cup Mine(t))
             /\ Cardinality(Others \cup Mine(t)) = Cardinality(Others) + Count(t, H)
  <2> HIDE DEF Others, Mine
  <2>1. /\ IsFiniteSet(Others \cup Mine(t))
        /\ Cardinality(Others \cup Mine(t)) =
             Cardinality(Others) + Cardinality(Mine(t)) - Cardinality(Others \cap Mine(t))
    BY <1>2, <1>3, FS_Union
  <2>2. Cardinality(Others \cap Mine(t)) = 0
    BY <1>2, FS_EmptySet
  <2>3. QED
    BY <1>2, <1>3, <2>1, <2>2
<1>5. \A t \in Seq(HandshakeValue) : Places(t, H) \subseteq Nat
  BY LenProperties DEF Places
<1>6. AtPeers(H) = Others \cup Mine(toPeer[p])
  BY <1>1, <1>5 DEF AtPeers
<1>7. AtPeers(H)' = Others \cup Mine(s)
  <2>1. toPeer'[p] = s /\ \A q \in EndPoint : q # p => toPeer'[q] = toPeer[q]
    BY DEF SysTypeOK
  <2>2. AtPeers(H)' = {x \in EndPoint \X Nat : x[2] \in Places(toPeer'[x[1]], H)}
    BY DEF AtPeers
  <2>3. QED
    BY <1>5, <2>1, <2>2 DEF AtPeers
<1> HIDE DEF Others, Mine
<1>8. Count(toPeer[p], H) \in Nat /\ Count(s, H) \in Nat
  BY <1>1, <1>2
<1>9. Cardinality(AtPeers(H)) = Cardinality(Others) + Count(toPeer[p], H)
  BY <1>1, <1>4, <1>6
<1>10. /\ IsFiniteSet(AtPeers(H)')
       /\ Cardinality(AtPeers(H)') = Cardinality(Others) + Count(s, H)
  BY <1>4, <1>7
<1>11. QED
  BY <1>3, <1>8, <1>9, <1>10

(* A step that takes its datagram out of a queue, or repeats it. *)
LEMMA CountRemaining ==
  ASSUME SysTypeOK, NEW S, NEW queue \in Seq(S), NEW i \in Deliverable(queue), NEW V,
         NEW r \in Remaining(queue, i)
  PROVE  /\ r[1] \in Seq(S) /\ queue[i] \in S /\ r[2] \in Nat
         /\ Count(r[1], V) \in Nat /\ Count(queue, V) \in Nat
         /\ Count(r[1], V) + repeats + (IF queue[i] \in V THEN 1 ELSE 0)
              <= Count(queue, V) + r[2]
<1> DEFINE c == IF queue[i] \in V THEN 1 ELSE 0
<1>1. i \in 1..Len(queue) /\ repeats \in Nat /\ c \in Nat /\ c <= 1
  BY LenProperties DEF Deliverable, SysTypeOK
<1>2. r[1] \in Seq(S) /\ queue[i] \in S /\ r[2] \in Nat
  BY RemainingType
<1>3. Count(r[1], V) \in Nat /\ Count(queue, V) \in Nat
  BY <1>2, CountType
<1>4. CASE r = <<RemoveAt(queue, i), repeats>>
  <2>1. Count(RemoveAt(queue, i), V) = Count(queue, V) - c
    BY <1>1, CountRemoved
  <2>2. r[1] = RemoveAt(queue, i) /\ r[2] = repeats
    BY <1>4
  <2> HIDE DEF c
  <2>3. Count(r[1], V) + repeats + c <= Count(queue, V) + r[2]
    BY <1>1, <1>3, <2>1, <2>2
  <2>4. QED
    BY <1>2, <1>3, <2>3 DEF c
<1>5. CASE r = <<queue, repeats + 1>>
  <2>1. r[1] = queue /\ r[2] = repeats + 1
    BY <1>5
  <2> HIDE DEF c
  <2>2. Count(r[1], V) + repeats + c <= Count(queue, V) + r[2]
    BY <1>1, <1>3, <2>1
  <2>3. QED
    BY <1>2, <1>3, <2>2 DEF c
<1>6. QED
  BY <1>4, <1>5 DEF Remaining

(* A datagram that a game server sends counts if it is a SHAKE. *)
LEMMA CountSent ==
  ASSUME SysTypeOK, NEW p \in EndPoint, NEW type, NEW arg, Send(type, p, arg), NEW H,
         \/ type \in {"SERVERKEEPALIVE", "TERMINATE"} /\ arg = 0
         \/ type = "SERVERSHAKE" /\ arg \in HandshakeValue
  PROVE  Count(toServer', ShakesWith(H)) =
           Count(toServer, ShakesWith(H)) + (IF type = "SERVERSHAKE" /\ arg \in H THEN 1 ELSE 0)
<1> DEFINE d == [type |-> type, src |-> p, arg |-> arg]
<1>1. d \in ServerDatagrams
  BY DEF ServerDatagrams
<1>2. d \in ShakesWith(H) <=> type = "SERVERSHAKE" /\ arg \in H
  BY <1>1 DEF ShakesWith
<1>3. toServer' = Append(toServer, d) /\ toServer \in Seq(ServerDatagrams)
  BY DEF Send, SysTypeOK
<1> HIDE DEF d
<1>4. Count(Append(toServer, d), ShakesWith(H)) =
        Count(toServer, ShakesWith(H)) + (IF d \in ShakesWith(H) THEN 1 ELSE 0)
  BY <1>1, <1>3, CountAppend
<1>5. QED
  BY <1>2, <1>3, <1>4

(* A larger set of values has no fewer places. *)
LEMMA AtPeersGrows ==
  ASSUME SysTypeOK, NEW H, NEW K, H \subseteq K, IsFiniteSet(AtPeers(K))
  PROVE  /\ IsFiniteSet(AtPeers(H))
         /\ Cardinality(AtPeers(H)) <= Cardinality(AtPeers(K))
         /\ ShakesWith(H) \subseteq ShakesWith(K)
<1>1. AtPeers(H) \in SUBSET AtPeers(K)
  BY DEF AtPeers, Places
<1>2. ShakesWith(H) \subseteq ShakesWith(K)
  BY DEF ShakesWith
<1>3. QED
  BY <1>1, <1>2, FS_Subset

-----------------------------------------------------------------------------
(* Every step keeps the handshakes under way explained. *)

(* A step that touches none of it. *)
LEMMA ExplainedSame ==
  ASSUME Explained,
         UNCHANGED <<toServer, inbox, toPeer, repeats, bogus, voided>>, Pending' = Pending
  PROVE  Explained'
BY DEF Explained, AtPeers, UnderWay, Awaited, Spare

(* A KEEPALIVE and a TERMINATE carry none, and a SHAKE is the handshake it *)
(* answers, unless that is repeated.                                       *)
LEMMA ExplainedGameServer ==
  ASSUME SysInv, Explained, NEW p \in EndPoint, GameServer(p)
  PROVE  Explained'
<1> SUFFICES ASSUME NEW H \in SUBSET HandshakeValue
             PROVE  IsFiniteSet(AtPeers(H)') /\ UnderWay(H)' <= Awaited(H)' + Spare'
  BY DEF Explained
<1>1. IsFiniteSet(AtPeers(H)) /\ UnderWay(H) <= Awaited(H) + Spare
  BY DEF Explained
<1>2. TypeOK /\ SysTypeOK
  BY DEF SysInv, Inv
<1>3. /\ Cardinality(AtPeers(H)) \in Nat
      /\ Count(toServer, ShakesWith(H)) \in Nat
      /\ Count(inbox, ShakesWith(H)) \in Nat
      /\ Awaited(H) \in Nat
      /\ repeats \in Nat /\ voided \in Nat /\ bogus \in Nat
  BY <1>1, <1>2, CountsTypes
<1>4. CASE Keepalive(p) \/ Terminate(p)
  <2>1. Send("SERVERKEEPALIVE", p, 0) \/ Send("TERMINATE", p, 0)
    BY <1>4 DEF Keepalive, Terminate
  <2>2. Count(toServer', ShakesWith(H)) = Count(toServer, ShakesWith(H)) + 0
    BY <1>2, <2>1, CountSent
  <2>3. /\ inbox' = inbox /\ toPeer' = toPeer /\ Pending' = Pending
        /\ repeats' = repeats /\ voided' = voided /\ bogus' = bogus
    BY <1>4 DEF Keepalive, Terminate, history, vars, dataVars, Pending
  <2>4. AtPeers(H)' = AtPeers(H)
    BY <2>3 DEF AtPeers
  <2>5. QED
    BY <1>1, <1>3, <2>2, <2>3, <2>4 DEF UnderWay, Awaited, Spare
<1>5. CASE Shake(p)
  <2> DEFINE queue == toPeer[p]
  <2>1. PICK i \in Deliverable(queue) : \E r \in Remaining(queue, i) :
          /\ toPeer' = [toPeer EXCEPT ![p] = r[1]] /\ repeats' = r[2]
          /\ Send("SERVERSHAKE", p, queue[i])
    BY <1>5 DEF Shake
  <2>2. PICK r \in Remaining(queue, i) :
          /\ toPeer' = [toPeer EXCEPT ![p] = r[1]] /\ repeats' = r[2]
          /\ Send("SERVERSHAKE", p, queue[i])
    BY <2>1
  <2> DEFINE c == IF queue[i] \in H THEN 1 ELSE 0
  <2>3. queue \in Seq(HandshakeValue)
    BY <1>2 DEF SysTypeOK
  <2> HIDE DEF queue
  <2>4. /\ r[1] \in Seq(HandshakeValue) /\ queue[i] \in HandshakeValue /\ r[2] \in Nat
        /\ Count(r[1], H) \in Nat /\ Count(queue, H) \in Nat
        /\ Count(r[1], H) + repeats + c <= Count(queue, H) + r[2]
    BY <1>2, <2>3, CountRemaining
  <2>5. Count(toServer', ShakesWith(H)) = Count(toServer, ShakesWith(H)) + c
    BY <1>2, <2>2, <2>4, CountSent
  <2>6. /\ IsFiniteSet(AtPeers(H)')
        /\ Cardinality(AtPeers(H)') =
             Cardinality(AtPeers(H)) - Count(queue, H) + Count(r[1], H)
    BY <1>1, <1>2, <2>2, <2>4, AtPeersChange DEF queue
  <2>7. c \in Nat
    OBVIOUS
  <2>8. inbox' = inbox /\ Pending' = Pending /\ voided' = voided /\ bogus' = bogus
    BY <1>5 DEF Shake, history, vars, dataVars, Pending
  <2> HIDE DEF c
  <2>9. /\ UnderWay(H) =
             Cardinality(AtPeers(H)) + Count(toServer, ShakesWith(H)) + Count(inbox, ShakesWith(H))
        /\ UnderWay(H)' =
             Cardinality(AtPeers(H)') + Count(toServer', ShakesWith(H)) + Count(inbox, ShakesWith(H))
        /\ Awaited(H)' = Awaited(H)
        /\ Spare = repeats + voided - bogus /\ Spare' = repeats' + voided - bogus
    BY <2>8 DEF UnderWay, Awaited, Spare
  <2>10. /\ Count(toServer', ShakesWith(H)) \in Nat /\ Cardinality(AtPeers(H)') \in Nat
         /\ repeats' \in Nat
    <3>1. Count(toServer', ShakesWith(H)) \in Nat
      BY <1>3, <2>5, <2>7
    <3>2. Cardinality(AtPeers(H)') \in Nat
      BY <2>6, FS_CardinalityType
    <3>3. QED
      BY <2>2, <2>4, <3>1, <3>2
  <2>11. /\ UnderWay(H) \in Int /\ UnderWay(H)' \in Int
         /\ Spare \in Int /\ Spare' = Spare + repeats' - repeats
    BY <1>3, <2>9, <2>10
  <2>12. Cardinality(AtPeers(H)') + repeats + c <= Cardinality(AtPeers(H)) + repeats'
    <3> DEFINE before == Count(queue, H)
               after  == Count(r[1], H)
               first  == repeats
               latest == repeats'
               old    == Cardinality(AtPeers(H))
               new    == Cardinality(AtPeers(H)')
    <3>1. after + first + c <= before + latest
      BY <2>2, <2>4
    <3>2. new = old - before + after
      BY <2>6
    <3>3. /\ before \in Nat /\ after \in Nat /\ first \in Nat /\ latest \in Nat
          /\ old \in Nat /\ new \in Nat /\ c \in Nat
      BY <1>3, <2>4, <2>7, <2>10
    <3> HIDE DEF before, after, first, latest, old, new
    <3>4. new + first + c <= old + latest
      BY <3>1, <3>2, <3>3
    <3>5. QED
      BY <3>4 DEF first, latest, old, new
  <2>13. UnderWay(H)' <= UnderWay(H) + repeats' - repeats
    BY <1>3, <2>5, <2>7, <2>9, <2>10, <2>12
  <2>14. UnderWay(H)' <= Awaited(H)' + Spare'
    BY <1>1, <1>3, <2>9, <2>10, <2>11, <2>13
  <2>15. QED
    BY <2>6, <2>14
<1>6. CASE Wake(p)
  <2>1. /\ UNCHANGED <<toServer, inbox, toPeer, repeats, bogus, voided>>
        /\ Pending' = Pending
    BY <1>6 DEF Wake, network, history, vars, dataVars, Pending
  <2>2. Explained'
    BY <2>1, ExplainedSame
  <2>3. QED
    BY <2>2 DEF Explained
<1>7. QED
  BY <1>4, <1>5, <1>6 DEF GameServer

(* A datagram that is delivered is still under way, and one that is lost   *)
(* is not.                                                                 *)
LEMMA ExplainedNetwork ==
  ASSUME SysInv, Explained, Deliver \/ Lose
  PROVE  Explained'
<1> SUFFICES ASSUME NEW H \in SUBSET HandshakeValue
             PROVE  IsFiniteSet(AtPeers(H)') /\ UnderWay(H)' <= Awaited(H)' + Spare'
  BY DEF Explained
<1> DEFINE V == ShakesWith(H)
<1>1. IsFiniteSet(AtPeers(H)) /\ UnderWay(H) <= Awaited(H) + Spare
  BY DEF Explained
<1>2. TypeOK /\ SysTypeOK
  BY DEF SysInv, Inv
<1>3. /\ Cardinality(AtPeers(H)) \in Nat
      /\ Count(toServer, V) \in Nat /\ Count(inbox, V) \in Nat
      /\ Awaited(H) \in Nat
      /\ repeats \in Nat /\ voided \in Nat /\ bogus \in Nat
  BY <1>1, <1>2, CountsTypes
<1>4. toServer \in Seq(ServerDatagrams) /\ inbox \in Seq(ServerDatagrams)
  BY <1>2 DEF SysTypeOK
<1>5. Pending' = Pending /\ voided' = voided /\ bogus' = bogus
  BY DEF Deliver, DatagramArrives, Lose, vars, dataVars, history, Pending
<1>6. CASE Deliver
  <2>1. PICK i \in Deliverable(toServer) : \E r \in Remaining(toServer, i) :
          /\ toServer' = r[1] /\ repeats' = r[2]
          /\ inbox' = Append(inbox, toServer[i])
    BY <1>6 DEF Deliver
  <2>2. PICK r \in Remaining(toServer, i) :
          /\ toServer' = r[1] /\ repeats' = r[2]
          /\ inbox' = Append(inbox, toServer[i])
    BY <2>1
  <2> DEFINE c == IF toServer[i] \in V THEN 1 ELSE 0
  <2> HIDE DEF V
  <2>3. /\ toServer[i] \in ServerDatagrams /\ r[2] \in Nat
        /\ Count(r[1], V) \in Nat
        /\ Count(r[1], V) + repeats + c <= Count(toServer, V) + r[2]
    BY <1>2, <1>4, CountRemaining
  <2>4. Count(inbox', V) = Count(inbox, V) + c
    BY <1>4, <2>2, <2>3, CountAppend
  <2>5. toPeer' = toPeer
    BY <1>6 DEF Deliver
  <2>6. AtPeers(H)' = AtPeers(H)
    BY <2>5 DEF AtPeers
  <2>7. c \in Nat
    OBVIOUS
  <2> DEFINE here == Cardinality(AtPeers(H))
             sent == Count(toServer, V)
             left == Count(toServer', V)
             come == Count(inbox, V)
             next == Count(inbox', V)
             copies == repeats'
  <2> HIDE DEF c
  <2>8. here + left + next <= here + sent + come + copies - repeats
    <3>1. /\ here \in Nat /\ sent \in Nat /\ come \in Nat /\ repeats \in Nat
          /\ left \in Nat /\ copies \in Nat
      BY <1>3, <2>2, <2>3
    <3>2. left + repeats + c <= sent + copies
      BY <2>2, <2>3
    <3>3. next = come + c
      BY <2>4
    <3> HIDE DEF here, sent, left, come, next, copies
    <3>4. QED
      BY <2>7, <3>1, <3>2, <3>3
  <2>9. /\ UnderWay(H) = Cardinality(AtPeers(H)) + Count(toServer, V) + Count(inbox, V)
        /\ UnderWay(H)' = Cardinality(AtPeers(H)) + Count(toServer', V) + Count(inbox', V)
        /\ Awaited(H)' = Awaited(H)
        /\ Spare = repeats + voided - bogus /\ Spare' = repeats' + voided - bogus
    BY <1>5, <2>6 DEF UnderWay, Awaited, Spare, V
  <2>10. Count(toServer', V) \in Nat /\ Count(inbox', V) \in Nat /\ repeats' \in Nat
    BY <1>3, <2>2, <2>3, <2>4, <2>7
  <2>11. /\ UnderWay(H) \in Int /\ UnderWay(H)' \in Int
         /\ Spare \in Int /\ Spare' = Spare + repeats' - repeats
    BY <1>3, <2>9, <2>10
  <2>12. UnderWay(H)' <= UnderWay(H) + repeats' - repeats
    BY <1>3, <2>8, <2>9, <2>10
  <2>13. UnderWay(H)' <= Awaited(H)' + Spare'
    BY <1>1, <1>3, <2>9, <2>10, <2>11, <2>12
  <2>14. QED
    BY <1>1, <2>6, <2>13
<1>7. CASE Lose
  <2>1. inbox' = inbox /\ repeats' = repeats
    BY <1>7 DEF Lose
  <2>2. CASE \E i \in DOMAIN toServer : LoseRequest(i)
    <3>1. PICK i \in DOMAIN toServer : LoseRequest(i)
      BY <2>2
    <3>2. toServer' = RemoveAt(toServer, i) /\ toPeer' = toPeer
      BY <3>1 DEF LoseRequest
    <3>3. i \in 1..Len(toServer)
      BY <1>4, LenProperties
    <3> HIDE DEF V
    <3>4. Count(toServer', V) \in Nat /\ Count(toServer', V) <= Count(toServer, V)
      BY <1>3, <1>4, <3>2, <3>3, CountRemoved
    <3>5. AtPeers(H)' = AtPeers(H)
      BY <3>2 DEF AtPeers
    <3>6. QED
      BY <1>1, <1>3, <1>5, <2>1, <3>4, <3>5 DEF UnderWay, Awaited, Spare, V
  <2>3. CASE \E p \in EndPoint : \E i \in DOMAIN toPeer[p] : LoseAnswer(p, i)
    <3>1. PICK p \in EndPoint : \E i \in DOMAIN toPeer[p] : LoseAnswer(p, i)
      BY <2>3
    <3>2. PICK i \in DOMAIN toPeer[p] : LoseAnswer(p, i)
      BY <3>1
    <3>3. toPeer[p] \in Seq(HandshakeValue) /\ i \in 1..Len(toPeer[p])
      BY <1>2, LenProperties DEF SysTypeOK
    <3>4. /\ RemoveAt(toPeer[p], i) \in Seq(HandshakeValue)
          /\ Count(toPeer[p], H) \in Nat /\ Count(RemoveAt(toPeer[p], i), H) \in Nat
          /\ Count(RemoveAt(toPeer[p], i), H) <= Count(toPeer[p], H)
      BY <3>3, CountRemoved
    <3>5. /\ toPeer' = [toPeer EXCEPT ![p] = RemoveAt(toPeer[p], i)]
          /\ toServer' = toServer
      BY <3>2 DEF LoseAnswer
    <3>6. /\ IsFiniteSet(AtPeers(H)')
          /\ Cardinality(AtPeers(H)') =
               Cardinality(AtPeers(H)) - Count(toPeer[p], H) + Count(RemoveAt(toPeer[p], i), H)
      BY <1>1, <1>2, <3>4, <3>5, AtPeersChange
    <3>7. QED
      BY <1>1, <1>3, <1>5, <2>1, <3>4, <3>5, <3>6 DEF UnderWay, Awaited, Spare
  <2>4. QED
    BY <1>7, <2>2, <2>3 DEF Lose
<1>8. QED
  BY <1>6, <1>7

(* A datagram that is served is no longer under way. *)
LEMMA ServeTakes ==
  ASSUME SysTypeOK, Serve, NEW H
  PROVE  /\ Count(inbox, ShakesWith(H)) \in Nat /\ Count(inbox', ShakesWith(H)) \in Nat
         /\ Count(inbox', ShakesWith(H)) = Count(inbox, ShakesWith(H)) -
              (IF Head(inbox).type = "SERVERSHAKE" /\ Head(inbox).arg \in H THEN 1 ELSE 0)
<1>1. /\ inbox \in Seq(ServerDatagrams) /\ inbox # <<>> /\ inbox' = Tail(inbox)
      /\ Head(inbox) \in ServerDatagrams
  BY ServeReceives DEF SysTypeOK, Serve
<1>2. Head(inbox) \in ShakesWith(H) <=>
        Head(inbox).type = "SERVERSHAKE" /\ Head(inbox).arg \in H
  BY <1>1 DEF ShakesWith
<1>3. /\ Count(inbox, ShakesWith(H)) \in Nat /\ Count(Tail(inbox), ShakesWith(H)) \in Nat
      /\ Count(Tail(inbox), ShakesWith(H)) =
           Count(inbox, ShakesWith(H)) - (IF Head(inbox) \in ShakesWith(H) THEN 1 ELSE 0)
  BY <1>1, CountTail
<1>4. QED
  BY <1>1, <1>2, <1>3

(* A KEEPALIVE puts the handshake that is sent back on the pending list.   *)
(* (Nothing here rests on NoReply being none of the answers.)              *)
LEMMA ServeIssues ==
  ASSUME TypeOK, SysTypeOK, Serve, Head(inbox).type = "SERVERKEEPALIVE"
  PROVE  /\ lists'["SERVER_LIST"] = lists["SERVER_LIST"]
         /\ \E h \in HandshakeValue :
              /\ Pending' = Append(Pending, Entry(Host[Head(inbox).src], h, now))
              /\ Entry(Host[Head(inbox).src], h, now) \in Handshake
              /\ \/ toPeer' = toPeer
                 \/ toPeer' = [toPeer EXCEPT ![Head(inbox).src] = Append(@, h)]
<1> DEFINE d == Head(inbox)
<1>1. d \in ServerDatagrams /\ Receive(d)
  BY ServeReceives
<1>2. d.src \in EndPoint
  BY <1>1 DEF ServerDatagrams
<1>3. toPeer' = IF out' = NoReply THEN toPeer
                ELSE [toPeer EXCEPT ![out'.dst] = Append(@, out'.hs)]
  BY DEF Serve
<1> HIDE DEF d
<1>4. IssueHandshake("SERVER_HANDSHAKE_LIST", d)
  BY <1>1 DEF d, Receive, HandleServerKeepalive, HandleClientKeepalive,
    HandleServerShake, HandleClientShake, HandleTerminate, HandleListRequest, Ignore
<1>5. PICK h \in HandshakeValue :
        /\ lists' = [lists EXCEPT !["SERVER_HANDSHAKE_LIST"] =
                       Append(@, Entry(SenderAddr(d), h, now))]
        /\ out' = [type |-> "HANDSHAKE", dst |-> d.src, hs |-> h]
  BY <1>4 DEF IssueHandshake
<1>6. /\ lists \in [ListType -> Seq(Handshake)]
      /\ "SERVER_HANDSHAKE_LIST" \in ListType /\ "SERVER_LIST" \in ListType
  BY DEF TypeOK, ListType, HandshakeList, ActiveList
<1>7. lists'["SERVER_LIST"] = lists["SERVER_LIST"]
  BY <1>5, <1>6
<1>8. /\ Pending' = Append(Pending, Entry(Host[d.src], h, now))
      /\ Entry(Host[d.src], h, now) \in Handshake
  BY <1>2, <1>5, <1>6, MetaserverAssumption
     DEF TypeOK, Pending, SenderAddr, Entry, Handshake
<1>9. \/ toPeer' = toPeer
      \/ toPeer' = [toPeer EXCEPT ![d.src] = Append(@, h)]
  BY <1>3, <1>5
<1>10. QED
  BY <1>7, <1>8, <1>9 DEF d

(* A TERMINATE puts nothing there. *)
LEMMA ServeAnswers ==
  ASSUME TypeOK, SysTypeOK, Serve, Head(inbox).type # "SERVERSHAKE",
         NEW H, IsFiniteSet(AtPeers(H))
  PROVE  /\ IsFiniteSet(AtPeers(H)') /\ Awaited(H)' \in Nat
         /\ Cardinality(AtPeers(H)') + Awaited(H) <= Cardinality(AtPeers(H)) + Awaited(H)'
<1> DEFINE d == Head(inbox)
<1>1. d \in ServerDatagrams /\ Receive(d)
  BY ServeReceives
<1>2. d.src \in EndPoint /\ d.type \in {"SERVERKEEPALIVE", "TERMINATE"}
  BY <1>1 DEF ServerDatagrams
<1>3. Cardinality(AtPeers(H)) \in Nat /\ Awaited(H) \in Nat /\ Pending \in Seq(Handshake)
  BY CountsTypes
<1> HIDE DEF d
<1>4. CASE d.type = "SERVERKEEPALIVE"
  <2> DEFINE a == Host[d.src]
  <2>1. \E h \in HandshakeValue :
          /\ Pending' = Append(Pending, Entry(a, h, now))
          /\ Entry(a, h, now) \in Handshake
          /\ toPeer' = toPeer \/ toPeer' = [toPeer EXCEPT ![d.src] = Append(@, h)]
    BY <1>4, ServeIssues DEF d
  <2>2. PICK h \in HandshakeValue :
          /\ Pending' = Append(Pending, Entry(a, h, now))
          /\ Entry(a, h, now) \in Handshake
          /\ toPeer' = toPeer \/ toPeer' = [toPeer EXCEPT ![d.src] = Append(@, h)]
    BY <2>1
  <2> DEFINE e == Entry(a, h, now)
             c == IF h \in H THEN 1 ELSE 0
  <2>3. e \in Handshake /\ (e \in WithValue(H) <=> h \in H)
    BY <2>2 DEF Entry, WithValue
  <2> HIDE DEF a
  <2>4. Pending' = Append(Pending, e)
    BY <2>2
  <2> HIDE DEF e
  <2>5. Count(Append(Pending, e), WithValue(H)) = Count(Pending, WithValue(H)) + c
    <3>1. Count(Append(Pending, e), WithValue(H)) =
            Count(Pending, WithValue(H)) + (IF e \in WithValue(H) THEN 1 ELSE 0)
      BY <1>3, <2>3, CountAppend
    <3>2. QED
      BY <2>3, <3>1
  <2>6. Awaited(H)' = Awaited(H) + c
    BY <2>4, <2>5 DEF Awaited
  <2>7. c \in Nat
    OBVIOUS
  <2>8. CASE toPeer' = toPeer
    <3>2. AtPeers(H)' = AtPeers(H)
      BY <2>8 DEF AtPeers
    <3> HIDE DEF c
    <3>3. QED
      BY <1>3, <2>6, <2>7, <3>2
  <2>9. CASE toPeer' = [toPeer EXCEPT ![d.src] = Append(@, h)]
    <3> DEFINE s == toPeer[d.src]
    <3>1. s \in Seq(HandshakeValue) /\ Append(s, h) \in Seq(HandshakeValue)
      BY <1>2, AppendElements DEF SysTypeOK
    <3>2. toPeer' = [toPeer EXCEPT ![d.src] = Append(s, h)]
      BY <2>9
    <3> HIDE DEF s
    <3>3. Count(Append(s, h), H) = Count(s, H) + c
      BY <3>1, CountAppend
    <3>4. /\ IsFiniteSet(AtPeers(H)')
          /\ Cardinality(AtPeers(H)') =
               Cardinality(AtPeers(H)) - Count(s, H) + Count(Append(s, h), H)
          /\ Count(s, H) \in Nat
      BY <1>2, <3>1, <3>2, AtPeersChange DEF s
    <3> HIDE DEF c
    <3>5. Cardinality(AtPeers(H)') = Cardinality(AtPeers(H)) + c
      BY <1>3, <2>7, <3>3, <3>4
    <3>6. QED
      BY <1>3, <2>6, <2>7, <3>4, <3>5
  <2>10. QED
    BY <2>2, <2>8, <2>9
<1>5. CASE d.type = "TERMINATE"
  <2>1. HandleTerminate(d)
    BY <1>1, <1>5 DEF Receive, HandleServerKeepalive, HandleClientKeepalive,
      HandleServerShake, HandleClientShake, HandleListRequest, Ignore
  <2>2. toPeer' = toPeer
    BY <2>1 DEF Serve, HandleTerminate
  <2>3. Pending' = Pending
    <3>1. \/ lists' = lists
          \/ \E i \in FindByAddr(lists["SERVER_LIST"], SenderAddr(d)) :
               lists' = [lists EXCEPT !["SERVER_LIST"] = RemoveAt(@, i)]
      BY <2>1 DEF HandleTerminate
    <3>2. lists \in [ListType -> Seq(Handshake)] /\ "SERVER_HANDSHAKE_LIST" \in ListType
      BY DEF TypeOK, ListType, HandshakeList
    <3>3. QED
      BY <3>1, <3>2 DEF Pending
  <2>4. AtPeers(H)' = AtPeers(H) /\ Awaited(H)' = Awaited(H)
    BY <2>2, <2>3 DEF AtPeers, Awaited
  <2>5. QED
    BY <1>3, <2>4
<1>6. QED
  BY <1>2, <1>4, <1>5

(* A SHAKE takes the first pending handshake with its value, if any. *)
LEMMA ServeShakes ==
  ASSUME TypeOK, SysTypeOK, Serve, Head(inbox).type = "SERVERSHAKE"
  PROVE  /\ toPeer' = toPeer
         /\ \/ /\ Pending' = Pending /\ bogus' = bogus + 1
               /\ \A i \in DOMAIN Pending : Pending[i].hs # Head(inbox).arg
            \/ /\ bogus' = bogus
               /\ \E i \in 1..Len(Pending) :
                    /\ Pending[i].hs = Head(inbox).arg
                    /\ \A j \in 1..(i - 1) : Pending[j].hs # Head(inbox).arg
                    /\ Pending' = RemoveAt(Pending, i)
<1> DEFINE d == Head(inbox)
<1>1. Receive(d) /\ d.type = "SERVERSHAKE"
  BY ServeReceives
<1>2. bogus' = IF FindByHS(Pending, d.arg) = {} THEN bogus + 1 ELSE bogus
  BY DEF Serve
<1>3. toPeer' = IF out' = NoReply THEN toPeer
                ELSE [toPeer EXCEPT ![out'.dst] = Append(@, out'.hs)]
  BY DEF Serve
<1>4. /\ lists \in [ListType -> Seq(Handshake)] /\ Pending \in Seq(Handshake)
      /\ "SERVER_HANDSHAKE_LIST" \in ListType /\ "SERVER_LIST" \in ListType
  BY DEF TypeOK, ListType, HandshakeList, ActiveList, Pending
<1> HIDE DEF d
<1>5. HandleServerShake(d)
  BY <1>1 DEF Receive, HandleServerKeepalive, HandleClientKeepalive,
    HandleClientShake, HandleTerminate, HandleListRequest, Ignore
<1>6. toPeer' = toPeer
  BY <1>3, <1>5 DEF HandleServerShake
<1>7. CASE BogusShake("SERVER_HANDSHAKE_LIST", d)
  <2>1. FindByHS(Pending, d.arg) = {} /\ Pending' = Pending
    BY <1>7 DEF BogusShake, Pending
  <2>2. ASSUME NEW k \in DOMAIN Pending, Pending[k].hs = d.arg PROVE FALSE
    <3> DEFINE T == {i \in 1..Len(Pending) : Pending[i].hs = d.arg}
    <3>1. DOMAIN Pending = 1..Len(Pending) /\ Len(Pending) \in Nat
      BY <1>4, LenProperties
    <3>2. T \in SUBSET Nat /\ k \in T
      BY <2>2, <3>1
    <3>3. PICK i \in T : \A j \in T : i <= j
      <4> HIDE DEF T
      <4>1. QED
        BY <3>2, FirstExists
    <3>4. i \in FindByHS(Pending, d.arg)
      BY <3>1, <3>3 DEF FindByHS
    <3>5. QED
      BY <2>1, <3>4
  <2>3. QED
    BY <1>2, <1>6, <2>1, <2>2 DEF d
<1>8. CASE \/ RenewActive("SERVER_HANDSHAKE_LIST", "SERVER_LIST", d)
           \/ EnlistActive("SERVER_HANDSHAKE_LIST", "SERVER_LIST", d)
  <2>1. PICK i \in FindByHS(Pending, d.arg) : Pending' = RemoveAt(Pending, i)
    <3>1. CASE RenewActive("SERVER_HANDSHAKE_LIST", "SERVER_LIST", d)
      BY <1>4, <3>1 DEF RenewActive, Pending
    <3>2. CASE EnlistActive("SERVER_HANDSHAKE_LIST", "SERVER_LIST", d)
      BY <1>4, <3>2 DEF EnlistActive, Pending
    <3>3. QED
      BY <1>8, <3>1, <3>2
  <2>2. /\ i \in 1..Len(Pending) /\ Pending[i].hs = d.arg
        /\ \A j \in 1..(i - 1) : Pending[j].hs # d.arg
    BY <2>1 DEF FindByHS
  <2>3. bogus' = bogus
    BY <1>2, <2>1
  <2>4. QED
    BY <1>6, <2>1, <2>2, <2>3 DEF d
<1>9. QED
  BY <1>5, <1>7, <1>8 DEF HandleServerShake

(* A SHAKE that is bogus spends what is spare of its own value; any other  *)
(* takes its pending handshake along.                                      *)
LEMMA ExplainedServe ==
  ASSUME SysInv, Explained, Serve
  PROVE  Explained'
<1> SUFFICES ASSUME NEW H \in SUBSET HandshakeValue
             PROVE  IsFiniteSet(AtPeers(H)') /\ UnderWay(H)' <= Awaited(H)' + Spare'
  BY DEF Explained
<1>1. TypeOK /\ SysTypeOK
  BY DEF SysInv, Inv
<1>2. IsFiniteSet(AtPeers(H)) /\ UnderWay(H) <= Awaited(H) + Spare
  BY DEF Explained
<1> DEFINE sent == Count(toServer, ShakesWith(H))
           come == Count(inbox, ShakesWith(H))
           left == Count(inbox', ShakesWith(H))
           old  == Cardinality(AtPeers(H))
           new  == Cardinality(AtPeers(H)')
           here == Awaited(H)
           next == Awaited(H)'
<1>3. /\ sent \in Nat /\ come \in Nat /\ left \in Nat /\ old \in Nat /\ here \in Nat
      /\ repeats \in Nat /\ voided \in Nat /\ bogus \in Nat
  BY <1>1, <1>2, CountsTypes, ServeTakes
<1>4. /\ UnderWay(H) = old + sent + come /\ UnderWay(H)' = new + sent + left
      /\ Spare = repeats + voided - bogus /\ Spare' = repeats + voided - bogus'
  BY DEF Serve, UnderWay, Spare
<1>5. CASE Head(inbox).type # "SERVERSHAKE"
  <2>1. IsFiniteSet(AtPeers(H)') /\ next \in Nat /\ new + here <= old + next
    BY <1>1, <1>2, <1>5, ServeAnswers
  <2>2. new \in Nat
    BY <2>1, FS_CardinalityType
  <2>3. left = come - 0
    BY <1>1, <1>5, ServeTakes
  <2>4. bogus' = bogus
    BY <1>5 DEF Serve
  <2> HIDE DEF sent, come, left, old, new, here, next
  <2>5. new + sent + left <= next + (repeats + voided - bogus')
    <3>1. old + sent + come <= here + (repeats + voided - bogus)
      BY <1>2, <1>4 DEF here
    <3>2. QED
      BY <1>3, <2>1, <2>2, <2>3, <2>4, <3>1
  <2>6. QED
    BY <1>4, <2>1, <2>5 DEF next
<1>6. CASE Head(inbox).type = "SERVERSHAKE"
  <2> DEFINE arg == Head(inbox).arg
             c == IF arg \in H THEN 1 ELSE 0
  <2>1. arg \in HandshakeValue
    BY <1>1, <1>6, ServeReceives DEF ServerDatagrams
  <2>2. left = come - c
    BY <1>1, <1>6, ServeTakes
  <2>3. toPeer' = toPeer
    BY <1>1, <1>6, ServeShakes
  <2>4. AtPeers(H)' = AtPeers(H)
    BY <2>3 DEF AtPeers
  <2>5. Pending \in Seq(Handshake)
    BY <1>1, <1>2, CountsTypes
  <2> HIDE DEF arg
  <2>6. CASE /\ Pending' = Pending /\ bogus' = bogus + 1
             /\ \A i \in DOMAIN Pending : Pending[i].hs # arg
    <3> DEFINE K == H \cup {arg}
               sentK == Count(toServer, ShakesWith(K))
               comeK == Count(inbox, ShakesWith(K))
               leftK == Count(inbox', ShakesWith(K))
               oldK  == Cardinality(AtPeers(K))
    <3>1. K \in SUBSET HandshakeValue /\ H \subseteq K /\ arg \in K
      BY <2>1
    <3> HIDE DEF K
    <3>2. IsFiniteSet(AtPeers(K)) /\ UnderWay(K) <= Awaited(K) + Spare
      BY <3>1 DEF Explained
    <3>3. UnderWay(K) = oldK + sentK + comeK
      BY DEF UnderWay
    <3>4. sentK \in Nat /\ comeK \in Nat /\ leftK \in Nat /\ oldK \in Nat
      BY <1>1, <3>2, CountsTypes, ServeTakes
    <3>5. leftK = comeK - 1
      BY <1>1, <1>6, <3>1, ServeTakes DEF arg
    <3>6. old <= oldK /\ ShakesWith(H) \subseteq ShakesWith(K)
      BY <1>1, <3>1, <3>2, AtPeersGrows
    <3>7. sent <= sentK /\ left <= leftK
      <4>1. toServer \in Seq(ServerDatagrams) /\ inbox' \in Seq(ServerDatagrams)
        BY <1>1, HeadTailProperties DEF SysTypeOK, Serve
      <4>2. QED
        BY <3>6, <4>1, CountGrows
    <3>8. Awaited(K) = here /\ next = here
      <4>1. Places(Pending, WithValue(K)) = Places(Pending, WithValue(H))
        BY <2>6 DEF Places, WithValue, K
      <4>2. QED
        BY <2>6, <4>1 DEF Awaited, Count
    <3>9. new = old
      BY <2>4
    <3>10. oldK + sentK + comeK <= here + (repeats + voided - bogus)
      BY <1>4, <3>2, <3>3, <3>8
    <3> HIDE DEF sent, come, left, old, new, here, next, sentK, comeK, leftK, oldK
    <3>11. new + sent + left <= next + (repeats + voided - bogus')
      BY <1>3, <2>6, <3>4, <3>5, <3>6, <3>7, <3>8, <3>9, <3>10
    <3>12. QED
      BY <1>2, <1>4, <2>4, <3>11 DEF next
  <2>7. CASE /\ bogus' = bogus
             /\ \E i \in 1..Len(Pending) :
                  Pending[i].hs = arg /\ Pending' = RemoveAt(Pending, i)
    <3>1. PICK i \in 1..Len(Pending) :
            Pending[i].hs = arg /\ Pending' = RemoveAt(Pending, i)
      BY <2>7
    <3>2. Pending[i] \in WithValue(H) <=> arg \in H
      BY <2>5, <3>1, ElementOfSeq DEF WithValue
    <3>3. next = here - c
      <4>1. Count(RemoveAt(Pending, i), WithValue(H)) =
              Count(Pending, WithValue(H)) - (IF Pending[i] \in WithValue(H) THEN 1 ELSE 0)
        BY <2>5, CountRemoved
      <4>2. QED
        BY <3>1, <3>2, <4>1 DEF Awaited
    <3>4. new = old /\ c \in Nat
      BY <2>4
    <3>5. old + sent + come <= here + (repeats + voided - bogus)
      BY <1>2, <1>4
    <3> HIDE DEF sent, come, left, old, new, here, next, c
    <3>6. new + sent + left <= next + (repeats + voided - bogus)
      BY <1>3, <2>2, <3>3, <3>4, <3>5
    <3>7. QED
      BY <1>2, <1>4, <2>4, <2>7, <3>6 DEF next
  <2>8. QED
    BY <1>1, <1>6, <2>6, <2>7, ServeShakes DEF arg
<1>7. QED
  BY <1>5, <1>6

(* What a sweep takes off the pending list is spare from then on. *)
LEMMA ExplainedHousekeep ==
  ASSUME SysInv, Explained, Housekeep
  PROVE  Explained'
<1>1. Inv /\ TypeOK /\ SysTypeOK
  BY DEF SysInv, Inv
<1>2. UNCHANGED <<toServer, inbox, toPeer, repeats, bogus>>
  BY DEF Housekeep, network
<1>3. Pending \in Seq(Handshake) /\ Len(Pending) \in Nat
  BY <1>1, HousekeepPending, LenProperties
<1>4. voided' = voided + Len(Pending) - Len(Pending') /\ voided \in Nat
  BY <1>1 DEF Housekeep, SysTypeOK
<1>5. CASE Pending' = Pending
  <2>1. voided' = voided
    BY <1>3, <1>4, <1>5
  <2>2. QED
    BY <1>2, <1>5, <2>1, ExplainedSame
<1>6. CASE \E i \in 1..Len(Pending) : Pending' = RemoveAt(Pending, i)
  <2> SUFFICES ASSUME NEW H \in SUBSET HandshakeValue
               PROVE  IsFiniteSet(AtPeers(H)') /\ UnderWay(H)' <= Awaited(H)' + Spare'
    BY DEF Explained
  <2>1. PICK i \in 1..Len(Pending) : Pending' = RemoveAt(Pending, i)
    BY <1>6
  <2>2. Len(Pending') = Len(Pending) - 1
    BY <1>3, <2>1, RemoveAtElements
  <2>3. voided' = voided + 1
    BY <1>3, <1>4, <2>2
  <2> DEFINE c == IF Pending[i] \in WithValue(H) THEN 1 ELSE 0
             here == Awaited(H)
             next == Awaited(H)'
             way  == UnderWay(H)
  <2>4. next = here - c
    BY <1>3, <2>1, CountRemoved DEF Awaited
  <2>5. IsFiniteSet(AtPeers(H)) /\ way <= here + (repeats + voided - bogus)
    BY DEF Explained, Spare
  <2>6. AtPeers(H)' = AtPeers(H)
    BY <1>2 DEF AtPeers
  <2>7. UnderWay(H)' = way
    BY <1>2, <2>6 DEF UnderWay
  <2>8. here \in Nat /\ way \in Nat /\ repeats \in Nat /\ voided \in Nat /\ bogus \in Nat /\ c \in {0, 1}
    BY <1>1, <2>5, CountsTypes DEF UnderWay
  <2> HIDE DEF c, here, next, way
  <2>9. way <= next + (repeats + voided' - bogus)
    BY <2>3, <2>4, <2>5, <2>8
  <2>10. QED
    BY <1>2, <2>5, <2>6, <2>7, <2>9 DEF Spare, next
<1>7. QED
  BY <1>1, <1>5, <1>6, HousekeepPending

(* No other step touches any of it. *)
LEMMA ExplainedKept == SysInv /\ Explained /\ [SysNext]_sysVars => Explained'
<1> SUFFICES ASSUME SysInv, Explained, [SysNext]_sysVars PROVE Explained'
  OBVIOUS
<1>1. CASE Serve
  BY <1>1, ExplainedServe
<1>2. CASE Housekeep
  BY <1>2, ExplainedHousekeep
<1>3. CASE Deliver \/ Lose
  BY <1>3, ExplainedNetwork
<1>4. CASE \E p \in EndPoint : GameServer(p)
  BY <1>4, ExplainedGameServer
<1>5. CASE Alarm \/ Interrupt \/ Second
  BY <1>5, ExplainedSame DEF Alarm, Interrupt, Second, AlarmSignal, InterruptSignal, Tick,
    network, history, Pending
<1>6. CASE \E p \in EndPoint : Fail(p)
  BY <1>6, ExplainedSame DEF Fail, vars, dataVars, network, history, Pending
<1>7. CASE UNCHANGED sysVars
  BY <1>7, ExplainedSame DEF sysVars, vars, dataVars, network, history, Pending
<1>8. QED
  BY <1>1, <1>2, <1>3, <1>4, <1>5, <1>6, <1>7 DEF SysNext

(* Nothing is under way at the start. *)
LEMMA ExplainedInit == SysInit => Explained
<1> SUFFICES ASSUME SysInit, NEW H \in SUBSET HandshakeValue
             PROVE  IsFiniteSet(AtPeers(H)) /\ UnderWay(H) <= Awaited(H) + Spare
  BY DEF Explained
<1>1. AtPeers(H) = {} /\ Places(toServer, ShakesWith(H)) = {} /\ Places(inbox, ShakesWith(H)) = {}
  BY DEF SysInit, AtPeers, Places
<1>2. Places(Pending, WithValue(H)) = {}
  BY DEF SysInit, Init, Pending, Places, ListType, HandshakeList
<1>3. IsFiniteSet({}) /\ Cardinality({}) = 0
  BY FS_EmptySet
<1>4. UnderWay(H) = 0 + 0 + 0 /\ Awaited(H) = 0
  BY <1>1, <1>2, <1>3 DEF UnderWay, Awaited, Count
<1>5. Spare = 0 + 0 - 0
  BY DEF SysInit, Spare
<1>6. QED
  BY <1>1, <1>3, <1>4, <1>5

(***************************************************************************)
(* The metaserver never warns of a bogus SHAKE without a reason, for any   *)
(* number of game servers and any network: each one is accounted for by a  *)
(* datagram that was repeated or a pending handshake that was reaped, even *)
(* when the random values of several servers coincide and they use up each *)
(* other's.                                                                *)
(***************************************************************************)
THEOREM BogusShakesHaveAReason == SysSafety => []BogusExplained
<1>1. SysInv /\ Explained => BogusExplained
  <2> SUFFICES ASSUME SysInv, Explained PROVE BogusExplained
    OBVIOUS
  <2>1. TypeOK /\ SysTypeOK
    BY DEF SysInv, Inv
  <2>2. IsFiniteSet(AtPeers({})) /\ UnderWay({}) <= Awaited({}) + Spare
    BY DEF Explained
  <2>3. Places(Pending, WithValue({})) = {}
    BY DEF Places, WithValue
  <2>4. Awaited({}) = 0
    BY <2>3, FS_EmptySet DEF Awaited, Count
  <2>5. UnderWay({}) \in Nat /\ repeats \in Nat /\ voided \in Nat /\ bogus \in Nat
    BY <2>1, <2>2, CountsTypes DEF UnderWay
  <2>6. QED
    BY <2>2, <2>4, <2>5 DEF Spare, BogusExplained
<1>2. QED
  BY <1>1, ExplainedInit, ExplainedKept, SystemInvariance, PTL DEF SysSafety

=============================================================================
