--------------------------- MODULE PunctualProofs ---------------------------
(***************************************************************************)
(* A game server that sends its keepalives in time stays listed: the proof *)
(* of StaysListed, for any number of game servers, any handshake values,   *)
(* any order of datagrams and any failing calls.  And one that has fallen  *)
(* silent does not: the proof of SilentAreGone, on any network.            *)
(***************************************************************************)
EXTENDS SystemProofs

(* What is assumed: every datagram arrives once, no two game servers share *)
(* a host, what follows a sleep takes less time than a sleep, and a pause  *)
(* and what follows it no longer than the interval.                        *)
Undisturbed ==
  /\ MaxRepeats = 0 /\ MaxLosses = 0 /\ OwnHosts
  /\ RoundTime < Pause /\ RoundTime < Wait
  /\ Pause + RoundTime <= REAP_INTERVAL

-----------------------------------------------------------------------------
(* The invariant. *)

LastRound == 3 * Rounds

\* Under way to the metaserver's handlers.
Sent == ToSet(toServer) \cup ToSet(inbox)

ServerEntries == ToSet(lists["SERVER_LIST"])

\* Busy is who has something under way, or is not asleep.
Busy(p) == ~NothingUnderWay(p) \/ (Running(p) /\ ~Sleeping(p))

(* The clock, the latest sleep and the deadline of what follows the sleep  *)
(* before.  A sleep that begins while the SHAKE is under way ends only     *)
(* after the deadline of the SHAKE; at its bound the clock stands still.   *)
InTime(p) ==
  /\ Busy(p) => now <= due[p]
  /\ Sleeping(p) /\ NothingUnderWay(p) => now <= until[p] + RoundTime
  /\ Sleeping(p) /\ ~NothingUnderWay(p) =>
       now < until[p] /\ (now < MaxTime => due[p] < until[p])
  /\ due[p] >= RoundTime
  /\ due[p] <= now + RoundTime \/ now = MaxTime
  /\ Op(p) = "pause" => until[p] <= now + Pause
  /\ at[p] <= LastRound => due[p] <= now + Pause + RoundTime
  /\ p \in exited => ~Sleeping(p)

(* Of a round one datagram at a time is under way, or waits at the peer.   *)
RoundOf(p) == {d \in ServerDatagrams : d.src = p /\ d.type # "TERMINATE"}

InRound(p) ==
  Count(toServer, RoundOf(p)) + Count(inbox, RoundOf(p)) + Len(toPeer[p])

OneAtATime(p) ==
  /\ InRound(p) <= 1
  /\ toPeer[p] # <<>> => Op(p) = "recvfrom"
  /\ \A d \in Sent : d.src = p =>
       /\ d.type = "SERVERKEEPALIVE" => Op(p) = "recvfrom"
       /\ d.type = "SERVERSHAKE" => Op(p) \notin {"keepalive", "recvfrom"}
       /\ d.type = "TERMINATE" => at[p] > LastRound

(* The game servers that will come, or have come, with value v for their   *)
(* handshake in a round that began at t or later are no more than the      *)
(* pending handshakes with that value that are no older: v may be the      *)
(* value of several, and each of them takes the oldest.                    *)
Holds(p, v) ==
  \/ p \notin exited /\ v \in ToSet(toPeer[p])
  \/ [type |-> "SERVERSHAKE", src |-> p, arg |-> v] \in Sent

Holders(v, t) == {p \in EndPoint : due[p] >= t + RoundTime /\ Holds(p, v)}

Fresh(v, t) == {e \in Handshake : e.hs = v /\ e.ts >= t}

Matched ==
  \A v \in HandshakeValue, t \in 0..MaxTime :
    /\ IsFiniteSet(Holders(v, t))
    /\ Cardinality(Holders(v, t)) <= Count(Pending, Fresh(v, t))

Sorted == \A i, j \in 1..Len(Pending) : i <= j => Pending[i].ts <= Pending[j].ts

(* How old the entry of a game server is that has not come to its wait.    *)
Lease(p) ==
  at[p] <= LastRound /\ p \notin exited =>
    \A e \in ServerEntries : e.addr = Host[p] =>
      IF Sleeping(p) /\ NothingUnderWay(p) THEN until[p] <= e.ts + Pause
      ELSE due[p] <= e.ts + Pause + RoundTime

PunctualInv ==
  /\ now <= MaxTime
  /\ \A p \in EndPoint : InTime(p) /\ OneAtATime(p) /\ Lease(p)
  /\ Matched /\ Sorted

-----------------------------------------------------------------------------
(* The script. *)

LEMMA ScriptOps ==
  ASSUME NEW k \in 1..Len(Script)
  PROVE  /\ Script[k] = "keepalive" =>
              k + 1 <= Len(Script) /\ Script[k + 1] = "recvfrom"
         /\ Script[k] = "recvfrom" =>
              k + 1 <= Len(Script) /\ Script[k + 1] \in {"pause", "terminate"}
         /\ Script[k] = "terminate" =>
              k > LastRound /\ (k + 1 <= Len(Script) => Script[k + 1] = "wait")
         /\ k <= LastRound => Script[k] # "wait"
         /\ Script[k] = "pause" /\ k + 1 <= LastRound => Script[k + 1] = "keepalive"
         /\ Script[k] \in {"keepalive", "recvfrom", "pause", "wait", "terminate"}
<1> DEFINE rounds == [j \in 1..(3 * Rounds) |-> Round[((j - 1) % 3) + 1]]
           rest   == <<"wait", "keepalive", "recvfrom", "terminate", "wait", "terminate">>
           n == 3 * Rounds
           S == {"keepalive", "recvfrom", "pause", "wait", "terminate"}
<1>1. n \in Nat /\ n % 3 = 0 /\ LastRound = n
  BY SystemAssumption DEF LastRound
<1>2. rounds \in Seq(S) /\ Len(rounds) = n
  <2>1. \A j \in 1..n : ((j - 1) % 3) + 1 \in 1..3
    BY <1>1
  <2>2. rounds \in [1..n -> S]
    BY <2>1 DEF Round
  <2> HIDE DEF rounds, S
  <2>3. rounds \in Seq(S)
    BY <1>1, <2>2, FunctionIsSeq
  <2>4. DOMAIN rounds = 1..n
    BY <2>2
  <2>5. QED
    BY <1>1, <2>3, <2>4, LenProperties
<1>3. /\ rest \in Seq(S) /\ Len(rest) = 6
      /\ rest[1] = "wait" /\ rest[2] = "keepalive" /\ rest[3] = "recvfrom"
      /\ rest[4] = "terminate" /\ rest[5] = "wait" /\ rest[6] = "terminate"
  OBVIOUS
<1>4. \A j \in 1..n :
        /\ (j - 1) % 3 = 0 => rounds[j] = "keepalive"
        /\ (j - 1) % 3 = 1 => rounds[j] = "recvfrom"
        /\ (j - 1) % 3 = 2 => rounds[j] = "pause"
        /\ (j - 1) % 3 \in 0..2
  BY <1>1 DEF Round
<1>5. Script = rounds \o rest
  BY DEF Script
<1> HIDE DEF rounds, rest, n
<1>6. /\ Len(Script) = n + 6
      /\ \A j \in 1..(n + 6) :
           Script[j] = IF j <= n THEN rounds[j] ELSE rest[j - n]
  <2>1. /\ Len(rounds \o rest) = Len(rounds) + Len(rest)
        /\ \A j \in 1..(Len(rounds) + Len(rest)) :
             (rounds \o rest)[j] = IF j <= Len(rounds) THEN rounds[j]
                                   ELSE rest[j - Len(rounds)]
    <3> HIDE DEF S
    <3> QED BY <1>2, <1>3, ConcatProperties
  <2>2. QED
    BY <1>2, <1>3, <1>5, <2>1
<1>7. CASE k <= n
  <2>1. k \in 1..n /\ Script[k] = rounds[k]
    BY <1>1, <1>6, <1>7
  <2>2. CASE (k - 1) % 3 = 0
    <3>1. k + 1 \in 1..n /\ (k + 1 - 1) % 3 = 1
      BY <1>1, <2>1, <2>2
    <3>2. Script[k] = "keepalive"
      BY <1>4, <2>1, <2>2
    <3>3. rounds[k + 1] = "recvfrom"
      BY <1>4, <3>1
    <3>4. Script[k + 1] = rounds[k + 1]
      BY <1>1, <1>6, <3>1
    <3>5. k <= LastRound /\ k + 1 <= Len(Script)
      BY <1>1, <1>6, <1>7, <3>1
    <3>6. QED
      BY <3>2, <3>3, <3>4, <3>5
  <2>3. CASE (k - 1) % 3 = 1
    <3>1. k + 1 \in 1..n /\ (k + 1 - 1) % 3 = 2
      BY <1>1, <2>1, <2>3
    <3>2. Script[k] = "recvfrom"
      BY <1>4, <2>1, <2>3
    <3>3. rounds[k + 1] = "pause"
      BY <1>4, <3>1
    <3>4. Script[k + 1] = rounds[k + 1]
      BY <1>1, <1>6, <3>1
    <3>5. k <= LastRound /\ k + 1 <= Len(Script)
      BY <1>1, <1>6, <1>7, <3>1
    <3>6. QED
      BY <3>2, <3>3, <3>4, <3>5
  <2>4. CASE (k - 1) % 3 = 2
    <3>1. Script[k] = "pause"
      BY <1>4, <2>1, <2>4
    <3>2. ASSUME k + 1 <= n PROVE Script[k + 1] = "keepalive"
      <4>1. k + 1 \in 1..n /\ (k + 1 - 1) % 3 = 0
        BY <1>1, <2>1, <2>4, <3>2
      <4>2. QED
        BY <1>1, <1>4, <1>6, <4>1
    <3>3. QED
      BY <1>1, <3>1, <3>2
  <2>5. QED
    BY <1>4, <2>1, <2>2, <2>3, <2>4
<1>8. CASE ~(k <= n)
  <2>1. k \in {n + 1, n + 2, n + 3, n + 4, n + 5, n + 6}
    BY <1>1, <1>6, <1>8
  <2>2. /\ Script[n + 1] = "wait" /\ Script[n + 2] = "keepalive"
        /\ Script[n + 3] = "recvfrom" /\ Script[n + 4] = "terminate"
        /\ Script[n + 5] = "wait" /\ Script[n + 6] = "terminate"
    BY <1>1, <1>3, <1>6
  <2>3. QED
    BY <1>1, <1>6, <2>1, <2>2
<1>9. QED
  BY <1>7, <1>8

(* A statement of the script is carried out. *)
LEMMA AdvanceStep ==
  ASSUME SysTypeOK, now \in Nat, NEW p \in EndPoint, Op(p) # "exit", Advance(p)
  PROVE  /\ at'[p] = at[p] + 1 /\ exited' = exited
         /\ Op(p) = "keepalive" => Op(p)' = "recvfrom"
         /\ Op(p) = "recvfrom" => Op(p)' \in {"pause", "terminate"}
         /\ Op(p) = "terminate" => at[p] > LastRound /\ Op(p)' \in {"wait", "exit"}
         /\ at'[p] <= LastRound /\ Sleeping(p) => Op(p) = "pause" /\ Op(p)' = "keepalive"
         /\ at'[p] <= LastRound => at[p] <= LastRound
         /\ Op(p)' = "pause" => until'[p] = now + Pause
         /\ Op(p)' = "wait" => until'[p] = now + Wait
         /\ due'[p] = IF Sleeping(p) THEN until[p] + RoundTime ELSE due[p]
         /\ \A q \in EndPoint : q # p =>
              /\ at'[q] = at[q] /\ until'[q] = until[q] /\ due'[q] = due[q]
              /\ Op(q)' = Op(q)
<1>1. Len(Script) \in Nat /\ LastRound \in Nat
  BY ScriptTail, SystemAssumption DEF LastRound
<1>2. at[p] \in 1..Len(Script)
  BY <1>1 DEF Op, SysTypeOK
<1>3. at'[p] = at[p] + 1 /\ \A q \in EndPoint : q # p => at'[q] = at[q]
  BY DEF Advance, SysTypeOK
<1>4. Op(p) = Script[at[p]]
  BY <1>1, <1>2 DEF Op
<1>5. Op(p)' = IF at[p] + 1 <= Len(Script) THEN Script[at[p] + 1] ELSE "exit"
  BY <1>3 DEF Op
<1>6. \A q \in EndPoint : q # p => Op(q)' = Op(q)
  BY <1>3 DEF Op
<1>7. Op(p)' \in {"pause", "wait"} => until'[p] = now + Seconds(Op(p)')
  <2>1. ASSUME Op(p)' \in {"pause", "wait"}
        PROVE  at'[p] <= Len(Script) /\ Op(p)' = Script[at'[p]]
    BY <1>3, <1>5, <2>1
  <2>2. QED
    BY <2>1 DEF Advance, SysTypeOK
<1>8. due'[p] = IF Sleeping(p) THEN until[p] + RoundTime ELSE due[p]
  BY DEF Advance, SysTypeOK
<1>9. \A q \in EndPoint : q # p => until'[q] = until[q] /\ due'[q] = due[q]
  BY DEF Advance, SysTypeOK
<1>10. /\ Op(p) = "keepalive" => Op(p)' = "recvfrom"
       /\ Op(p) = "recvfrom" => Op(p)' \in {"pause", "terminate"}
       /\ Op(p) = "terminate" => at[p] > LastRound /\ Op(p)' \in {"wait", "exit"}
  BY <1>2, <1>4, <1>5, ScriptOps
<1>11. /\ at'[p] <= LastRound => at[p] <= LastRound
       /\ at[p] <= LastRound => Op(p) # "wait"
       /\ at'[p] <= LastRound /\ Op(p) = "pause" => Op(p)' = "keepalive"
  <2>1. at'[p] <= LastRound => at[p] <= LastRound
    BY <1>1, <1>2, <1>3
  <2>2. at[p] <= LastRound => Op(p) # "wait"
    BY <1>2, <1>4, ScriptOps
  <2>3. ASSUME at'[p] <= LastRound PROVE at[p] + 1 <= Len(Script)
    <3>1. CASE at[p] = Len(Script)
      <4>1. LastRound < Len(Script)
        BY ScriptTail, ScriptOps
      <4>2. QED
        BY <1>1, <1>3, <2>3, <3>1, <4>1
    <3>2. CASE at[p] # Len(Script)
      BY <1>1, <1>2, <3>2
    <3>3. QED
      BY <3>1, <3>2
  <2>4. ASSUME at'[p] <= LastRound, Op(p) = "pause" PROVE Op(p)' = "keepalive"
    <3>1. at[p] + 1 <= LastRound /\ at[p] + 1 <= Len(Script)
      BY <1>3, <2>3, <2>4
    <3>2. Script[at[p]] = "pause"
      BY <1>4, <2>4
    <3>3. Script[at[p] + 1] = "keepalive"
      BY <1>2, <3>1, <3>2, ScriptOps
    <3>4. QED
      BY <1>5, <3>1, <3>3
  <2>5. QED
    BY <2>1, <2>2, <2>4
<1>12. exited' = exited
  BY DEF Advance
<1>13. QED
  BY <1>3, <1>6, <1>7, <1>8, <1>9, <1>10, <1>11, <1>12 DEF Sleeping, Seconds

-----------------------------------------------------------------------------
(* What is under way. *)

(* Nothing under way is nothing sent. *)
LEMMA NothingIsSent ==
  ASSUME NEW p
  PROVE  NothingUnderWay(p) <=> \A d \in Sent : d.src # p
BY DEF NothingUnderWay, Sent, ToSet

(* All of it is typed. *)
LEMMA PunctualTypes ==
  ASSUME SysInv
  PROVE  /\ Sent \subseteq ServerDatagrams
         /\ toServer \in Seq(ServerDatagrams) /\ inbox \in Seq(ServerDatagrams)
         /\ Pending \in Seq(Handshake)
         /\ lists["SERVER_LIST"] \in Seq(Handshake) /\ ServerEntries \subseteq Handshake
         /\ now \in Nat /\ MaxTime \in Nat /\ REAP_INTERVAL \in Nat
         /\ Pause \in Nat /\ Wait \in Nat /\ RoundTime \in Nat /\ LastRound \in Nat
         /\ repeats \in Nat /\ losses \in Nat
         /\ \A p \in EndPoint :
              /\ at[p] \in Nat /\ until[p] \in Nat /\ due[p] \in Nat
              /\ toPeer[p] \in Seq(HandshakeValue) /\ Len(toPeer[p]) \in Nat
              /\ Count(toServer, RoundOf(p)) \in Nat /\ Count(inbox, RoundOf(p)) \in Nat
<1>1. TypeOK /\ SysTypeOK
  BY DEF SysInv, Inv
<1>2. toServer \in Seq(ServerDatagrams) /\ inbox \in Seq(ServerDatagrams)
  BY <1>1 DEF SysTypeOK
<1>3. Sent \subseteq ServerDatagrams
  BY <1>2, ElementOfSeq, LenProperties DEF Sent, ToSet
<1>4. "SERVER_LIST" \in ListType /\ "SERVER_HANDSHAKE_LIST" \in ListType
  BY DEF ListType, ActiveList, HandshakeList
<1>5. Pending \in Seq(Handshake) /\ lists["SERVER_LIST"] \in Seq(Handshake)
  BY <1>1, <1>4 DEF TypeOK, Pending
<1>6. ServerEntries \subseteq Handshake
  BY <1>5, ElementOfSeq, LenProperties DEF ServerEntries, ToSet
<1>7. ASSUME NEW p \in EndPoint
      PROVE  /\ at[p] \in Nat /\ until[p] \in Nat /\ due[p] \in Nat
             /\ toPeer[p] \in Seq(HandshakeValue) /\ Len(toPeer[p]) \in Nat
             /\ Count(toServer, RoundOf(p)) \in Nat /\ Count(inbox, RoundOf(p)) \in Nat
  <2>1. at[p] \in Nat
    <3>1. at[p] \in 1..(Len(Script) + 1) /\ Len(Script) \in Nat
      BY <1>1, ScriptTail DEF SysTypeOK
    <3>2. QED
      BY <3>1
  <2>2. toPeer[p] \in Seq(HandshakeValue) /\ until[p] \in Nat /\ due[p] \in Nat
    BY <1>1 DEF SysTypeOK
  <2>3. QED
    BY <1>2, <2>1, <2>2, CountType, LenProperties
<1>8. now \in Nat /\ repeats \in Nat /\ losses \in Nat
  BY <1>1 DEF TypeOK, SysTypeOK
<1>9. QED
  BY <1>2, <1>3, <1>5, <1>6, <1>7, <1>8, MetaserverAssumption, SystemAssumption DEF LastRound

(* A game server sends a datagram. *)
LEMMA SentSends ==
  ASSUME SysInv, NEW p \in EndPoint, NEW d \in ServerDatagrams, d.src = p,
         toServer' = Append(toServer, d), inbox' = inbox
  PROVE  /\ Sent' = Sent \cup {d}
         /\ \A q \in EndPoint :
              /\ Count(inbox', RoundOf(q)) = Count(inbox, RoundOf(q))
              /\ Count(toServer', RoundOf(q)) = Count(toServer, RoundOf(q)) +
                   (IF q = p /\ d.type # "TERMINATE" THEN 1 ELSE 0)
              /\ q # p => (NothingUnderWay(q)' <=> NothingUnderWay(q))
<1>1. toServer \in Seq(ServerDatagrams)
  BY PunctualTypes
<1>2. Sent' = Sent \cup {d}
  BY <1>1, ElementsAppend DEF Sent
<1>3. ASSUME NEW q \in EndPoint
      PROVE  /\ Count(toServer', RoundOf(q)) = Count(toServer, RoundOf(q)) +
                   (IF q = p /\ d.type # "TERMINATE" THEN 1 ELSE 0)
             /\ q # p => (NothingUnderWay(q)' <=> NothingUnderWay(q))
  <2>1. d \in RoundOf(q) <=> q = p /\ d.type # "TERMINATE"
    BY DEF RoundOf
  <2>2. Count(toServer', RoundOf(q)) =
          Count(toServer, RoundOf(q)) + (IF d \in RoundOf(q) THEN 1 ELSE 0)
    BY <1>1, CountAppend
  <2>3. ASSUME q # p PROVE NothingUnderWay(q)' <=> NothingUnderWay(q)
    <3>1. NothingUnderWay(q)' <=> \A e \in Sent' : e.src # q
      BY DEF NothingUnderWay, Sent, ToSet
    <3>2. QED
      BY <1>2, <2>3, <3>1, NothingIsSent
  <2>4. QED
    BY <2>1, <2>2, <2>3
<1>4. QED
  BY <1>2, <1>3

(* A datagram that is delivered is still under way. *)
LEMMA SentDelivered ==
  ASSUME SysInv, Undisturbed, Deliver
  PROVE  /\ Sent' = Sent
         /\ \A q \in EndPoint :
              /\ Count(toServer', RoundOf(q)) + Count(inbox', RoundOf(q)) =
                   Count(toServer, RoundOf(q)) + Count(inbox, RoundOf(q))
              /\ NothingUnderWay(q)' <=> NothingUnderWay(q)
<1>1. /\ toServer \in Seq(ServerDatagrams) /\ inbox \in Seq(ServerDatagrams)
      /\ ~(repeats < MaxRepeats)
  BY PunctualTypes DEF Undisturbed
<1>2. PICK i \in Deliverable(toServer) : \E r \in Remaining(toServer, i) :
        toServer' = r[1] /\ inbox' = Append(inbox, toServer[i])
  BY DEF Deliver
<1>3. i \in 1..Len(toServer) /\ toServer[i] \in ServerDatagrams
  BY <1>1, LenProperties, ElementOfSeq DEF Deliverable
<1>4. toServer' = RemoveAt(toServer, i)
  BY <1>1, <1>2 DEF Remaining
<1>5. Sent' = Sent
  <2>1. ToSet(toServer) = ToSet(toServer') \cup {toServer[i]}
    BY <1>1, <1>3, <1>4, ElementsRemoved
  <2>2. ToSet(inbox') = ToSet(inbox) \cup {toServer[i]}
    BY <1>1, <1>2, <1>3, ElementsAppend
  <2>3. QED
    BY <2>1, <2>2 DEF Sent
<1>6. ASSUME NEW q \in EndPoint
      PROVE  /\ Count(toServer', RoundOf(q)) + Count(inbox', RoundOf(q)) =
                   Count(toServer, RoundOf(q)) + Count(inbox, RoundOf(q))
             /\ NothingUnderWay(q)' <=> NothingUnderWay(q)
  <2> DEFINE c == IF toServer[i] \in RoundOf(q) THEN 1 ELSE 0
             a == Count(toServer, RoundOf(q))
             b == Count(inbox, RoundOf(q))
             x == Count(toServer', RoundOf(q))
             y == Count(inbox', RoundOf(q))
  <2>1. x = a - c
    BY <1>1, <1>3, <1>4, CountRemoved
  <2>2. y = b + c
    BY <1>1, <1>2, <1>3, CountAppend
  <2>3. a \in Nat /\ b \in Nat /\ c \in Nat
    BY PunctualTypes
  <2>4. NothingUnderWay(q)' <=> \A e \in Sent' : e.src # q
    BY DEF NothingUnderWay, Sent, ToSet
  <2> HIDE DEF a, b, c, x, y
  <2>5. x + y = a + b
    BY <2>1, <2>2, <2>3
  <2>6. QED
    BY <1>5, <2>4, <2>5, NothingIsSent DEF a, b, x, y
<1>7. QED
  BY <1>5, <1>6

(* One that is served is not. *)
LEMMA SentServed ==
  ASSUME SysInv, Serve
  PROVE  /\ Head(inbox) \in Sent /\ Sent' \subseteq Sent
         /\ Sent = Sent' \cup {Head(inbox)}
         /\ \A q \in EndPoint :
              /\ Count(toServer', RoundOf(q)) = Count(toServer, RoundOf(q))
              /\ Count(inbox', RoundOf(q)) =
                   Count(inbox, RoundOf(q)) - (IF Head(inbox) \in RoundOf(q) THEN 1 ELSE 0)
              /\ NothingUnderWay(q) => NothingUnderWay(q)'
              /\ q # Head(inbox).src => (NothingUnderWay(q)' <=> NothingUnderWay(q))
<1>1. inbox \in Seq(ServerDatagrams) /\ inbox # <<>> /\ inbox' = Tail(inbox)
      /\ toServer' = toServer
  BY PunctualTypes DEF Serve
<1>2. /\ ToSet(inbox') \subseteq ToSet(inbox)
      /\ ToSet(inbox) = ToSet(inbox') \cup {Head(inbox)}
  BY <1>1, ElementsTail
<1>3. /\ Head(inbox) \in Sent /\ Sent' \subseteq Sent
      /\ Sent = Sent' \cup {Head(inbox)}
  BY <1>1, <1>2 DEF Sent
<1>4. ASSUME NEW q \in EndPoint
      PROVE  /\ Count(inbox', RoundOf(q)) =
                   Count(inbox, RoundOf(q)) - (IF Head(inbox) \in RoundOf(q) THEN 1 ELSE 0)
             /\ NothingUnderWay(q) => NothingUnderWay(q)'
             /\ q # Head(inbox).src => (NothingUnderWay(q)' <=> NothingUnderWay(q))
  <2>1. Count(inbox', RoundOf(q)) =
          Count(inbox, RoundOf(q)) - (IF Head(inbox) \in RoundOf(q) THEN 1 ELSE 0)
    BY <1>1, CountTail
  <2>2. NothingUnderWay(q)' <=> \A e \in Sent' : e.src # q
    BY DEF NothingUnderWay, Sent, ToSet
  <2>3. QED
    BY <1>3, <2>1, <2>2, NothingIsSent
<1>5. QED
  BY <1>1, <1>3, <1>4

(* What a game server does concerns no other. *)
LEMMA OtherGameServer ==
  ASSUME SysInv, NEW p \in EndPoint, NEW q \in EndPoint, p # q, GameServer(q)
  PROVE  /\ UNCHANGED <<now, lists, inbox, exited>>
         /\ at'[p] = at[p] /\ until'[p] = until[p] /\ due'[p] = due[p] /\ Op(p)' = Op(p)
         /\ toPeer'[p] = toPeer[p] /\ InRound(p)' = InRound(p)
         /\ NothingUnderWay(p)' <=> NothingUnderWay(p)
         /\ \A d : d.src = p => (d \in Sent' <=> d \in Sent)
<1>1. SysTypeOK /\ now \in Nat
  BY PunctualTypes DEF SysInv
<1>2. UNCHANGED <<now, lists, inbox>> /\ Advance(q) /\ Op(q) # "exit"
  BY DEF GameServer, Keepalive, Shake, Terminate, Wake, Sleeping, vars, dataVars, network
<1>3. /\ at'[p] = at[p] /\ until'[p] = until[p] /\ due'[p] = due[p] /\ Op(p)' = Op(p)
      /\ exited' = exited
  BY <1>1, <1>2, AdvanceStep
<1>4. toPeer'[p] = toPeer[p]
  BY <1>1 DEF GameServer, Keepalive, Shake, Terminate, Wake, network, SysTypeOK
<1>5. \/ toServer' = toServer
      \/ \E d \in ServerDatagrams : d.src = q /\ toServer' = Append(toServer, d)
  <2>1. CASE Keepalive(q)
    <3>1. [type |-> "SERVERKEEPALIVE", src |-> q, arg |-> 0] \in ServerDatagrams
      BY DEF ServerDatagrams
    <3>2. QED
      BY <2>1, <3>1 DEF Keepalive, Send
  <2>2. CASE Terminate(q)
    <3>1. [type |-> "TERMINATE", src |-> q, arg |-> 0] \in ServerDatagrams
      BY DEF ServerDatagrams
    <3>2. QED
      BY <2>2, <3>1 DEF Terminate, Send
  <2>3. CASE Shake(q)
    <3>1. PICK i \in Deliverable(toPeer[q]) : Send("SERVERSHAKE", q, toPeer[q][i])
      BY <2>3 DEF Shake
    <3>2. toPeer[q] \in Seq(HandshakeValue)
      BY PunctualTypes
    <3>3. toPeer[q][i] \in HandshakeValue
      BY <3>2, LenProperties, ElementOfSeq DEF Deliverable
    <3>4. [type |-> "SERVERSHAKE", src |-> q, arg |-> toPeer[q][i]] \in ServerDatagrams
      BY <3>3 DEF ServerDatagrams
    <3>5. QED
      BY <3>1, <3>4 DEF Send
  <2>4. CASE Wake(q)
    BY <2>4 DEF Wake, network
  <2>5. QED
    BY <2>1, <2>2, <2>3, <2>4 DEF GameServer
<1>6. CASE toServer' = toServer
  BY <1>2, <1>3, <1>4, <1>6 DEF InRound, NothingUnderWay, Sent
<1>7. CASE \E d \in ServerDatagrams : d.src = q /\ toServer' = Append(toServer, d)
  <2>1. PICK d \in ServerDatagrams : d.src = q /\ toServer' = Append(toServer, d)
    BY <1>7
  <2>2. /\ Sent' = Sent \cup {d} /\ (NothingUnderWay(p)' <=> NothingUnderWay(p))
        /\ Count(toServer', RoundOf(p)) = Count(toServer, RoundOf(p)) + 0
    BY <1>2, <2>1, SentSends
  <2>3. Count(toServer, RoundOf(p)) \in Nat
    BY PunctualTypes
  <2>4. InRound(p)' = Count(toServer', RoundOf(p)) + Count(inbox', RoundOf(p)) + Len(toPeer'[p])
    BY DEF InRound, RoundOf
  <2>5. InRound(p)' = InRound(p)
    BY <1>2, <1>4, <2>2, <2>3, <2>4 DEF InRound
  <2>6. QED
    BY <1>2, <1>3, <1>4, <2>1, <2>2, <2>5
<1>8. QED
  BY <1>5, <1>6, <1>7

-----------------------------------------------------------------------------
(* InTime. *)

(* It concerns nobody that a datagram of another, or of a sleeper's, is    *)
(* handled, or that who is not asleep exits.                               *)
LEMMA InTimeFewer ==
  ASSUME SysInv, NEW p \in EndPoint, InTime(p),
         now' = now, at'[p] = at[p], until'[p] = until[p], due'[p] = due[p], Op(p)' = Op(p),
         exited \subseteq exited', p \in exited' => p \in exited \/ ~Sleeping(p),
         NothingUnderWay(p) => NothingUnderWay(p)'
  PROVE  InTime(p)'
<1>1. (Sleeping(p)' <=> Sleeping(p)) /\ (Running(p)' => Running(p))
  BY DEF Sleeping, Running
<1>2. now \in Nat /\ until[p] \in Nat /\ RoundTime \in Nat
  BY PunctualTypes
<1>3. Busy(p)' => Busy(p)
  BY <1>1 DEF Busy
<1>4. (Sleeping(p) /\ NothingUnderWay(p))' => now <= until[p] + RoundTime
  <2>1. CASE NothingUnderWay(p)
    BY <1>1, <2>1 DEF InTime
  <2>2. CASE ~NothingUnderWay(p)
    BY <1>1, <1>2, <2>2 DEF InTime
  <2>3. QED
    BY <2>1, <2>2
<1>5. LastRound' = LastRound
  BY DEF LastRound
<1>6. QED
  BY <1>1, <1>3, <1>4, <1>5 DEF InTime

(* A second passes only while everybody is in time. *)
LEMMA InTimeSecond ==
  ASSUME SysInv, Second, now <= MaxTime, NEW p \in EndPoint, InTime(p)
  PROVE  InTime(p)'
<1>1. /\ now \in Nat /\ MaxTime \in Nat /\ until[p] \in Nat /\ due[p] \in Nat
      /\ RoundTime \in Nat /\ Pause \in Nat
  BY PunctualTypes
<1>2. /\ now' = now + 1 /\ now < MaxTime /\ Punctual(p)
      /\ UNCHANGED <<at, until, due, exited, toServer, inbox>>
  BY DEF Second, Tick, peers, network
<1>3. /\ (Op(p)' = Op(p)) /\ (Sleeping(p)' <=> Sleeping(p)) /\ (Busy(p)' <=> Busy(p))
      /\ (NothingUnderWay(p)' <=> NothingUnderWay(p)) /\ (LastRound' = LastRound)
  BY <1>2 DEF Op, Sleeping, Busy, Running, NothingUnderWay, LastRound
<1>4. Sleeping(p) => Running(p)
  BY DEF InTime, Sleeping, Running
<1>5. Busy(p) => now + 1 <= due[p]
  BY <1>1, <1>2 DEF Busy, Punctual
<1>6. Sleeping(p) /\ NothingUnderWay(p) => now + 1 <= until[p] + RoundTime
  BY <1>1, <1>2, <1>4 DEF Punctual
<1>7. ASSUME Sleeping(p), ~NothingUnderWay(p)
      PROVE  now + 1 < until[p] /\ due[p] < until[p]
  <2>1. now + 1 <= due[p] /\ due[p] < until[p]
    BY <1>1, <1>2, <1>5, <1>7 DEF Busy, InTime
  <2>2. QED
    BY <1>1, <2>1
<1>8. /\ due[p] >= RoundTime /\ due[p] <= now + 1 + RoundTime
      /\ Op(p) = "pause" => until[p] <= now + 1 + Pause
      /\ at[p] <= LastRound => due[p] <= now + 1 + Pause + RoundTime
  BY <1>1, <1>2 DEF InTime
<1>9. p \in exited => ~Sleeping(p)
  BY DEF InTime
<1>10. QED
  BY <1>2, <1>3, <1>5, <1>6, <1>7, <1>8, <1>9 DEF InTime

(* Who sleeps while its SHAKE is under way does not wake. *)
LEMMA WakesAfterAll ==
  ASSUME SysInv, NEW p \in EndPoint, InTime(p), Wake(p)
  PROVE  NothingUnderWay(p) /\ (now >= until[p] \/ now = MaxTime)
<1>1. now \in Nat /\ until[p] \in Nat
  BY PunctualTypes
<1>2. QED
  BY <1>1 DEF Wake, InTime

LEMMA InTimeGameServer ==
  ASSUME SysInv, Undisturbed, NEW p \in EndPoint, InTime(p), GameServer(p)
  PROVE  InTime(p)'
<1>1. /\ now \in Nat /\ until[p] \in Nat /\ due[p] \in Nat /\ at[p] \in Nat
      /\ RoundTime \in Nat /\ Pause \in Nat /\ Wait \in Nat /\ MaxTime \in Nat
      /\ LastRound \in Nat
  BY PunctualTypes
<1>2. /\ RoundTime < Pause /\ RoundTime < Wait /\ LastRound' = LastRound
  BY DEF Undisturbed, LastRound
<1>3. SysTypeOK /\ p \notin exited
  BY DEF SysInv, GameServer
<1>4. CASE Keepalive(p)
  <2>1. Op(p) = "keepalive" /\ Op(p) # "exit" /\ ~Sleeping(p) /\ Advance(p) /\ now' = now
    BY <1>4 DEF Keepalive, Sleeping, vars, dataVars
  <2>2. /\ Op(p)' = "recvfrom" /\ due'[p] = due[p] /\ exited' = exited
        /\ at'[p] <= LastRound => at[p] <= LastRound
    BY <1>1, <1>3, <2>1, AdvanceStep
  <2>3. now <= due[p]
    BY <1>3, <2>1 DEF InTime, Busy, Running
  <2>4. ~Sleeping(p)' /\ Op(p)' # "pause"
    BY <2>2 DEF Sleeping
  <2>5. QED
    BY <1>2, <2>1, <2>2, <2>3, <2>4 DEF InTime
<1>5. CASE Shake(p)
  <2>1. Op(p) = "recvfrom" /\ Op(p) # "exit" /\ ~Sleeping(p) /\ Advance(p) /\ now' = now
    BY <1>5 DEF Shake, Sleeping, vars, dataVars
  <2>2. /\ Op(p)' \in {"pause", "terminate"} /\ due'[p] = due[p] /\ exited' = exited
        /\ at'[p] <= LastRound => at[p] <= LastRound
        /\ Op(p)' = "pause" => until'[p] = now + Pause
    BY <1>1, <1>3, <2>1, AdvanceStep
  <2>3. now <= due[p]
    BY <1>3, <2>1 DEF InTime, Busy, Running
  <2>4. ~NothingUnderWay(p)'
    <3>1. PICK i \in Deliverable(toPeer[p]) : Send("SERVERSHAKE", p, toPeer[p][i])
      BY <1>5 DEF Shake
    <3> DEFINE d == [type |-> "SERVERSHAKE", src |-> p, arg |-> toPeer[p][i]]
    <3>2. d \in ServerDatagrams
      <4>1. toPeer[p] \in Seq(HandshakeValue)
        BY PunctualTypes
      <4>2. toPeer[p][i] \in HandshakeValue
        BY <4>1, LenProperties, ElementOfSeq DEF Deliverable
      <4>3. QED
        BY <4>2 DEF ServerDatagrams
    <3>3. inbox' = inbox /\ toServer' = Append(toServer, d) /\ d.src = p
      BY <1>5, <3>1 DEF Shake, Send
    <3> HIDE DEF d
    <3>4. d \in Sent'
      BY <3>2, <3>3, SentSends
    <3>5. NothingUnderWay(p)' <=> \A e \in Sent' : e.src # p
      BY DEF NothingUnderWay, Sent, ToSet
    <3>6. QED
      BY <3>3, <3>4, <3>5
  <2>5. due[p] <= now + RoundTime \/ now = MaxTime
    BY DEF InTime
  <2>6. Op(p)' = "pause" => /\ now < until'[p] /\ until'[p] <= now + Pause
                            /\ now < MaxTime => due[p] < until'[p]
    BY <1>1, <1>2, <2>2, <2>5
  <2>7. Sleeping(p)' => Op(p)' = "pause"
    BY <2>2 DEF Sleeping
  <2>8. QED
    BY <1>2, <1>3, <2>1, <2>2, <2>3, <2>4, <2>6, <2>7 DEF InTime
<1>6. CASE Terminate(p)
  <2>1. Op(p) = "terminate" /\ Op(p) # "exit" /\ ~Sleeping(p) /\ Advance(p) /\ now' = now
    BY <1>6 DEF Terminate, Sleeping, vars, dataVars
  <2>2. /\ Op(p)' \in {"wait", "exit"} /\ due'[p] = due[p] /\ exited' = exited
        /\ at'[p] <= LastRound => at[p] <= LastRound
        /\ Op(p)' = "wait" => until'[p] = now + Wait
    BY <1>1, <1>3, <2>1, AdvanceStep
  <2>3. now <= due[p]
    BY <1>3, <2>1 DEF InTime, Busy, Running
  <2>4. ~NothingUnderWay(p)'
    <3> DEFINE d == [type |-> "TERMINATE", src |-> p, arg |-> 0]
    <3>1. d \in ServerDatagrams /\ d.src = p
      BY DEF ServerDatagrams
    <3>2. inbox' = inbox /\ toServer' = Append(toServer, d)
      BY <1>6 DEF Terminate, Send
    <3> HIDE DEF d
    <3>3. d \in Sent'
      BY <3>1, <3>2, SentSends
    <3>4. NothingUnderWay(p)' <=> \A e \in Sent' : e.src # p
      BY DEF NothingUnderWay, Sent, ToSet
    <3>5. QED
      BY <3>1, <3>3, <3>4
  <2>5. due[p] <= now + RoundTime \/ now = MaxTime
    BY DEF InTime
  <2>6. Op(p)' = "wait" => now < until'[p] /\ (now < MaxTime => due[p] < until'[p])
    BY <1>1, <1>2, <2>2, <2>5
  <2>7. Sleeping(p)' => Op(p)' = "wait"
    BY <2>2 DEF Sleeping
  <2>8. QED
    BY <1>2, <1>3, <2>1, <2>2, <2>3, <2>4, <2>6, <2>7 DEF InTime
<1>7. CASE Wake(p)
  <2>1. Sleeping(p) /\ Op(p) # "exit" /\ Advance(p) /\ UNCHANGED <<now, toServer, inbox>>
    BY <1>7 DEF Wake, Sleeping, vars, dataVars, network
  <2>2. NothingUnderWay(p) /\ (now >= until[p] \/ now = MaxTime)
    BY <1>7, WakesAfterAll
  <2>3. NothingUnderWay(p)'
    BY <2>1, <2>2 DEF NothingUnderWay
  <2>4. /\ due'[p] = until[p] + RoundTime /\ exited' = exited
        /\ at'[p] <= LastRound => Op(p) = "pause"
        /\ Op(p)' = "pause" => until'[p] = now + Pause
        /\ Op(p)' = "wait" => until'[p] = now + Wait
    BY <1>1, <1>3, <2>1, AdvanceStep
  <2>5. now <= until[p] + RoundTime /\ (Op(p) = "pause" => until[p] <= now + Pause)
    BY <2>1, <2>2 DEF InTime
  <2>6. /\ now <= due'[p] /\ due'[p] >= RoundTime
        /\ due'[p] <= now + RoundTime \/ now = MaxTime
        /\ at'[p] <= LastRound => due'[p] <= now + Pause + RoundTime
    BY <1>1, <2>2, <2>4, <2>5
  <2>7. /\ Op(p)' = "pause" => until'[p] <= now + Pause
        /\ Sleeping(p)' => now <= until'[p] + RoundTime
    BY <1>1, <2>4 DEF Sleeping
  <2>8. QED
    BY <1>2, <1>3, <2>1, <2>3, <2>4, <2>6, <2>7 DEF InTime
<1>8. QED
  BY <1>4, <1>5, <1>6, <1>7 DEF GameServer

-----------------------------------------------------------------------------
(* OneAtATime. *)

(* Every handshake under way is the answer to a KEEPALIVE of its receiver. *)
LEMMA ServeToPeer ==
  ASSUME SysInv, Serve, NEW p \in EndPoint
  PROVE  \/ toPeer'[p] = toPeer[p]
         \/ /\ Head(inbox).type = "SERVERKEEPALIVE" /\ Head(inbox).src = p
            /\ \E h \in HandshakeValue : toPeer'[p] = Append(toPeer[p], h)
<1>1. TypeOK /\ SysTypeOK
  BY DEF SysInv, Inv
<1>2. Head(inbox) \in ServerDatagrams /\ Receive(Head(inbox))
  BY <1>1, ServeReceives
<1>3. CASE Head(inbox).type = "SERVERKEEPALIVE"
  <2>1. PICK h \in HandshakeValue :
          \/ toPeer' = toPeer
          \/ toPeer' = [toPeer EXCEPT ![Head(inbox).src] = Append(@, h)]
    BY <1>1, <1>3, ServeIssues
  <2>2. QED
    BY <1>1, <1>3, <2>1 DEF SysTypeOK
<1>4. CASE Head(inbox).type = "SERVERSHAKE"
  BY <1>1, <1>4, ServeShakes
<1>5. CASE Head(inbox).type = "TERMINATE"
  <2>1. out' = NoReply
    BY <1>2, <1>5 DEF Receive, HandleServerKeepalive, HandleClientKeepalive,
      HandleServerShake, HandleClientShake, HandleTerminate, HandleListRequest, Ignore
  <2>2. QED
    BY <2>1 DEF Serve
<1>6. QED
  BY <1>2, <1>3, <1>4, <1>5 DEF ServerDatagrams

(* No datagram of a round is on two queues when only terminations are. *)
LEMMA NoneInRound ==
  ASSUME NEW p, NEW s \in Seq(ServerDatagrams), NEW r \in Seq(ServerDatagrams)
  PROVE  Count(s, RoundOf(p)) + Count(r, RoundOf(p)) = 0 <=>
           \A d \in ToSet(s) \cup ToSet(r) : d.src = p => d.type = "TERMINATE"
<1>1. Count(s, RoundOf(p)) \in Nat /\ Count(r, RoundOf(p)) \in Nat
  BY CountType
<1>2. /\ Count(s, RoundOf(p)) = 0 <=> ToSet(s) \cap RoundOf(p) = {}
      /\ Count(r, RoundOf(p)) = 0 <=> ToSet(r) \cap RoundOf(p) = {}
  BY CountZero
<1>3. ToSet(s) \subseteq ServerDatagrams /\ ToSet(r) \subseteq ServerDatagrams
  BY ElementOfSeq, LenProperties DEF ToSet
<1>4. (ToSet(s) \cap RoundOf(p) = {} /\ ToSet(r) \cap RoundOf(p) = {}) <=>
        \A d \in ToSet(s) \cup ToSet(r) : d.src = p => d.type = "TERMINATE"
  BY <1>3 DEF RoundOf
<1>5. Count(s, RoundOf(p)) + Count(r, RoundOf(p)) = 0 <=>
        Count(s, RoundOf(p)) = 0 /\ Count(r, RoundOf(p)) = 0
  BY <1>1
<1>6. QED
  BY <1>2, <1>4, <1>5

LEMMA OneAtATimeFewer ==
  ASSUME NEW p \in EndPoint, OneAtATime(p),
         at'[p] = at[p], Op(p)' = Op(p), toPeer'[p] = toPeer[p],
         InRound(p)' <= 1, \A d \in Sent' : d.src = p => d \in Sent
  PROVE  OneAtATime(p)'
<1>1. LastRound' = LastRound
  BY DEF LastRound
<1>2. QED
  BY <1>1 DEF OneAtATime

(* A handshake that comes is taken, and its value sent back. *)
LEMMA ShakeTakes ==
  ASSUME SysInv, Undisturbed, NEW p \in EndPoint, Shake(p)
  PROVE  \E i \in 1..Len(toPeer[p]) :
           /\ toPeer[p][i] \in HandshakeValue
           /\ toPeer' = [toPeer EXCEPT ![p] = RemoveAt(@, i)]
           /\ Send("SERVERSHAKE", p, toPeer[p][i])
<1>1. ~(repeats < MaxRepeats) /\ toPeer[p] \in Seq(HandshakeValue)
  BY PunctualTypes DEF Undisturbed
<1>2. PICK i \in Deliverable(toPeer[p]) : \E r \in Remaining(toPeer[p], i) :
        /\ toPeer' = [toPeer EXCEPT ![p] = r[1]]
        /\ Send("SERVERSHAKE", p, toPeer[p][i])
  BY DEF Shake
<1>3. i \in 1..Len(toPeer[p])
  BY <1>1, LenProperties DEF Deliverable
<1>4. PICK r \in Remaining(toPeer[p], i) : toPeer' = [toPeer EXCEPT ![p] = r[1]]
  BY <1>2
<1>5. r[1] = RemoveAt(toPeer[p], i)
  BY <1>1 DEF Remaining
<1>6. toPeer[p][i] \in HandshakeValue
  BY <1>1, <1>3, ElementOfSeq
<1>7. QED
  BY <1>2, <1>3, <1>4, <1>5, <1>6

LEMMA OneAtATimeGameServer ==
  ASSUME SysInv, Undisturbed, NEW p \in EndPoint, InTime(p), OneAtATime(p), GameServer(p)
  PROVE  OneAtATime(p)'
<1> DEFINE a == Count(toServer, RoundOf(p))
           b == Count(inbox, RoundOf(p))
           n == Len(toPeer[p])
<1>1. /\ a \in Nat /\ b \in Nat /\ n \in Nat /\ at[p] \in Nat /\ LastRound \in Nat
      /\ toPeer[p] \in Seq(HandshakeValue)
      /\ Sent \subseteq ServerDatagrams
  BY PunctualTypes
<1>2. SysTypeOK /\ now \in Nat /\ LastRound' = LastRound
  BY PunctualTypes DEF SysInv, LastRound
<1>3. a + b + n <= 1
  BY DEF OneAtATime, InRound
<1>4. InRound(p)' = Count(toServer', RoundOf(p)) + Count(inbox', RoundOf(p)) + Len(toPeer'[p])
  BY DEF InRound, RoundOf
<1>5. a + b = 0 <=> \A d \in Sent : d.src = p => d.type = "TERMINATE"
  BY PunctualTypes, NoneInRound DEF Sent
<1>6. Op(p) # "recvfrom" => toPeer[p] = <<>> /\ n = 0
  BY DEF OneAtATime
<1>7. CASE Keepalive(p)
  <2> DEFINE d == [type |-> "SERVERKEEPALIVE", src |-> p, arg |-> 0]
  <2>1. /\ Op(p) = "keepalive" /\ Op(p) # "exit" /\ Advance(p)
        /\ inbox' = inbox /\ toPeer' = toPeer /\ toServer' = Append(toServer, d)
    BY <1>7 DEF Keepalive, Send
  <2>2. d \in ServerDatagrams /\ d.src = p /\ d.type = "SERVERKEEPALIVE"
    BY DEF ServerDatagrams
  <2> HIDE DEF d
  <2>3. Op(p)' = "recvfrom" /\ at'[p] = at[p] + 1
    BY <1>2, <2>1, AdvanceStep
  <2>4. /\ Sent' = Sent \cup {d}
        /\ Count(toServer', RoundOf(p)) = a + 1 /\ Count(inbox', RoundOf(p)) = b
    BY <2>1, <2>2, SentSends
  <2>5. \A e \in Sent : e.src = p => e.type = "TERMINATE" /\ at[p] > LastRound
    BY <1>1, <2>1 DEF OneAtATime, ServerDatagrams
  <2>6. a + b = 0 /\ n = 0
    BY <1>5, <1>6, <2>1, <2>5
  <2>7. InRound(p)' = 1
    <3>1. InRound(p)' = a + 1 + b + n
      BY <1>4, <2>1, <2>4
    <3> HIDE DEF a, b, n
    <3>2. QED
      BY <1>1, <2>6, <3>1
  <2>8. ASSUME NEW e \in Sent', e.src = p
        PROVE  e.type = "SERVERKEEPALIVE" \/ (e.type = "TERMINATE" /\ at'[p] > LastRound)
    <3>1. e \in Sent => e.type = "TERMINATE" /\ at'[p] > LastRound
      BY <1>1, <2>3, <2>5, <2>8
    <3>2. QED
      BY <2>2, <2>4, <2>8, <3>1
  <2>9. QED
    BY <1>2, <2>3, <2>7, <2>8 DEF OneAtATime
<1>8. CASE Shake(p)
  <2>1. PICK i \in 1..n :
          /\ toPeer[p][i] \in HandshakeValue
          /\ toPeer' = [toPeer EXCEPT ![p] = RemoveAt(@, i)]
          /\ Send("SERVERSHAKE", p, toPeer[p][i])
    BY <1>8, ShakeTakes
  <2> DEFINE d == [type |-> "SERVERSHAKE", src |-> p, arg |-> toPeer[p][i]]
  <2>2. /\ Op(p) = "recvfrom" /\ Op(p) # "exit" /\ Advance(p) /\ inbox' = inbox
        /\ toServer' = Append(toServer, d)
    BY <1>8, <2>1 DEF Shake, Send
  <2>3. d \in ServerDatagrams /\ d.src = p /\ d.type = "SERVERSHAKE"
    BY <2>1 DEF ServerDatagrams
  <2> HIDE DEF d
  <2>4. Op(p)' \in {"pause", "terminate"} /\ at'[p] = at[p] + 1
    BY <1>2, <2>2, AdvanceStep
  <2>5. /\ Sent' = Sent \cup {d}
        /\ Count(toServer', RoundOf(p)) = a + 1 /\ Count(inbox', RoundOf(p)) = b
    BY <2>2, <2>3, SentSends
  <2>6. /\ toPeer'[p] = RemoveAt(toPeer[p], i)
        /\ RemoveAt(toPeer[p], i) \in Seq(HandshakeValue)
        /\ Len(RemoveAt(toPeer[p], i)) = n - 1
    BY <1>1, <1>2, <2>1, RemoveAtElements DEF SysTypeOK
  <2>7. n = 1 /\ a + b = 0
    <3> HIDE DEF a, b, n
    <3>1. QED
      BY <1>1, <1>3, <2>1
  <2>8. Len(toPeer'[p]) = 0 /\ toPeer'[p] = <<>>
    <3>1. Len(toPeer'[p]) = 0
      BY <2>6, <2>7
    <3>2. QED
      BY <2>6, <3>1, EmptySeq
  <2>9. InRound(p)' = 1
    <3>1. InRound(p)' = a + 1 + b + 0
      BY <1>4, <2>5, <2>8
    <3> HIDE DEF a, b, n
    <3>2. QED
      BY <1>1, <2>7, <3>1
  <2>10. ASSUME NEW e \in Sent', e.src = p
         PROVE  e.type = "SERVERSHAKE" \/ (e.type = "TERMINATE" /\ at'[p] > LastRound)
    <3>1. e \in Sent => e.type = "TERMINATE" /\ at[p] > LastRound
      BY <1>5, <2>7, <2>10 DEF OneAtATime
    <3>2. e \in Sent => e.type = "TERMINATE" /\ at'[p] > LastRound
      BY <1>1, <2>4, <3>1
    <3>3. QED
      BY <2>3, <2>5, <2>10, <3>2
  <2>11. QED
    BY <1>2, <2>4, <2>8, <2>9, <2>10 DEF OneAtATime
<1>9. CASE Terminate(p)
  <2> DEFINE d == [type |-> "TERMINATE", src |-> p, arg |-> 0]
  <2>1. /\ Op(p) = "terminate" /\ Op(p) # "exit" /\ Advance(p)
        /\ inbox' = inbox /\ toPeer' = toPeer /\ toServer' = Append(toServer, d)
    BY <1>9 DEF Terminate, Send
  <2>2. d \in ServerDatagrams /\ d.src = p /\ d.type = "TERMINATE"
    BY DEF ServerDatagrams
  <2> HIDE DEF d
  <2>3. Op(p)' \in {"wait", "exit"} /\ at'[p] = at[p] + 1 /\ at[p] > LastRound
    BY <1>2, <2>1, AdvanceStep
  <2>4. at'[p] > LastRound
    BY <1>1, <2>3
  <2>5. /\ Sent' = Sent \cup {d}
        /\ Count(toServer', RoundOf(p)) = a + 0 /\ Count(inbox', RoundOf(p)) = b
    BY <2>1, <2>2, SentSends
  <2>6. InRound(p)' <= 1
    <3>1. InRound(p)' = a + 0 + b + n
      BY <1>4, <2>1, <2>5
    <3> HIDE DEF a, b, n
    <3>2. QED
      BY <1>1, <1>3, <3>1
  <2>7. ASSUME NEW e \in Sent', e.src = p PROVE e.type # "SERVERKEEPALIVE"
    BY <2>1, <2>2, <2>5, <2>7 DEF OneAtATime
  <2>8. toPeer'[p] = <<>>
    BY <1>6, <2>1
  <2>9. QED
    BY <1>2, <2>3, <2>4, <2>6, <2>7, <2>8 DEF OneAtATime
<1>10. CASE Wake(p)
  <2>1. NothingUnderWay(p) /\ Sleeping(p) /\ UNCHANGED network
    BY <1>10, WakesAfterAll DEF Wake
  <2>2. Sent' = Sent /\ (\A d \in Sent : d.src # p) /\ InRound(p)' = InRound(p)
    BY <2>1, NothingIsSent DEF network, Sent, InRound
  <2>3. toPeer'[p] = <<>>
    BY <1>6, <2>1 DEF Sleeping, network
  <2>4. QED
    BY <2>2, <2>3 DEF OneAtATime
<1>11. QED
  BY <1>7, <1>8, <1>9, <1>10 DEF GameServer

LEMMA OneAtATimeServe ==
  ASSUME SysInv, Serve, NEW p \in EndPoint, OneAtATime(p)
  PROVE  OneAtATime(p)'
<1> DEFINE a == Count(toServer, RoundOf(p))
           b == Count(inbox, RoundOf(p))
           n == Len(toPeer[p])
           c == IF Head(inbox) \in RoundOf(p) THEN 1 ELSE 0
           m == Len(toPeer'[p])
<1>1. /\ a \in Nat /\ b \in Nat /\ n \in Nat /\ toPeer[p] \in Seq(HandshakeValue)
      /\ Sent \subseteq ServerDatagrams
  BY PunctualTypes
<1>2. a + b + n <= 1
  BY DEF OneAtATime, InRound
<1>3. /\ Head(inbox) \in Sent /\ Sent' \subseteq Sent
      /\ Count(toServer', RoundOf(p)) = a /\ Count(inbox', RoundOf(p)) = b - c
  BY SentServed
<1>4. InRound(p)' = a + (b - c) + m
  BY <1>3 DEF InRound, RoundOf
<1>5. at' = at /\ Op(p)' = Op(p) /\ LastRound' = LastRound
  BY DEF Serve, peers, Op, LastRound
<1>6. CASE toPeer'[p] = toPeer[p]
  <2>1. m = n /\ c \in {0, 1}
    BY <1>6
  <2>2. InRound(p)' <= 1
    <3> HIDE DEF a, b, c, m, n
    <3>1. QED
      BY <1>1, <1>2, <1>4, <2>1
  <2>3. QED
    BY <1>3, <1>5, <1>6, <2>2, OneAtATimeFewer
<1>7. CASE /\ Head(inbox).type = "SERVERKEEPALIVE" /\ Head(inbox).src = p
           /\ \E h \in HandshakeValue : toPeer'[p] = Append(toPeer[p], h)
  <2>1. Op(p) = "recvfrom" /\ c = 1
    BY <1>1, <1>3, <1>7 DEF OneAtATime, RoundOf
  <2>2. m = n + 1
    BY <1>1, <1>7, AppendElements
  <2>3. InRound(p)' <= 1
    <3> HIDE DEF a, b, c, m, n
    <3>1. QED
      BY <1>1, <1>2, <1>4, <2>1, <2>2
  <2>4. QED
    BY <1>3, <1>5, <2>1, <2>3 DEF OneAtATime
<1>8. QED
  BY <1>6, <1>7, ServeToPeer

LEMMA OneAtATimeDelivered ==
  ASSUME SysInv, Undisturbed, Deliver, NEW p \in EndPoint, OneAtATime(p)
  PROVE  OneAtATime(p)'
<1>1. /\ Sent' = Sent
      /\ Count(toServer', RoundOf(p)) + Count(inbox', RoundOf(p)) =
           Count(toServer, RoundOf(p)) + Count(inbox, RoundOf(p))
  BY SentDelivered
<1>2. at' = at /\ Op(p)' = Op(p) /\ toPeer' = toPeer
  BY DEF Deliver, peers, Op
<1>3. InRound(p)' = Count(toServer', RoundOf(p)) + Count(inbox', RoundOf(p)) + Len(toPeer'[p])
  BY DEF InRound, RoundOf
<1>4. InRound(p)' = InRound(p)
  BY <1>1, <1>2, <1>3 DEF InRound
<1>5. QED
  BY <1>1, <1>2, <1>4, OneAtATimeFewer DEF OneAtATime

-----------------------------------------------------------------------------
(* What happens to the entries on the list of servers. *)

(* A TERMINATE takes away only its sender's. *)
LEMMA EntriesTerminated ==
  ASSUME SysInv, Serve, Head(inbox).type = "TERMINATE"
  PROVE  /\ ServerEntries' \subseteq ServerEntries
         /\ \A e \in ServerEntries : e.addr # Host[Head(inbox).src] => e \in ServerEntries'
<1> DEFINE d == Head(inbox)
           c == "SERVER_LIST"
           l == lists[c]
<1>1. HandleTerminate(d)
  BY ServeReceives DEF SysInv, Receive, HandleServerKeepalive, HandleClientKeepalive,
     HandleServerShake, HandleClientShake, HandleListRequest, Ignore
<1>2. /\ c \in ListType /\ l \in Seq(Handshake)
      /\ lists \in [ListType -> Seq(Handshake)]
  BY DEF SysInv, Inv, TypeOK, ListType, ActiveList
<1>3. CASE UNCHANGED lists
  BY <1>3 DEF ServerEntries
<1>4. CASE \E i \in FindByAddr(l, SenderAddr(d)) : lists' = [lists EXCEPT ![c] = RemoveAt(@, i)]
  <2>1. PICK i \in FindByAddr(l, SenderAddr(d)) : lists' = [lists EXCEPT ![c] = RemoveAt(@, i)]
    BY <1>4
  <2>2. i \in 1..Len(l) /\ l[i].addr = Host[d.src]
    BY <1>2, <2>1, FindProperties DEF SenderAddr
  <2>3. lists'[c] = RemoveAt(l, i)
    BY <1>2, <2>1
  <2>4. /\ ToSet(RemoveAt(l, i)) \subseteq ToSet(l)
        /\ ToSet(l) = ToSet(RemoveAt(l, i)) \cup {l[i]}
    BY <1>2, <2>2, ElementsRemoved
  <2>5. ServerEntries' = ToSet(RemoveAt(l, i)) /\ ServerEntries = ToSet(l)
    BY <2>3 DEF ServerEntries
  <2> HIDE DEF l, d
  <2>6. QED
    BY <2>2, <2>4, <2>5 DEF d
<1>5. QED
  BY <1>1, <1>3, <1>4 DEF HandleTerminate

(* A SHAKE that is not bogus leaves its sender's entry, and only that, with *)
(* the time of now.                                                         *)
LEMMA EntriesShaken ==
  ASSUME SysInv, Serve, Head(inbox).type = "SERVERSHAKE"
  PROVE  \/ bogus' = bogus + 1 /\ ServerEntries' = ServerEntries
         \/ /\ bogus' = bogus
            /\ \A e \in ServerEntries' :
                 \/ e \in ServerEntries /\ e.addr # Host[Head(inbox).src]
                 \/ e.addr = Host[Head(inbox).src] /\ e.ts = now
            /\ \A e \in ServerEntries : \E f \in ServerEntries' : f.addr = e.addr
<1> DEFINE d == Head(inbox)
           c == "SERVER_LIST"
           h == "SERVER_HANDSHAKE_LIST"
           l == lists[c]
           m == lists'[c]
           a == Host[d.src]
<1>1. Receive(d) /\ d.type = "SERVERSHAKE" /\ d \in Datagrams
  BY ServeReceives, SystemAssumption DEF SysInv
<1>2. bogus' = IF FindByHS(Pending, d.arg) = {} THEN bogus + 1 ELSE bogus
  BY DEF Serve
<1>3. /\ lists \in [ListType -> Seq(Handshake)]
      /\ c \in ListType /\ h \in ListType /\ c # h /\ c \in ActiveList
      /\ l \in Seq(Handshake) /\ Pending \in Seq(Handshake)
      /\ DOMAIN l = 1..Len(l) /\ Len(l) \in Nat
      /\ ServerEntries = ToSet(l) /\ ServerEntries' = ToSet(m)
  BY LenProperties DEF SysInv, Inv, TypeOK, ListType, HandshakeList, ActiveList, Pending,
    ServerEntries
<1> HIDE DEF d
<1>4. HandleServerShake(d)
  BY <1>1 DEF Receive, HandleServerKeepalive, HandleClientKeepalive,
    HandleClientShake, HandleTerminate, HandleListRequest, Ignore
<1>5. CASE BogusShake(h, d)
  BY <1>2, <1>5 DEF BogusShake, Pending, ServerEntries
<1>6. CASE RenewActive(h, c, d)
  <2>1. PICK i \in FindByHS(lists[h], d.arg), j \in FindByAddr(l, SenderAddr(d)) :
          lists' = [lists EXCEPT ![h] = RemoveAt(@, i), ![c][j].ts = now]
    BY <1>6 DEF RenewActive
  <2>2. bogus' = bogus
    BY <1>2, <2>1 DEF Pending
  <2>3. j \in 1..Len(l) /\ l[j].addr = a
    BY <1>3, <2>1, FindProperties DEF SenderAddr
  <2>4. m = [l EXCEPT ![j] = [@ EXCEPT !.ts = now]]
    BY <1>3, <2>1
  <2>5. \A k \in 1..Len(l) : k # j => l[k].addr # a
    BY <1>3, <2>3 DEF SysInv, Inv, UniqueActive
  <2>6. l[j] \in Handshake
    BY <1>3, <2>3, ElementOfSeq
  <2> HIDE DEF l, m, a
  <2>7. /\ DOMAIN m = 1..Len(l)
        /\ m[j].addr = a /\ m[j].ts = now
        /\ \A k \in 1..Len(l) : k # j => m[k] = l[k]
    BY <1>3, <2>3, <2>4, <2>6 DEF Handshake
  <2>8. ASSUME NEW e \in ToSet(m)
        PROVE  (e \in ToSet(l) /\ e.addr # a) \/ (e.addr = a /\ e.ts = now)
    <3>1. PICK k \in 1..Len(l) : e = m[k]
      BY <2>7 DEF ToSet
    <3>2. QED
      BY <1>3, <2>5, <2>7, <3>1 DEF ToSet
  <2>9. ASSUME NEW e \in ToSet(l) PROVE \E f \in ToSet(m) : f.addr = e.addr
    <3>1. PICK k \in 1..Len(l) : e = l[k]
      BY <1>3 DEF ToSet
    <3>2. m[k] \in ToSet(m) /\ m[k].addr = l[k].addr
      BY <2>3, <2>7 DEF ToSet
    <3>3. QED
      BY <3>1, <3>2
  <2>10. QED
    BY <1>3, <2>2, <2>8, <2>9 DEF a, d
<1>7. CASE EnlistActive(h, c, d)
  <2>1. PICK i \in FindByHS(lists[h], d.arg) :
          lists' = [lists EXCEPT ![h] = RemoveAt(@, i),
                                 ![c] = Append(@, Entry(SenderAddr(d), 0, now))]
    BY <1>7 DEF EnlistActive
  <2>2. bogus' = bogus
    BY <1>2, <2>1 DEF Pending
  <2>3. m = Append(l, Entry(a, 0, now))
    BY <1>3, <2>1 DEF SenderAddr
  <2>4. Entry(a, 0, now) \in Handshake
    <3>1. now \in Nat
      BY PunctualTypes
    <3>2. a \in Addr
      BY <1>1, MetaserverAssumption DEF Datagram
    <3>3. QED
      BY <3>1, <3>2 DEF Entry, Handshake
  <2>5. ToSet(m) = ToSet(l) \cup {Entry(a, 0, now)}
    BY <1>3, <2>3, <2>4, ElementsAppend
  <2>6. \A e \in ToSet(l) : e.addr # a
    <3>1. FindByAddr(l, SenderAddr(d)) = {}
      BY <1>7 DEF EnlistActive
    <3>2. SenderAddr(d) \notin AddrsOf(l)
      BY <1>3, <3>1, FindProperties
    <3>3. QED
      BY <3>2 DEF SenderAddr, AddrsOf, ToSet
  <2>7. Entry(a, 0, now).addr = a /\ Entry(a, 0, now).ts = now
    BY DEF Entry
  <2>8. QED
    <3> HIDE DEF l, m, a
    <3>1. QED
      BY <1>3, <2>2, <2>5, <2>6, <2>7 DEF a, d
<1>8. QED
  BY <1>4, <1>5, <1>6, <1>7 DEF HandleServerShake

(* A sweep takes away only what is stale. *)
LEMMA EntriesSwept ==
  ASSUME SysInv, Housekeep
  PROVE  /\ ServerEntries' \subseteq ServerEntries
         /\ \A e \in ServerEntries : ~Stale(e) => e \in ServerEntries'
<1> DEFINE l == lists["SERVER_LIST"]
<1>1. l \in Seq(Handshake) /\ "SERVER_LIST" \in ListType
  BY PunctualTypes DEF ListType, ActiveList
<1>2. \/ Same("SERVER_LIST")
      \/ \E i \in 1..Len(l) : lists'["SERVER_LIST"] = RemoveAt(l, i) /\ Stale(l[i])
  BY <1>1, HousekeepErases DEF SysInv
<1>3. CASE Same("SERVER_LIST")
  BY <1>3 DEF Same, ServerEntries
<1>4. CASE \E i \in 1..Len(l) : lists'["SERVER_LIST"] = RemoveAt(l, i) /\ Stale(l[i])
  <2>1. PICK i \in 1..Len(l) : lists'["SERVER_LIST"] = RemoveAt(l, i) /\ Stale(l[i])
    BY <1>4
  <2>2. /\ ToSet(RemoveAt(l, i)) \subseteq ToSet(l)
        /\ ToSet(l) = ToSet(RemoveAt(l, i)) \cup {l[i]}
    BY <1>1, ElementsRemoved
  <2>3. ServerEntries' = ToSet(RemoveAt(l, i)) /\ ServerEntries = ToSet(l)
    BY <2>1 DEF ServerEntries
  <2>4. QED
    BY <2>1, <2>2, <2>3
<1>5. QED
  BY <1>2, <1>3, <1>4

-----------------------------------------------------------------------------
(* Lease. *)

(* No sleep of a round is a long wait. *)
LEMMA PausesInRounds ==
  ASSUME SysInv, NEW p \in EndPoint, at[p] <= LastRound, Sleeping(p)
  PROVE  Op(p) = "pause"
<1>1. at[p] \in 1..(Len(Script) + 1) /\ Len(Script) \in Nat
  BY ScriptTail DEF SysInv, SysTypeOK
<1>2. CASE at[p] <= Len(Script)
  <2>1. at[p] \in 1..Len(Script) /\ Op(p) = Script[at[p]]
    BY <1>1, <1>2 DEF Op
  <2>2. QED
    BY <2>1, ScriptOps DEF Sleeping
<1>3. CASE ~(at[p] <= Len(Script))
  BY <1>3 DEF Op, Sleeping
<1>4. QED
  BY <1>2, <1>3

(* A SHAKE finds its pending handshake. *)
LEMMA ShakesAccepted ==
  ASSUME SysInv, PunctualInv, Serve, Head(inbox).type = "SERVERSHAKE"
  PROVE  bogus' = bogus
<1> DEFINE d == Head(inbox)
           v == d.arg
<1>1. d \in Sent /\ d \in ServerDatagrams
  BY SentServed, PunctualTypes
<1>2. d.src \in EndPoint /\ v \in HandshakeValue
      /\ d = [type |-> "SERVERSHAKE", src |-> d.src, arg |-> v]
  BY <1>1 DEF ServerDatagrams
<1>3. 0 \in 0..MaxTime /\ RoundTime \in Nat /\ due[d.src] \in Nat /\ MaxTime \in Nat
      /\ Pending \in Seq(Handshake)
  BY <1>2, PunctualTypes
<1>4. d.src \in Holders(v, 0)
  <2>1. due[d.src] >= 0 + RoundTime
    BY <1>2, <1>3 DEF PunctualInv, InTime
  <2>2. QED
    BY <1>1, <1>2, <2>1 DEF Holders, Holds
<1> DEFINE H == Holders(v, 0)
<1>5. IsFiniteSet(H) /\ Cardinality(H) <= Count(Pending, Fresh(v, 0))
  BY <1>2, <1>3 DEF PunctualInv, Matched
<1>6. Cardinality(H) \in Nat /\ Cardinality(H) # 0
  <2>1. H # {}
    BY <1>4
  <2> HIDE DEF H, d
  <2>2. QED
    BY <1>5, <2>1, FS_EmptySet, FS_CardinalityType
<1>7. Count(Pending, Fresh(v, 0)) # 0
  <2>1. Count(Pending, Fresh(v, 0)) \in Nat
    BY <1>3, CountType
  <2> HIDE DEF H, d
  <2>2. QED
    BY <1>5, <1>6, <2>1
<1>8. PICK e \in ToSet(Pending) : e.hs = v
  <2>1. ToSet(Pending) \cap Fresh(v, 0) # {}
    BY <1>3, <1>7, CountZero
  <2>2. QED
    BY <2>1 DEF Fresh
<1>9. \E i \in DOMAIN Pending : Pending[i].hs = v
  BY <1>8 DEF ToSet
<1>10. QED
  BY <1>9, ServeShakes DEF SysInv, Inv

(* It concerns only the game server itself and its entry.                  *)
LEMMA LeaseSame ==
  ASSUME NEW p \in EndPoint, Lease(p),
         at'[p] = at[p], until'[p] = until[p], due'[p] = due[p], Op(p)' = Op(p),
         exited \subseteq exited', NothingUnderWay(p)' <=> NothingUnderWay(p),
         \A e \in ServerEntries' : e.addr = Host[p] => e \in ServerEntries
  PROVE  Lease(p)'
<1>1. LastRound' = LastRound /\ (Sleeping(p)' <=> Sleeping(p))
  BY DEF LastRound, Sleeping
<1>2. QED
  BY <1>1 DEF Lease

LEMMA LeaseGameServer ==
  ASSUME SysInv, Undisturbed, NEW p \in EndPoint, InTime(p), OneAtATime(p), Lease(p),
         GameServer(p), InTime(p)'
  PROVE  Lease(p)'
<1>1. /\ now \in Nat /\ until[p] \in Nat /\ due[p] \in Nat /\ at[p] \in Nat
      /\ RoundTime \in Nat /\ Pause \in Nat /\ LastRound \in Nat
      /\ \A e \in ServerEntries : e.ts \in Nat
  BY PunctualTypes DEF Handshake
<1>2. /\ SysTypeOK /\ p \notin exited /\ LastRound' = LastRound
      /\ ServerEntries' = ServerEntries
  BY DEF SysInv, GameServer, LastRound, ServerEntries, Keepalive, Shake, Terminate, Wake,
    vars, dataVars
<1>3. SUFFICES ASSUME at'[p] <= LastRound, NEW e \in ServerEntries, e.addr = Host[p]
               PROVE  IF (Sleeping(p) /\ NothingUnderWay(p))' THEN until'[p] <= e.ts + Pause
                      ELSE due'[p] <= e.ts + Pause + RoundTime
  BY <1>2 DEF Lease
<1>4. CASE Keepalive(p) \/ Shake(p)
  <2>1. Op(p) \in {"keepalive", "recvfrom"} /\ ~Sleeping(p) /\ Op(p) # "exit" /\ Advance(p)
    BY <1>4 DEF Keepalive, Shake, Sleeping
  <2>2. due'[p] = due[p] /\ at[p] <= LastRound
    BY <1>1, <1>2, <1>3, <2>1, AdvanceStep
  <2>3. due[p] <= e.ts + Pause + RoundTime
    BY <1>2, <1>3, <2>1, <2>2 DEF Lease
  <2>4. ~(Sleeping(p) /\ NothingUnderWay(p))'
    <3>1. CASE Keepalive(p)
      <4>1. Op(p)' = "recvfrom"
        BY <1>1, <1>2, <2>1, <3>1, AdvanceStep DEF Keepalive
      <4>2. QED
        BY <4>1 DEF Sleeping
    <3>2. CASE Shake(p)
      <4>1. PICK i \in 1..Len(toPeer[p]) :
              toPeer[p][i] \in HandshakeValue /\ Send("SERVERSHAKE", p, toPeer[p][i])
        BY <3>2, ShakeTakes
      <4> DEFINE d == [type |-> "SERVERSHAKE", src |-> p, arg |-> toPeer[p][i]]
      <4>2. /\ d \in ServerDatagrams /\ d.src = p /\ toServer' = Append(toServer, d)
            /\ inbox' = inbox
        BY <3>2, <4>1 DEF ServerDatagrams, Send, Shake
      <4> HIDE DEF d
      <4>3. d \in Sent'
        BY <4>2, SentSends
      <4>4. NothingUnderWay(p)' <=> \A f \in Sent' : f.src # p
        BY DEF NothingUnderWay, Sent, ToSet
      <4>5. QED
        BY <4>2, <4>3, <4>4
    <3>3. QED
      BY <1>4, <3>1, <3>2
  <2>5. QED
    BY <2>2, <2>3, <2>4
<1>5. CASE Terminate(p)
  <2>1. Op(p) = "terminate" /\ Op(p) # "exit" /\ Advance(p)
    BY <1>5 DEF Terminate
  <2>2. at[p] > LastRound /\ at[p] <= LastRound
    BY <1>1, <1>2, <1>3, <2>1, AdvanceStep
  <2>3. QED
    BY <1>1, <2>2
<1>6. CASE Wake(p)
  <2>1. Sleeping(p) /\ Op(p) # "exit" /\ Advance(p) /\ NothingUnderWay(p)
    BY <1>6, WakesAfterAll DEF Wake, Sleeping
  <2>2. due'[p] = until[p] + RoundTime /\ at[p] <= LastRound /\ Op(p)' = "keepalive"
    BY <1>1, <1>2, <1>3, <2>1, AdvanceStep
  <2>3. until[p] <= e.ts + Pause
    BY <1>2, <1>3, <2>1, <2>2 DEF Lease
  <2>4. due'[p] <= e.ts + Pause + RoundTime
    BY <1>1, <2>2, <2>3
  <2>5. ~Sleeping(p)'
    BY <2>2 DEF Sleeping
  <2>6. QED
    BY <2>4, <2>5
<1>7. QED
  BY <1>4, <1>5, <1>6 DEF GameServer

LEMMA LeaseServe ==
  ASSUME SysInv, Undisturbed, PunctualInv, Serve, NEW p \in EndPoint
  PROVE  Lease(p)'
<1>1. /\ Head(inbox) \in ServerDatagrams /\ Head(inbox) \in Sent
      /\ Head(inbox).src \in EndPoint
      /\ Head(inbox).type \in {"SERVERKEEPALIVE", "TERMINATE", "SERVERSHAKE"}
  BY SentServed, PunctualTypes DEF ServerDatagrams
<1>2. /\ UNCHANGED <<at, until, due, exited, now>> /\ Op(p)' = Op(p)
      /\ LastRound' = LastRound /\ (Sleeping(p)' <=> Sleeping(p))
  BY DEF Serve, peers, Op, LastRound, Sleeping, Receive
<1>3. InTime(p) /\ OneAtATime(p) /\ Lease(p)
  BY DEF PunctualInv
<1>4. Head(inbox).src # p => Host[Head(inbox).src] # Host[p]
  BY <1>1 DEF Undisturbed, OwnHosts
<1>5. Head(inbox).src # p => (NothingUnderWay(p)' <=> NothingUnderWay(p))
  BY SentServed
<1>6. CASE Head(inbox).src = p
  <2>1. ~NothingUnderWay(p)
    BY <1>1, <1>6, NothingIsSent
  <2>2. SUFFICES ASSUME at[p] <= LastRound, p \notin exited,
                        NEW e \in ServerEntries', e.addr = Host[p]
                 PROVE  IF Sleeping(p) /\ NothingUnderWay(p)' THEN until[p] <= e.ts + Pause
                        ELSE due[p] <= e.ts + Pause + RoundTime
    BY <1>2 DEF Lease
  <2>3. CASE Head(inbox).type = "SERVERKEEPALIVE"
    <3>1. ServerEntries' = ServerEntries
      BY <2>3, ServeIssues DEF SysInv, Inv, ServerEntries
    <3>2. ~Sleeping(p)
      BY <1>1, <1>3, <1>6, <2>3 DEF OneAtATime, Sleeping
    <3>3. QED
      BY <1>3, <2>2, <3>1, <3>2 DEF Lease
  <2>4. CASE Head(inbox).type = "TERMINATE"
    <3>1. at[p] > LastRound /\ at[p] \in Nat /\ LastRound \in Nat
      BY <1>1, <1>3, <1>6, <2>4, PunctualTypes DEF OneAtATime
    <3>2. QED
      BY <2>2, <3>1
  <2>5. CASE Head(inbox).type = "SERVERSHAKE"
    <3>1. bogus' = bogus /\ bogus \in Nat
      BY <2>5, ShakesAccepted DEF SysInv, SysTypeOK
    <3>2. bogus' # bogus + 1
      BY <3>1
    <3>3. e.ts = now
      BY <1>6, <2>2, <2>5, <3>2, EntriesShaken
    <3>4. Sleeping(p) => until[p] <= now + Pause
      BY <1>3, <2>2, PausesInRounds DEF InTime
    <3>5. due[p] <= now + Pause + RoundTime
      BY <1>3, <2>2 DEF InTime
    <3>6. QED
      BY <3>3, <3>4, <3>5
  <2>6. QED
    BY <1>1, <2>3, <2>4, <2>5
<1>7. CASE Head(inbox).src # p
  <2>1. \A e \in ServerEntries' : e.addr = Host[p] => e \in ServerEntries
    <3>1. CASE Head(inbox).type = "SERVERKEEPALIVE"
      BY <3>1, ServeIssues DEF SysInv, Inv, ServerEntries
    <3>2. CASE Head(inbox).type = "TERMINATE"
      BY <3>2, EntriesTerminated
    <3>3. CASE Head(inbox).type = "SERVERSHAKE"
      BY <1>4, <1>7, <3>3, EntriesShaken
    <3>4. QED
      BY <1>1, <3>1, <3>2, <3>3
  <2>2. QED
    BY <1>2, <1>3, <1>5, <1>7, <2>1, LeaseSame
<1>8. QED
  BY <1>6, <1>7

-----------------------------------------------------------------------------
(* Matched. *)

(* Who holds nothing more needs no more pending handshakes. *)
LEMMA MatchedFewer ==
  ASSUME SysInv, Matched, Pending' = Pending,
         \A v \in HandshakeValue, t \in 0..MaxTime : Holders(v, t)' \subseteq Holders(v, t)
  PROVE  Matched'
<1>1. ASSUME NEW v \in HandshakeValue, NEW t \in 0..MaxTime
      PROVE  /\ IsFiniteSet(Holders(v, t)')
             /\ Cardinality(Holders(v, t)') <= Count(Pending', Fresh(v, t))
  <2> DEFINE G == Holders(v, t)
             H == Holders(v, t)'
             n == Count(Pending, Fresh(v, t))
  <2>1. IsFiniteSet(G) /\ Cardinality(G) <= n /\ H \subseteq G
    BY DEF Matched
  <2>2. n \in Nat
    BY PunctualTypes, CountType
  <2> HIDE DEF G, H, n
  <2>3. IsFiniteSet(H) /\ Cardinality(H) <= Cardinality(G)
    BY <2>1, FS_Subset
  <2>4. Cardinality(H) \in Nat /\ Cardinality(G) \in Nat
    BY <2>1, <2>3, FS_CardinalityType
  <2>5. QED
    <3>1. IsFiniteSet(H) /\ Cardinality(H) <= n
      BY <2>1, <2>2, <2>3, <2>4
    <3>2. QED
      BY <3>1 DEF H, n
<1>2. QED
  BY <1>1 DEF Matched, Fresh

(* So it is while nothing is sent, and when who exits sends no more. *)
LEMMA HoldersSame ==
  ASSUME exited \subseteq exited', due' = due, toPeer' = toPeer, Sent' \subseteq Sent,
         NEW v, NEW t
  PROVE  Holders(v, t)' \subseteq Holders(v, t)
BY DEF Holders, Holds

LEMMA MatchedGameServer ==
  ASSUME SysInv, Undisturbed, PunctualInv, NEW p \in EndPoint, GameServer(p)
  PROVE  Matched'
<1>1. InTime(p) /\ OneAtATime(p) /\ Matched /\ SysTypeOK /\ now \in Nat
  BY PunctualTypes DEF PunctualInv, SysInv
<1>2. Pending' = Pending
  BY DEF GameServer, Keepalive, Shake, Terminate, Wake, vars, dataVars, Pending
<1>3. SUFFICES ASSUME NEW v, NEW t, NEW q \in Holders(v, t)' PROVE q \in Holders(v, t)
  BY <1>1, <1>2, MatchedFewer
<1> DEFINE d == [type |-> "SERVERSHAKE", src |-> q, arg |-> v]
<1>4. /\ q \in EndPoint /\ due'[q] >= t + RoundTime
      /\ (q \notin exited' /\ v \in ToSet(toPeer'[q])) \/ d \in Sent'
  BY <1>3 DEF Holders, Holds
<1>5. SUFFICES /\ due'[q] = due[q]
               /\ (q \notin exited /\ v \in ToSet(toPeer[q])) \/ d \in Sent
  BY <1>4 DEF Holders, Holds
<1>6. d.src = q /\ d.type = "SERVERSHAKE" /\ d.arg = v
  OBVIOUS
<1> HIDE DEF d
<1>7. CASE q # p
  BY <1>4, <1>6, <1>7, OtherGameServer
<1>8. CASE q = p
  <2>1. exited' = exited
    BY DEF GameServer, Keepalive, Shake, Terminate, Wake, Advance
  <2>2. CASE Keepalive(p) \/ Terminate(p)
    <3>1. /\ Op(p) \in {"keepalive", "terminate"} /\ Op(p) # "exit" /\ ~Sleeping(p)
          /\ Advance(p) /\ toPeer' = toPeer /\ inbox' = inbox
      BY <2>2 DEF Keepalive, Terminate, Sleeping
    <3>2. due'[p] = due[p]
      BY <1>1, <3>1, AdvanceStep
    <3>3. PICK e \in ServerDatagrams : /\ e.src = p /\ e.type # "SERVERSHAKE"
                                       /\ toServer' = Append(toServer, e)
      <4>1. /\ [type |-> "SERVERKEEPALIVE", src |-> p, arg |-> 0] \in ServerDatagrams
            /\ [type |-> "TERMINATE", src |-> p, arg |-> 0] \in ServerDatagrams
        BY DEF ServerDatagrams
      <4>2. QED
        BY <2>2, <4>1 DEF Keepalive, Terminate, Send
    <3>4. Sent' = Sent \cup {e}
      BY <3>1, <3>3, SentSends
    <3>5. QED
      BY <1>4, <1>6, <1>8, <2>1, <3>1, <3>2, <3>3, <3>4
  <2>3. CASE Shake(p)
    <3>1. PICK i \in 1..Len(toPeer[p]) :
            /\ toPeer[p][i] \in HandshakeValue
            /\ toPeer' = [toPeer EXCEPT ![p] = RemoveAt(@, i)]
            /\ Send("SERVERSHAKE", p, toPeer[p][i])
      BY <2>3, ShakeTakes
    <3> DEFINE e == [type |-> "SERVERSHAKE", src |-> p, arg |-> toPeer[p][i]]
    <3>2. /\ e \in ServerDatagrams /\ e.src = p /\ e.arg = toPeer[p][i]
          /\ toServer' = Append(toServer, e) /\ inbox' = inbox
      BY <2>3, <3>1 DEF ServerDatagrams, Send, Shake
    <3> HIDE DEF e
    <3>3. Sent' = Sent \cup {e}
      BY <3>2, SentSends
    <3>4. Op(p) = "recvfrom" /\ Op(p) # "exit" /\ ~Sleeping(p) /\ Advance(p)
      BY <2>3 DEF Shake, Sleeping
    <3>5. due'[p] = due[p]
      BY <1>1, <3>4, AdvanceStep
    <3>6. /\ ToSet(toPeer'[p]) \subseteq ToSet(toPeer[p])
          /\ toPeer[p][i] \in ToSet(toPeer[p])
      <4>1. toPeer[p] \in Seq(HandshakeValue) /\ toPeer'[p] = RemoveAt(toPeer[p], i)
        BY <1>1, <3>1 DEF SysTypeOK
      <4>2. QED
        BY <4>1, ElementsRemoved
    <3>7. p \notin exited
      BY DEF GameServer
    <3>8. CASE d \in Sent'
      BY <1>6, <1>8, <3>2, <3>3, <3>5, <3>6, <3>7, <3>8
    <3>9. CASE v \in ToSet(toPeer'[q])
      BY <1>8, <3>5, <3>6, <3>7, <3>9
    <3>10. QED
      BY <1>4, <3>8, <3>9
  <2>4. CASE Wake(p)
    <3>1. NothingUnderWay(p) /\ UNCHANGED network /\ Sleeping(p)
      BY <1>1, <2>4, WakesAfterAll DEF Wake
    <3>2. toPeer'[p] = <<>> /\ Sent' = Sent
      BY <1>1, <3>1 DEF OneAtATime, Sleeping, network, Sent
    <3>3. v \notin ToSet(toPeer'[p])
      BY <3>2 DEF ToSet
    <3>4. d \notin Sent'
      BY <1>6, <1>8, <3>1, <3>2, NothingIsSent
    <3>5. QED
      BY <1>4, <1>8, <3>3, <3>4
  <2>5. QED
    BY <2>2, <2>3, <2>4 DEF GameServer
<1>9. QED
  BY <1>7, <1>8

LEMMA MatchedTerminated ==
  ASSUME SysInv, Matched, Serve, Head(inbox).type = "TERMINATE"
  PROVE  Matched' /\ Pending' = Pending
<1>1. /\ lists \in [ListType -> Seq(Handshake)]
      /\ "SERVER_HANDSHAKE_LIST" \in ListType /\ "SERVER_LIST" \in ListType
  BY DEF SysInv, Inv, TypeOK, ListType, HandshakeList, ActiveList
<1>2. HandleTerminate(Head(inbox))
  BY ServeReceives DEF SysInv, Receive, HandleServerKeepalive, HandleClientKeepalive,
     HandleServerShake, HandleClientShake, HandleListRequest, Ignore
<1>3. Pending' = Pending
  BY <1>1, <1>2 DEF HandleTerminate, Pending
<1>4. toPeer' = toPeer
  BY <1>2 DEF Serve, HandleTerminate
<1>5. \A v, t : Holders(v, t)' \subseteq Holders(v, t)
  BY <1>4, SentServed, HoldersSame DEF Serve, peers
<1>6. QED
  BY <1>3, <1>5, MatchedFewer

(* The handshake a KEEPALIVE gets has its entry, which is not older than   *)
(* the round.                                                              *)
LEMMA MatchedIssued ==
  ASSUME SysInv, PunctualInv, Serve, Head(inbox).type = "SERVERKEEPALIVE"
  PROVE  Matched'
<1> DEFINE p == Head(inbox).src
<1>1. p \in EndPoint /\ p \in DOMAIN toPeer /\ toPeer[p] \in Seq(HandshakeValue)
  <2>1. Head(inbox) \in ServerDatagrams
    BY SentServed, PunctualTypes
  <2>2. p \in EndPoint
    BY <2>1 DEF ServerDatagrams
  <2>3. QED
    BY <2>2 DEF SysInv, SysTypeOK
<1>2. PICK h \in HandshakeValue :
        /\ Pending' = Append(Pending, Entry(Host[p], h, now))
        /\ Entry(Host[p], h, now) \in Handshake
        /\ \/ toPeer' = toPeer
           \/ toPeer' = [toPeer EXCEPT ![p] = Append(@, h)]
  BY ServeIssues DEF SysInv, Inv
<1> DEFINE e == Entry(Host[p], h, now)
<1>3. Sent' \subseteq Sent /\ UNCHANGED <<due, exited>>
  BY SentServed DEF Serve, peers
<1>4. /\ Pending \in Seq(Handshake) /\ e \in Handshake /\ Pending' = Append(Pending, e)
      /\ e.hs = h /\ e.ts = now
  BY <1>2, PunctualTypes DEF Entry
<1> HIDE DEF e, p
<1>5. ASSUME NEW v \in HandshakeValue, NEW t \in 0..MaxTime
      PROVE  /\ IsFiniteSet(Holders(v, t)')
             /\ Cardinality(Holders(v, t)') <= Count(Pending', Fresh(v, t))
  <2> DEFINE G == Holders(v, t)
             H == Holders(v, t)'
             n == Count(Pending, Fresh(v, t))
             k == Count(Pending', Fresh(v, t))
  <2>1. IsFiniteSet(G) /\ Cardinality(G) <= n
    BY DEF PunctualInv, Matched
  <2>2. Cardinality(G) \in Nat /\ n \in Nat
    BY <1>4, <2>1, CountType, FS_CardinalityType
  <2>3. k = n + (IF e \in Fresh(v, t) THEN 1 ELSE 0)
    BY <1>4, CountAppend
  <2>4. CASE H \subseteq G
    <3> HIDE DEF G, H, n, k
    <3>1. IsFiniteSet(H) /\ Cardinality(H) <= Cardinality(G)
      BY <2>1, <2>4, FS_Subset
    <3>2. Cardinality(H) \in Nat
      BY <3>1, FS_CardinalityType
    <3>3. IsFiniteSet(H) /\ Cardinality(H) <= k
      BY <2>1, <2>2, <2>3, <3>1, <3>2
    <3>4. QED
      BY <3>3 DEF H, k
  <2>5. CASE ~(H \subseteq G)
    <3>1. PICK q \in H : q \notin G
      BY <2>5
    <3>2. toPeer' = [toPeer EXCEPT ![p] = Append(@, h)]
      BY <1>2, <1>3, <3>1 DEF Holders, Holds
    <3>3. \A x \in H : x \in G \/ (x = p /\ v = h)
      <4>1. ToSet(toPeer'[p]) = ToSet(toPeer[p]) \cup {h}
        BY <1>1, <3>2, ElementsAppend
      <4>2. \A x \in EndPoint : x # p => toPeer'[x] = toPeer[x]
        BY <3>2 DEF SysInv, SysTypeOK
      <4>3. ASSUME NEW x \in H, x \notin G PROVE x = p /\ v = h
        <5>1. /\ x \in EndPoint /\ due[x] >= t + RoundTime /\ ~Holds(x, v)
              /\ (x \notin exited /\ v \in ToSet(toPeer'[x]))
                   \/ [type |-> "SERVERSHAKE", src |-> x, arg |-> v] \in Sent'
          BY <1>3, <4>3 DEF Holders, Holds
        <5>2. v \in ToSet(toPeer'[x]) /\ v \notin ToSet(toPeer[x])
          BY <1>3, <5>1 DEF Holds
        <5>3. QED
          BY <4>1, <4>2, <5>1, <5>2
      <4> HIDE DEF G, H
      <4>4. QED
        BY <4>3
    <3>4. q = p /\ v = h /\ H \subseteq G \cup {p}
      BY <3>1, <3>3
    <3>5. t <= now
      <4>1. due[p] >= t + RoundTime
        BY <1>3, <3>1, <3>4 DEF Holders
      <4>2. due[p] <= now + RoundTime \/ now = MaxTime
        BY <1>1 DEF PunctualInv, InTime
      <4>3. /\ now \in Nat /\ RoundTime \in Nat /\ due[p] \in Nat /\ MaxTime \in Nat
            /\ t \in Nat /\ t <= MaxTime
        BY <1>1, PunctualTypes
      <4>4. QED
        BY <4>1, <4>2, <4>3
    <3>6. e \in Fresh(v, t)
      BY <1>4, <3>4, <3>5 DEF Fresh
    <3> HIDE DEF G, H, n, k
    <3>7. IsFiniteSet(G \cup {p}) /\ Cardinality(G \cup {p}) <= Cardinality(G) + 1
      <4>1. /\ IsFiniteSet(G \cup {p})
            /\ Cardinality(G \cup {p}) =
                 IF p \in G THEN Cardinality(G) ELSE Cardinality(G) + 1
        BY <2>1, FS_AddElement
      <4>2. QED
        BY <2>2, <4>1
    <3>8. IsFiniteSet(H) /\ Cardinality(H) <= Cardinality(G \cup {p})
      BY <3>4, <3>7, FS_Subset
    <3>9. Cardinality(H) \in Nat /\ Cardinality(G \cup {p}) \in Nat
      BY <3>7, <3>8, FS_CardinalityType
    <3>10. Cardinality(H) <= k
      BY <2>1, <2>2, <2>3, <3>6, <3>7, <3>8, <3>9
    <3>11. QED
      BY <3>8, <3>10 DEF H, k
  <2>6. QED
    BY <2>4, <2>5
<1>6. QED
  BY <1>5 DEF Matched, Fresh

(* A SHAKE takes the oldest entry with its value, and its sender holds it  *)
(* no longer.                                                              *)
LEMMA MatchedShaken ==
  ASSUME SysInv, PunctualInv, Serve, Head(inbox).type = "SERVERSHAKE"
  PROVE  Matched'
<1> DEFINE d == Head(inbox)
<1>1. d \in Sent /\ d \in ServerDatagrams /\ d.type = "SERVERSHAKE"
  BY SentServed, PunctualTypes
<1>2. PICK p \in EndPoint, a \in HandshakeValue :
        d = [type |-> "SERVERSHAKE", src |-> p, arg |-> a]
  BY <1>1 DEF ServerDatagrams
<1>3. Sent' \subseteq Sent /\ UNCHANGED <<due, exited>> /\ toPeer' = toPeer
  BY SentServed, ServeShakes DEF Serve, peers, SysInv, Inv
<1>4. \A v, t : Holders(v, t)' \subseteq Holders(v, t)
  BY <1>3, HoldersSame
<1>5. Matched /\ Sorted /\ Pending \in Seq(Handshake)
  BY PunctualTypes DEF PunctualInv
<1>6. CASE Pending' = Pending
  BY <1>4, <1>5, <1>6, MatchedFewer
<1>7. \A t : p \notin Holders(a, t)'
  <2>1. /\ toServer \in Seq(ServerDatagrams) /\ inbox \in Seq(ServerDatagrams)
        /\ Count(toServer, RoundOf(p)) \in Nat /\ Count(inbox, RoundOf(p)) \in Nat
        /\ Len(toPeer[p]) \in Nat /\ toPeer[p] \in Seq(HandshakeValue)
    BY <1>2, PunctualTypes
  <2>2. Count(toServer, RoundOf(p)) + Count(inbox, RoundOf(p)) + Len(toPeer[p]) <= 1
    BY <1>2 DEF PunctualInv, OneAtATime, InRound
  <2>3. d \in RoundOf(p)
    BY <1>1, <1>2 DEF RoundOf
  <2>4. inbox # <<>> /\ inbox' = Tail(inbox) /\ toServer' = toServer
    BY DEF Serve
  <2>5. /\ Count(inbox', RoundOf(p)) \in Nat
        /\ Count(inbox', RoundOf(p)) = Count(inbox, RoundOf(p)) - 1
    BY <2>1, <2>3, <2>4, CountTail
  <2>6. /\ Count(toServer', RoundOf(p)) + Count(inbox', RoundOf(p)) = 0
        /\ Len(toPeer[p]) = 0
    BY <2>1, <2>2, <2>4, <2>5
  <2>7. toServer' \in Seq(ServerDatagrams) /\ inbox' \in Seq(ServerDatagrams)
    BY <2>1, <2>4, HeadTailProperties
  <2>8. \A e \in Sent' : e.src = p => e.type = "TERMINATE"
    BY <2>6, <2>7, NoneInRound DEF Sent
  <2>9. [type |-> "SERVERSHAKE", src |-> p, arg |-> a] \notin Sent'
    BY <2>8
  <2>10. a \notin ToSet(toPeer'[p])
    <3>1. toPeer[p] = <<>>
      BY <2>1, <2>6, EmptySeq
    <3>2. QED
      BY <1>3, <3>1 DEF ToSet
  <2> HIDE DEF d
  <2>11. QED
    BY <2>9, <2>10 DEF Holders, Holds
<1>8. CASE \E i \in 1..Len(Pending) :
             /\ Pending[i].hs = a
             /\ \A j \in 1..(i - 1) : Pending[j].hs # a
             /\ Pending' = RemoveAt(Pending, i)
  <2>1. PICK i \in 1..Len(Pending) :
             /\ Pending[i].hs = a
             /\ \A j \in 1..(i - 1) : Pending[j].hs # a
             /\ Pending' = RemoveAt(Pending, i)
    BY <1>8
  <2>2. p \in Holders(a, 0)
    <3>1. due[p] >= 0 + RoundTime
      BY <1>2, PunctualTypes DEF PunctualInv, InTime
    <3>2. QED
      BY <1>1, <1>2, <3>1 DEF Holders, Holds
  <2> HIDE DEF d
  <2>3. ASSUME NEW v \in HandshakeValue, NEW t \in 0..MaxTime
        PROVE  /\ IsFiniteSet(Holders(v, t)')
               /\ Cardinality(Holders(v, t)') <= Count(Pending', Fresh(v, t))
    <3> DEFINE G == Holders(v, t)
               H == Holders(v, t)'
               n == Count(Pending, Fresh(v, t))
               k == Count(Pending', Fresh(v, t))
    <3>1. IsFiniteSet(G) /\ Cardinality(G) <= n /\ H \subseteq G
      BY <1>4, <1>5 DEF Matched
    <3>2. /\ n \in Nat /\ k \in Nat
          /\ k = n - (IF Pending[i] \in Fresh(v, t) THEN 1 ELSE 0)
      BY <1>5, <2>1, CountRemoved
    <3>3. IsFiniteSet(H)
      <4> HIDE DEF G, H
      <4>1. QED
        BY <3>1, FS_Subset
    <3>4. CASE Pending[i] \notin Fresh(v, t)
      <4> HIDE DEF G, H, n, k
      <4>1. Cardinality(H) <= Cardinality(G)
        BY <3>1, FS_Subset
      <4>2. Cardinality(H) \in Nat /\ Cardinality(G) \in Nat
        BY <3>1, <3>3, FS_CardinalityType
      <4>3. Cardinality(H) <= k
        BY <3>1, <3>2, <3>4, <4>1, <4>2
      <4>4. QED
        BY <3>3, <4>3 DEF H, k
    <3>5. CASE Pending[i] \in Fresh(v, t)
      <4> DEFINE F == Holders(a, 0)
      <4>1. v = a /\ Pending[i].ts >= t
        BY <2>1, <3>5 DEF Fresh
      <4>2. Places(Pending, Fresh(v, t)) = Places(Pending, Fresh(a, 0))
        <5>1. DOMAIN Pending = 1..Len(Pending) /\ Len(Pending) \in Nat
          BY <1>5, LenProperties
        <5>2. \A j \in 1..Len(Pending) : Pending[j] \in Handshake /\ Pending[j].ts \in Nat
          <6>1. TAKE j \in 1..Len(Pending)
          <6>2. Pending[j] \in Handshake
            BY <1>5, ElementOfSeq
          <6>3. QED
            BY <6>2 DEF Handshake
        <5>3. t \in Nat
          OBVIOUS
        <5>4. ASSUME NEW j \in 1..Len(Pending), Pending[j].hs = a PROVE Pending[j].ts >= t
          <6>1. i <= j
            BY <2>1, <5>1, <5>4
          <6>2. Pending[i].ts <= Pending[j].ts
            BY <1>5, <6>1 DEF Sorted
          <6>3. QED
            BY <4>1, <5>2, <5>3, <6>2
        <5>5. QED
          BY <4>1, <5>1, <5>2, <5>4 DEF Places, Fresh
      <4>3. n = Count(Pending, Fresh(a, 0))
        BY <4>2 DEF Count
      <4>4. 0 \in 0..MaxTime
        BY PunctualTypes
      <4>5. IsFiniteSet(F) /\ Cardinality(F) <= n
        BY <1>2, <1>5, <4>3, <4>4 DEF Matched
      <4>6. H \subseteq F \ {p}
        <5>1. G \subseteq F
          <6>1. RoundTime \in Nat /\ t \in Nat /\ \A q \in EndPoint : due[q] \in Nat
            BY PunctualTypes
          <6>2. QED
            BY <4>1, <6>1 DEF Holders
        <5>2. p \notin H
          BY <1>7, <4>1
        <5>3. QED
          BY <3>1, <5>1, <5>2
      <4>7. p \in F
        BY <2>2
      <4> HIDE DEF F, G, H, n, k
      <4>8. IsFiniteSet(F \ {p}) /\ Cardinality(F \ {p}) = Cardinality(F) - 1
        BY <4>5, <4>7, FS_RemoveElement
      <4>9. Cardinality(H) <= Cardinality(F \ {p})
        BY <4>6, <4>8, FS_Subset
      <4>10. Cardinality(H) \in Nat /\ Cardinality(F) \in Nat
        BY <3>3, <4>5, FS_CardinalityType
      <4>11. Cardinality(H) <= k
        BY <3>2, <3>5, <4>5, <4>8, <4>9, <4>10
      <4>12. QED
        BY <3>3, <4>11 DEF H, k
    <3>6. QED
      BY <3>4, <3>5
  <2>4. QED
    BY <2>3 DEF Matched, Fresh
<1>9. d.arg = a
  BY <1>2
<1>10. QED
  BY <1>6, <1>8, <1>9, ServeShakes DEF SysInv, Inv

(* A sweep takes an entry from nobody: the rounds that are not over began   *)
(* long after the entry was made.                                          *)
LEMMA MatchedSwept ==
  ASSUME SysInv, Undisturbed, PunctualInv, Housekeep
  PROVE  Matched'
<1>1. /\ now \in Nat /\ RoundTime \in Nat /\ Pause \in Nat /\ REAP_INTERVAL \in Nat
      /\ MaxTime \in Nat /\ Pending \in Seq(Handshake)
      /\ \A q \in EndPoint : due[q] \in Nat
  BY PunctualTypes
<1>2. /\ UNCHANGED <<due, exited, toPeer>> /\ Sent' = Sent
  BY DEF Housekeep, peers, network, Sent
<1>3. \A v, t : Holders(v, t)' = Holders(v, t)
  BY <1>2 DEF Holders, Holds
<1>4. Matched /\ now <= MaxTime /\ RoundTime <= REAP_INTERVAL
  BY <1>1 DEF PunctualInv, Undisturbed
<1>5. \/ Pending' = Pending
      \/ \E i \in 1..Len(Pending) : Pending' = RemoveAt(Pending, i) /\ Stale(Pending[i])
  <2>1. "SERVER_HANDSHAKE_LIST" \in ListType
    BY DEF ListType, HandshakeList
  <2>2. QED
    BY <2>1, HousekeepErases DEF SysInv, Same, Pending
<1>6. CASE Pending' = Pending
  BY <1>3, <1>4, <1>6, MatchedFewer
<1>7. CASE \E i \in 1..Len(Pending) : Pending' = RemoveAt(Pending, i) /\ Stale(Pending[i])
  <2>1. PICK i \in 1..Len(Pending) : Pending' = RemoveAt(Pending, i) /\ Stale(Pending[i])
    BY <1>7
  <2>2. Pending[i] \in Handshake
    BY <1>1, ElementOfSeq
  <2>3. Pending[i].ts \in Nat /\ now > Pending[i].ts + REAP_INTERVAL
    BY <2>1, <2>2 DEF Stale, Handshake
  <2> DEFINE u == now - RoundTime
  <2>4. u \in 0..MaxTime /\ Pending[i].ts < u /\ u + RoundTime = now
    BY <1>1, <1>4, <2>3
  <2> HIDE DEF u
  <2>5. ASSUME NEW v, NEW t, NEW q \in Holders(v, t) PROVE q \in Holders(v, u)
    <3>1. q \in EndPoint /\ Holds(q, v)
      BY <2>5 DEF Holders
    <3>2. Busy(q)
      <4>1. CASE q \notin exited /\ v \in ToSet(toPeer[q])
        <5>1. toPeer[q] # <<>>
          BY <4>1 DEF ToSet
        <5>2. Op(q) = "recvfrom"
          BY <3>1, <5>1 DEF PunctualInv, OneAtATime
        <5>3. QED
          BY <4>1, <5>2 DEF Busy, Running, Sleeping
      <4>2. CASE [type |-> "SERVERSHAKE", src |-> q, arg |-> v] \in Sent
        BY <4>2, NothingIsSent DEF Busy
      <4>3. QED
        BY <3>1, <4>1, <4>2 DEF Holds
    <3>3. now <= due[q]
      BY <3>1, <3>2 DEF PunctualInv, InTime
    <3>4. due[q] >= u + RoundTime
      BY <1>1, <2>4, <3>1, <3>3
    <3>5. QED
      BY <3>1, <3>4 DEF Holders
  <2>6. ASSUME NEW v \in HandshakeValue, NEW t \in 0..MaxTime
        PROVE  /\ IsFiniteSet(Holders(v, t)')
               /\ Cardinality(Holders(v, t)') <= Count(Pending', Fresh(v, t))
    <3> DEFINE H == Holders(v, t)
               K == Holders(v, u)
               n == Count(Pending, Fresh(v, t))
               k == Count(Pending', Fresh(v, t))
               m == Count(Pending, Fresh(v, u))
               l == Count(Pending', Fresh(v, u))
    <3>1. /\ IsFiniteSet(H) /\ Cardinality(H) <= n /\ Holders(v, t)' = H
          /\ IsFiniteSet(K) /\ Cardinality(K) <= m
      BY <1>3, <1>4, <2>4 DEF Matched
    <3>2. /\ n \in Nat /\ k \in Nat /\ m \in Nat /\ l \in Nat
          /\ k = n - (IF Pending[i] \in Fresh(v, t) THEN 1 ELSE 0)
          /\ l = m - (IF Pending[i] \in Fresh(v, u) THEN 1 ELSE 0)
      BY <1>1, <2>1, CountRemoved
    <3>3. Cardinality(H) <= k
      <4>1. CASE Pending[i] \notin Fresh(v, t)
        <5> HIDE DEF H, K, n, k, m, l
        <5>1. QED
          BY <3>1, <3>2, <4>1
      <4>2. CASE Pending[i] \in Fresh(v, t)
        <5>1. Pending[i].ts >= t
          BY <4>2 DEF Fresh
        <5>2. t < u /\ t \in Nat /\ u \in Nat
          BY <1>1, <2>3, <2>4, <5>1
        <5>3. Fresh(v, u) \subseteq Fresh(v, t)
          BY <5>2 DEF Fresh, Handshake
        <5>4. Pending' \in Seq(Handshake)
          BY <1>1, <2>1, CountRemoved
        <5>5. l <= k
          BY <5>3, <5>4, CountGrows
        <5>6. Pending[i] \notin Fresh(v, u)
          BY <2>3, <2>4, <5>2 DEF Fresh
        <5>7. H \subseteq K
          BY <2>5
        <5> HIDE DEF H, K, n, k, m, l
        <5>8. Cardinality(H) <= Cardinality(K)
          BY <3>1, <5>7, FS_Subset
        <5>9. Cardinality(H) \in Nat /\ Cardinality(K) \in Nat
          BY <3>1, FS_CardinalityType
        <5>10. QED
          BY <3>1, <3>2, <5>5, <5>6, <5>8, <5>9
      <4>3. QED
        BY <4>1, <4>2
    <3> HIDE DEF H, k
    <3>4. QED
      BY <3>1, <3>3 DEF H, k
  <2>7. QED
    BY <2>6 DEF Matched, Fresh
<1>8. QED
  BY <1>5, <1>6, <1>7

-----------------------------------------------------------------------------
(* Sorted. *)

LEMMA SortedRemoved ==
  ASSUME SysInv, Sorted, NEW i \in 1..Len(Pending), Pending' = RemoveAt(Pending, i)
  PROVE  Sorted'
<1> DEFINE s == Pending
           r == Pending'
<1>1. s \in Seq(Handshake) /\ Len(s) \in Nat
  BY PunctualTypes, LenProperties
<1>2. /\ Len(r) = Len(s) - 1
      /\ \A j \in 1..(Len(s) - 1) : r[j] = IF j < i THEN s[j] ELSE s[j + 1]
  BY <1>1, RemoveAtElements
<1>3. \A j, k \in 1..Len(s) : j <= k => s[j].ts <= s[k].ts
  BY DEF Sorted
<1> HIDE DEF s, r
<1>4. ASSUME NEW j \in 1..Len(r), NEW k \in 1..Len(r), j <= k PROVE r[j].ts <= r[k].ts
  <2> DEFINE x == IF j < i THEN j ELSE j + 1
             y == IF k < i THEN k ELSE k + 1
  <2>1. x \in 1..Len(s) /\ y \in 1..Len(s) /\ x <= y
    BY <1>1, <1>2, <1>4
  <2>2. r[j] = s[x] /\ r[k] = s[y]
    BY <1>1, <1>2
  <2> HIDE DEF x, y
  <2>3. QED
    BY <1>3, <2>1, <2>2
<1>5. QED
  BY <1>4 DEF Sorted, r

LEMMA SortedIssued ==
  ASSUME SysInv, Sorted, NEW e \in Handshake, e.ts = now, Pending' = Append(Pending, e)
  PROVE  Sorted'
<1> DEFINE s == Pending
           r == Pending'
<1>1. s \in Seq(Handshake) /\ Len(s) \in Nat /\ now \in Nat
  BY PunctualTypes, LenProperties
<1>2. /\ Len(r) = Len(s) + 1
      /\ \A j \in 1..(Len(s) + 1) : r[j] = IF j <= Len(s) THEN s[j] ELSE e
  BY <1>1, AppendElements
<1>3. \A j, k \in 1..Len(s) : j <= k => s[j].ts <= s[k].ts
  BY DEF Sorted
<1>4. \A j \in 1..Len(s) : s[j].ts <= now
  <2>1. "SERVER_HANDSHAKE_LIST" \in ListType
    BY DEF ListType, HandshakeList
  <2>2. QED
    BY <2>1 DEF SysInv, Inv, Ages, NotFuture, Pending
<1> HIDE DEF s, r
<1>5. ASSUME NEW j \in 1..Len(r), NEW k \in 1..Len(r), j <= k PROVE r[j].ts <= r[k].ts
  <2>1. CASE k <= Len(s)
    BY <1>1, <1>2, <1>3, <1>5, <2>1
  <2>2. CASE ~(k <= Len(s))
    <3>1. r[k] = e
      BY <1>1, <1>2, <2>2
    <3>2. r[j] = e \/ (j \in 1..Len(s) /\ r[j] = s[j])
      BY <1>1, <1>2
    <3>3. QED
      BY <1>1, <1>4, <3>1, <3>2
  <2>3. QED
    BY <2>1, <2>2
<1>6. QED
  BY <1>5 DEF Sorted, r

LEMMA SortedSame ==
  ASSUME Sorted, Pending' = Pending
  PROVE  Sorted'
BY DEF Sorted

-----------------------------------------------------------------------------
(* The steps. *)

(* Who has no part in a step: nothing of p's changes but the list, which    *)
(* loses entries, and p may exit awake.                                     *)
LEMMA BystanderKept ==
  ASSUME NEW p \in EndPoint, OneAtATime(p), Lease(p),
         UNCHANGED <<at, until, due, network>>, exited \subseteq exited',
         ServerEntries' \subseteq ServerEntries
  PROVE  OneAtATime(p)' /\ Lease(p)'
<1>1. /\ Sent' = Sent /\ InRound(p)' = InRound(p) /\ toPeer' = toPeer
      /\ NothingUnderWay(p)' = NothingUnderWay(p) /\ Op(p)' = Op(p)
  BY DEF network, Sent, InRound, NothingUnderWay, Op
<1>2. InRound(p)' <= 1
  BY <1>1 DEF OneAtATime
<1>3. QED
  BY <1>1, <1>2, OneAtATimeFewer, LeaseSame

(* The metaserver on its own, a signal, a failing call or no step at all. *)
LEMMA PunctualIdle ==
  ASSUME SysInv, PunctualInv,
         UNCHANGED <<now, at, until, due, network>>,
         exited \subseteq exited', \A p \in exited' : p \in exited \/ ~Sleeping(p),
         ServerEntries' \subseteq ServerEntries, Matched', Sorted'
  PROVE  PunctualInv'
<1>1. ASSUME NEW p \in EndPoint PROVE InTime(p)'
  <2>1. (NothingUnderWay(p)' <=> NothingUnderWay(p)) /\ Op(p)' = Op(p)
    BY DEF network, NothingUnderWay, Op
  <2>2. QED
    BY <2>1, InTimeFewer DEF PunctualInv
<1>2. ASSUME NEW p \in EndPoint PROVE OneAtATime(p)' /\ Lease(p)'
  BY BystanderKept DEF PunctualInv
<1>3. now' <= MaxTime
  BY DEF PunctualInv
<1>4. QED
  BY <1>1, <1>2, <1>3 DEF PunctualInv

LEMMA PunctualSecond ==
  ASSUME SysInv, PunctualInv, Second
  PROVE  PunctualInv'
<1>1. /\ UNCHANGED <<at, until, due, exited, network>>
      /\ now' = now + 1 /\ now < MaxTime
      /\ ServerEntries' = ServerEntries /\ Pending' = Pending
  BY DEF Second, Tick, peers, ServerEntries, Pending
<1>2. now' <= MaxTime
  BY <1>1, PunctualTypes
<1>3. Matched' /\ Sorted'
  <2>1. \A v, t : Holders(v, t)' \subseteq Holders(v, t)
    BY <1>1, HoldersSame DEF network, Sent
  <2>2. QED
    BY <1>1, <2>1, MatchedFewer, SortedSame DEF PunctualInv
<1>4. ASSUME NEW p \in EndPoint PROVE InTime(p)' /\ OneAtATime(p)' /\ Lease(p)'
  BY <1>1, InTimeSecond, BystanderKept DEF PunctualInv
<1>5. QED
  BY <1>2, <1>3, <1>4 DEF PunctualInv

LEMMA PunctualDelivered ==
  ASSUME SysInv, Undisturbed, PunctualInv, Deliver
  PROVE  PunctualInv'
<1>1. /\ UNCHANGED <<now, at, until, due, exited, toPeer>> /\ Sent' = Sent
      /\ ServerEntries' = ServerEntries /\ Pending' = Pending
  BY SentDelivered DEF Deliver, DatagramArrives, peers, ServerEntries, Pending
<1>2. Matched' /\ Sorted'
  BY <1>1, HoldersSame, MatchedFewer, SortedSame DEF PunctualInv
<1>3. ASSUME NEW p \in EndPoint PROVE InTime(p)' /\ OneAtATime(p)' /\ Lease(p)'
  <2>1. (NothingUnderWay(p)' <=> NothingUnderWay(p)) /\ Op(p)' = Op(p)
    BY <1>1, SentDelivered DEF Op
  <2>2. QED
    BY <1>1, <2>1, InTimeFewer, OneAtATimeDelivered, LeaseSame DEF PunctualInv
<1>4. QED
  BY <1>1, <1>2, <1>3 DEF PunctualInv

LEMMA PunctualGameServer ==
  ASSUME SysInv, Undisturbed, PunctualInv, NEW q \in EndPoint, GameServer(q)
  PROVE  PunctualInv'
<1>1. UNCHANGED <<now, lists>>
  BY DEF GameServer, Keepalive, Shake, Terminate, Wake, vars, dataVars
<1>2. ServerEntries' = ServerEntries /\ Pending' = Pending
  BY <1>1 DEF ServerEntries, Pending
<1>3. Matched' /\ Sorted'
  BY <1>2, MatchedGameServer, SortedSame DEF PunctualInv
<1>4. ASSUME NEW p \in EndPoint PROVE InTime(p)' /\ OneAtATime(p)' /\ Lease(p)'
  <2>1. InTime(p) /\ OneAtATime(p) /\ Lease(p)
    BY DEF PunctualInv
  <2>2. CASE p = q
    BY <2>1, <2>2, InTimeGameServer, OneAtATimeGameServer, LeaseGameServer
  <2>3. CASE p # q
    <3>1. /\ UNCHANGED <<now, lists, inbox, exited>>
          /\ at'[p] = at[p] /\ until'[p] = until[p] /\ due'[p] = due[p] /\ Op(p)' = Op(p)
          /\ toPeer'[p] = toPeer[p] /\ InRound(p)' = InRound(p)
          /\ NothingUnderWay(p)' <=> NothingUnderWay(p)
          /\ \A d : d.src = p => (d \in Sent' <=> d \in Sent)
      BY <2>3, OtherGameServer
    <3>2. InRound(p)' <= 1
      BY <2>1, <3>1 DEF OneAtATime
    <3>3. InTime(p)'
      BY <2>1, <3>1, InTimeFewer
    <3>4. OneAtATime(p)'
      BY <2>1, <3>1, <3>2, OneAtATimeFewer
    <3>5. Lease(p)'
      BY <1>2, <2>1, <3>1, LeaseSame
    <3>6. QED
      BY <3>3, <3>4, <3>5
  <2>4. QED
    BY <2>2, <2>3
<1>5. QED
  BY <1>1, <1>3, <1>4 DEF PunctualInv

LEMMA PunctualServe ==
  ASSUME SysInv, Undisturbed, PunctualInv, Serve
  PROVE  PunctualInv'
<1>1. /\ UNCHANGED <<now, at, until, due, exited>>
      /\ Head(inbox).type \in {"SERVERKEEPALIVE", "TERMINATE", "SERVERSHAKE"}
  BY SentServed, PunctualTypes DEF Serve, Receive, peers, ServerDatagrams
<1>2. Matched'
  BY <1>1, MatchedIssued, MatchedTerminated, MatchedShaken DEF PunctualInv
<1>3. Sorted'
  <2>1. CASE Head(inbox).type = "SERVERKEEPALIVE"
    <3> DEFINE a == Host[Head(inbox).src]
    <3>1. PICK h \in HandshakeValue : /\ Pending' = Append(Pending, Entry(a, h, now))
                                      /\ Entry(a, h, now) \in Handshake
      BY <2>1, ServeIssues DEF SysInv, Inv
    <3>2. Entry(a, h, now).ts = now
      BY DEF Entry
    <3> HIDE DEF a
    <3>3. QED
      BY <3>1, <3>2, SortedIssued DEF PunctualInv
  <2>2. CASE Head(inbox).type = "TERMINATE"
    BY <2>2, MatchedTerminated, SortedSame DEF PunctualInv
  <2>3. CASE Head(inbox).type = "SERVERSHAKE"
    BY <2>3, ServeShakes, SortedSame, SortedRemoved DEF PunctualInv, SysInv, Inv
  <2>4. QED
    BY <1>1, <2>1, <2>2, <2>3
<1>4. ASSUME NEW p \in EndPoint PROVE InTime(p)' /\ OneAtATime(p)' /\ Lease(p)'
  <2>1. Op(p)' = Op(p) /\ (NothingUnderWay(p) => NothingUnderWay(p)')
    BY <1>1, SentServed DEF Op
  <2>2. InTime(p)'
    BY <1>1, <2>1, InTimeFewer DEF PunctualInv
  <2>3. QED
    BY <2>2, OneAtATimeServe, LeaseServe DEF PunctualInv
<1>5. QED
  BY <1>1, <1>2, <1>3, <1>4 DEF PunctualInv

LEMMA PunctualKept ==
  ASSUME Undisturbed, SysInv, PunctualInv, [SysNext]_sysVars
  PROVE  PunctualInv'
<1>1. ASSUME UNCHANGED <<now, at, until, due, network, lists>>, exited \subseteq exited',
             \A p \in exited' : p \in exited \/ ~Sleeping(p)
      PROVE  PunctualInv'
  <2>1. ServerEntries' = ServerEntries /\ Pending' = Pending
    BY <1>1 DEF ServerEntries, Pending
  <2>2. \A v, t : Holders(v, t)' \subseteq Holders(v, t)
    BY <1>1, HoldersSame DEF network, Sent
  <2>3. Matched' /\ Sorted'
    BY <2>1, <2>2, MatchedFewer, SortedSame DEF PunctualInv
  <2>4. QED
    BY <1>1, <2>1, <2>3, PunctualIdle
<1>2. CASE Serve
  BY <1>2, PunctualServe
<1>3. CASE Housekeep
  <2>1. UNCHANGED <<now, at, until, due, exited, network>>
    BY <1>3 DEF Housekeep, peers, Initialize, RegisterAlarm, FirstAlarm, CheckQuit, CheckAlarm,
      Reaper, ReapErase, ReapHook, ReapKeep, NextReapList, ReaperDone, Block, HookReturns
  <2>2. Sorted'
    <3>1. Pending' = Pending \/ \E i \in 1..Len(Pending) : Pending' = RemoveAt(Pending, i)
      BY <1>3, HousekeepPending DEF SysInv
    <3>2. QED
      BY <3>1, SortedSame, SortedRemoved DEF PunctualInv
  <2>3. QED
    BY <1>3, <2>1, <2>2, MatchedSwept, EntriesSwept, PunctualIdle
<1>4. CASE Alarm \/ Interrupt \/ UNCHANGED sysVars
  <2>1. UNCHANGED <<now, at, until, due, exited, network, lists>>
    BY <1>4 DEF Alarm, AlarmSignal, Interrupt, InterruptSignal, sysVars, vars, dataVars, peers
  <2>2. QED
    BY <1>1, <2>1
<1>5. CASE Second
  BY <1>5, PunctualSecond
<1>6. CASE Deliver
  BY <1>6, PunctualDelivered
<1>7. CASE Lose
  <2>1. ~(losses < MaxLosses)
    BY PunctualTypes DEF Undisturbed
  <2>2. QED
    BY <1>7, <2>1 DEF Lose
<1>8. CASE \E q \in EndPoint : GameServer(q)
  BY <1>8, PunctualGameServer
<1>9. CASE \E q \in EndPoint : q \notin exited /\ Fail(q)
  <2>1. PICK q \in EndPoint : Fail(q)
    BY <1>9
  <2>2. /\ UNCHANGED <<now, at, until, due, network, lists>> /\ exited' = exited \cup {q}
        /\ ~Sleeping(q)
    BY <2>1 DEF Fail, err_sys, vars, dataVars, Sleeping
  <2>3. QED
    BY <1>1, <2>2
<1>10. QED
  BY <1>2, <1>3, <1>4, <1>5, <1>6, <1>7, <1>8, <1>9 DEF SysNext

LEMMA PunctualInitially == SysInit => PunctualInv
<1> SUFFICES ASSUME SysInit PROVE PunctualInv
  OBVIOUS
<1>1. /\ RoundTime \in Nat /\ Pause \in Nat /\ MaxTime \in Nat
  BY MetaserverAssumption, SystemAssumption
<1>2. /\ now = 0 /\ toServer = <<>> /\ inbox = <<>> /\ exited = {}
      /\ lists = [w \in ListType |-> <<>>]
      /\ \A p \in EndPoint : until[p] = 0 /\ due[p] = RoundTime /\ toPeer[p] = <<>>
  BY DEF SysInit, Init
<1>3. Sent = {} /\ (\A p : NothingUnderWay(p))
  BY <1>2 DEF Sent, ToSet, NothingUnderWay
<1>4. Pending = <<>> /\ ServerEntries = {}
  BY <1>2 DEF Pending, ServerEntries, ToSet, ListType, ActiveList, HandshakeList
<1>5. ASSUME NEW p \in EndPoint PROVE InTime(p)
  BY <1>1, <1>2, <1>3, <1>5 DEF InTime
<1>6. ASSUME NEW p \in EndPoint PROVE OneAtATime(p)
  <2>1. <<>> \in Seq(ServerDatagrams) /\ ToSet(<<>>) = {} /\ Len(<<>>) = 0
    BY DEF ToSet
  <2>2. Count(<<>>, RoundOf(p)) = 0
    BY <2>1, CountZero
  <2>3. InRound(p) = 0
    BY <1>2, <1>6, <2>1, <2>2 DEF InRound
  <2>4. QED
    BY <1>2, <1>3, <1>6, <2>3 DEF OneAtATime
<1>7. ASSUME NEW p \in EndPoint PROVE Lease(p)
  BY <1>4 DEF Lease
<1>8. Matched
  <2>1. \A v, t : Holders(v, t) = {}
    BY <1>2, <1>3 DEF Holders, Holds, ToSet
  <2>2. \A V : Count(Pending, V) \in Nat
    <3>1. Pending \in Seq(Handshake)
      BY <1>4
    <3>2. QED
      BY <3>1, CountType
  <2>3. IsFiniteSet({}) /\ Cardinality({}) = 0
    BY FS_EmptySet
  <2>4. ASSUME NEW v \in HandshakeValue, NEW t \in 0..MaxTime
        PROVE  /\ IsFiniteSet(Holders(v, t))
               /\ Cardinality(Holders(v, t)) <= Count(Pending, Fresh(v, t))
    <3> DEFINE n == Count(Pending, Fresh(v, t))
    <3>1. n \in Nat
      BY <2>2
    <3> HIDE DEF n
    <3>2. 0 <= n
      BY <3>1
    <3>3. QED
      BY <2>1, <2>3, <3>2 DEF n
  <2>5. QED
    BY <2>4 DEF Matched
<1>9. Sorted
  BY <1>4 DEF Sorted
<1>10. QED
  BY <1>1, <1>2, <1>5, <1>6, <1>7, <1>8, <1>9 DEF PunctualInv

-----------------------------------------------------------------------------
(* The theorem. *)

(* Being listed is having an entry. *)
LEMMA ListedHasEntry ==
  ASSUME NEW p
  PROVE  IsListed(p) <=> \E e \in ServerEntries : e.addr = Host[p]
BY DEF IsListed, ServerEntries, ToSet

(* The entry of a game server in its rounds is not stale. *)
LEMMA NotStale ==
  ASSUME SysInv, Undisturbed, PunctualInv, NEW p \in EndPoint,
         at[p] <= LastRound, p \notin exited,
         NEW e \in ServerEntries, e.addr = Host[p]
  PROVE  ~Stale(e)
<1>1. /\ now \in Nat /\ until[p] \in Nat /\ due[p] \in Nat /\ e.ts \in Nat
      /\ RoundTime \in Nat /\ Pause \in Nat /\ REAP_INTERVAL \in Nat
  BY PunctualTypes DEF Handshake
<1>2. Pause + RoundTime <= REAP_INTERVAL
  BY DEF Undisturbed
<1>3. InTime(p) /\ Lease(p)
  BY DEF PunctualInv
<1>4. CASE Sleeping(p) /\ NothingUnderWay(p)
  <2>1. now <= until[p] + RoundTime /\ until[p] <= e.ts + Pause
    BY <1>3, <1>4 DEF InTime, Lease
  <2>2. now <= e.ts + REAP_INTERVAL
    BY <1>1, <1>2, <2>1
  <2>3. QED
    BY <1>1, <2>2 DEF Stale
<1>5. CASE ~(Sleeping(p) /\ NothingUnderWay(p))
  <2>1. Op(p) # "exit"
    <3>1. /\ at[p] \in 1..(Len(Script) + 1) /\ Len(Script) \in Nat /\ LastRound \in Nat
          /\ Len(Script) >= 6 /\ Script[Len(Script)] = "terminate"
      BY ScriptTail, PunctualTypes DEF SysInv, SysTypeOK
    <3>2. Len(Script) \in 1..Len(Script)
      BY <3>1
    <3>3. LastRound < Len(Script)
      BY <3>1, <3>2, ScriptOps
    <3>4. at[p] \in 1..Len(Script)
      BY <3>1, <3>3
    <3>5. Op(p) = Script[at[p]]
      BY <3>4 DEF Op
    <3>6. Script[at[p]] \in {"keepalive", "recvfrom", "pause", "wait", "terminate"}
      BY <3>4, ScriptOps
    <3>7. QED
      BY <3>5, <3>6
  <2>2. Busy(p)
    BY <1>5, <2>1 DEF Busy, Running
  <2>3. now <= due[p] /\ due[p] <= e.ts + Pause + RoundTime
    BY <1>3, <1>5, <2>2 DEF InTime, Lease
  <2>4. now <= e.ts + REAP_INTERVAL
    BY <1>1, <1>2, <2>3
  <2>5. QED
    BY <1>1, <2>4 DEF Stale
<1>6. QED
  BY <1>4, <1>5

LEMMA StaysListedStep ==
  ASSUME Undisturbed, SysInv, PunctualInv, [SysNext]_sysVars,
         NEW p \in EndPoint, at[p] <= LastRound, p \notin exited, IsListed(p)
  PROVE  IsListed(p)'
<1>1. PICK e \in ServerEntries : e.addr = Host[p]
  BY ListedHasEntry
<1>2. SUFFICES \E f \in ServerEntries' : f.addr = Host[p]
  BY DEF IsListed, ServerEntries, ToSet
<1>3. CASE Serve
  <2>1. /\ Head(inbox) \in Sent /\ Head(inbox).src \in EndPoint
        /\ Head(inbox).type \in {"SERVERKEEPALIVE", "TERMINATE", "SERVERSHAKE"}
    BY <1>3, SentServed, PunctualTypes DEF ServerDatagrams
  <2>2. CASE Head(inbox).type = "SERVERKEEPALIVE"
    BY <1>1, <1>3, <2>2, ServeIssues DEF SysInv, Inv, ServerEntries
  <2>3. CASE Head(inbox).type = "TERMINATE"
    <3>1. Head(inbox).src # p
      <4>1. Head(inbox).src = p => at[p] > LastRound
        BY <2>1, <2>3 DEF PunctualInv, OneAtATime
      <4>2. at[p] \in Nat /\ LastRound \in Nat
        BY PunctualTypes
      <4>3. QED
        BY <4>1, <4>2
    <3>2. Host[Head(inbox).src] # Host[p]
      BY <2>1, <3>1 DEF Undisturbed, OwnHosts
    <3>3. QED
      BY <1>1, <1>3, <2>3, <3>2, EntriesTerminated
  <2>4. CASE Head(inbox).type = "SERVERSHAKE"
    BY <1>1, <1>3, <2>4, EntriesShaken
  <2>5. QED
    BY <2>1, <2>2, <2>3, <2>4
<1>4. CASE Housekeep
  BY <1>1, <1>4, NotStale, EntriesSwept
<1>5. CASE ~Serve /\ ~Housekeep
  <2>1. UNCHANGED lists
    BY <1>5 DEF SysNext, Alarm, AlarmSignal, Interrupt, InterruptSignal, Second, Tick,
      Deliver, DatagramArrives, Lose, GameServer, Keepalive, Shake, Terminate, Wake, Fail,
      sysVars, vars, dataVars
  <2>2. QED
    BY <1>1, <2>1 DEF ServerEntries
<1>6. QED
  BY <1>3, <1>4, <1>5

(***************************************************************************)
(* A game server that has been listed stays listed until it is past its    *)
(* rounds or exits.  Its entry cannot become stale: what a sweep may find  *)
(* is at most a pause and the time of a round old, because the SHAKE of    *)
(* every round is taken for what it is.  That is what Matched is for:      *)
(* nobody uses up a pending handshake that another, with the same value,   *)
(* still needs, and no sweep does.                                         *)
(***************************************************************************)
THEOREM PunctualServersStayListed ==
  ASSUME Undisturbed
  PROVE  SysSafety => StaysListed
<1>1. SysInit => PunctualInv
  BY PunctualInitially
<1>2. SysInv /\ PunctualInv /\ [SysNext]_sysVars => PunctualInv'
  BY PunctualKept
<1>3. SysInv /\ PunctualInv /\ [SysNext]_sysVars =>
        [\A p \in EndPoint :
           at[p] <= 3 * Rounds /\ p \notin exited /\ IsListed(p) => IsListed(p)']_sysVars
  BY StaysListedStep DEF LastRound
<1>4. SysSafety => []SysInv
  BY SystemInvariance
<1>5. QED
  BY <1>1, <1>2, <1>3, <1>4, PTL DEF SysSafety, StaysListed

-----------------------------------------------------------------------------
(* Who has fallen silent. *)

\* What p does after a sleep it does by its deadline, so that whatever of it
\* is still under way is in time, and a later deadline is a later sleep's.
Prompt(p) ==
  /\ Busy(p) => now <= due[p]
  /\ Sleeping(p) => /\ p \notin exited /\ now <= until[p] + RoundTime
                    /\ due[p] <= until[p] + RoundTime \/ now = MaxTime
  /\ due[p] <= now + RoundTime \/ now = MaxTime

\* An entry is no later than the deadline of some game server on its host.
Backed(e) == \E p \in EndPoint : Host[p] = e.addr /\ e.ts <= due[p]

SilentInv == (\A p \in EndPoint : Prompt(p)) /\ \A e \in ServerEntries : Backed(e)

(* Being prompt is kept by what is neither the game server's nor a second. *)
LEMMA PromptFewer ==
  ASSUME NEW p \in EndPoint, Prompt(p),
         now' = now, at'[p] = at[p], until'[p] = until[p], due'[p] = due[p],
         exited \subseteq exited', p \in exited' => p \in exited \/ ~Sleeping(p),
         NothingUnderWay(p) => NothingUnderWay(p)'
  PROVE  Prompt(p)'
<1>1. (Sleeping(p)' <=> Sleeping(p)) /\ (Running(p)' => Running(p))
  BY DEF Sleeping, Running, Op
<1>2. Busy(p)' => Busy(p)
  BY <1>1 DEF Busy
<1>3. QED
  BY <1>1, <1>2 DEF Prompt

(* A second passes only while everybody is in time. *)
LEMMA PromptSecond ==
  ASSUME SysInv, Second, NEW p \in EndPoint, Prompt(p)
  PROVE  Prompt(p)'
<1>1. /\ now \in Nat /\ MaxTime \in Nat /\ until[p] \in Nat /\ due[p] \in Nat
      /\ RoundTime \in Nat
  BY PunctualTypes
<1>2. /\ now' = now + 1 /\ now < MaxTime /\ Punctual(p)
      /\ UNCHANGED <<at, until, due, exited, toServer, inbox>>
  BY DEF Second, Tick, peers, network
<1>3. (Sleeping(p)' <=> Sleeping(p)) /\ (Busy(p)' <=> Busy(p))
  BY <1>2 DEF Op, Sleeping, Busy, Running, NothingUnderWay
<1>4. Sleeping(p) => Running(p)
  BY DEF Prompt, Sleeping, Running
<1>5. Busy(p) => now + 1 <= due[p]
  BY <1>1, <1>2 DEF Busy, Punctual
<1>6. ASSUME Sleeping(p)
      PROVE  now + 1 <= until[p] + RoundTime /\ due[p] <= until[p] + RoundTime
  <2>1. due[p] <= until[p] + RoundTime
    BY <1>1, <1>2, <1>6 DEF Prompt
  <2>2. now < until[p] + RoundTime \/ now < due[p]
    BY <1>2, <1>4, <1>6 DEF Punctual
  <2>3. QED
    BY <1>1, <2>1, <2>2
<1>7. due[p] <= now + 1 + RoundTime
  BY <1>1, <1>2 DEF Prompt
<1>8. QED
  BY <1>2, <1>3, <1>5, <1>6, <1>7 DEF Prompt

(* Who wakes has a later deadline; who sends is in time. *)
LEMMA PromptGameServer ==
  ASSUME SysInv, NEW p \in EndPoint, Prompt(p), GameServer(p)
  PROVE  Prompt(p)' /\ now <= due'[p] /\ UNCHANGED <<now, lists>>
<1>1. /\ now \in Nat /\ until[p] \in Nat /\ due[p] \in Nat
      /\ RoundTime \in Nat /\ Pause \in Nat /\ Wait \in Nat /\ MaxTime \in Nat
  BY PunctualTypes
<1>2. SysTypeOK /\ p \notin exited
  BY DEF SysInv, GameServer
<1>3. Op(p) # "exit" /\ Advance(p) /\ UNCHANGED <<now, lists>>
  BY DEF GameServer, Keepalive, Shake, Terminate, Wake, Sleeping, vars, dataVars
<1>4. /\ due'[p] = IF Sleeping(p) THEN until[p] + RoundTime ELSE due[p]
      /\ Op(p)' = "pause" => until'[p] = now + Pause
      /\ Op(p)' = "wait" => until'[p] = now + Wait
      /\ exited' = exited
  BY <1>1, <1>2, <1>3, AdvanceStep
<1>5. now <= due'[p]
  <2>1. CASE Sleeping(p)
    BY <1>4, <2>1 DEF Prompt
  <2>2. CASE ~Sleeping(p)
    BY <1>2, <1>3, <1>4, <2>2 DEF Prompt, Busy, Running
  <2>3. QED
    BY <2>1, <2>2
<1>6. due'[p] <= now + RoundTime \/ now = MaxTime
  <2>1. CASE Sleeping(p)
    <3>1. now >= until[p] \/ now = MaxTime
      BY <2>1 DEF GameServer, Keepalive, Shake, Terminate, Wake, Sleeping
    <3>2. QED
      BY <1>1, <1>4, <2>1, <3>1
  <2>2. CASE ~Sleeping(p)
    BY <1>4, <2>2 DEF Prompt
  <2>3. QED
    BY <2>1, <2>2
<1>7. ASSUME Sleeping(p)'
      PROVE  /\ now <= until'[p] + RoundTime
             /\ due'[p] <= until'[p] + RoundTime \/ now = MaxTime
  <2>1. until'[p] = now + Pause \/ until'[p] = now + Wait
    BY <1>4, <1>7 DEF Sleeping
  <2>2. due'[p] \in Nat
    BY <1>1, <1>4
  <2>3. QED
    BY <1>1, <1>6, <2>1, <2>2
<1>8. QED
  BY <1>2, <1>3, <1>4, <1>5, <1>6, <1>7 DEF Prompt

(* No entry is from the future. *)
LEMMA EntriesInThePast ==
  ASSUME SysInv, NEW e \in ServerEntries
  PROVE  e.ts \in Nat /\ e.ts <= now
<1>1. "SERVER_LIST" \in ListType
  BY DEF ListType, ActiveList
<1>2. PICK i \in 1..Len(lists["SERVER_LIST"]) : e = lists["SERVER_LIST"][i]
  BY PunctualTypes, LenProperties DEF ServerEntries, ToSet
<1>3. QED
  BY <1>1, <1>2, TimestampsNat DEF SysInv, Inv, Ages, NotFuture

(* Losing and delivering datagrams brings nothing of anybody under way. *)
LEMMA NetworkSendsNothing ==
  ASSUME SysInv, Deliver \/ Lose, NEW p \in EndPoint, NothingUnderWay(p)
  PROVE  NothingUnderWay(p)'
<1>1. toServer \in Seq(ServerDatagrams) /\ inbox \in Seq(ServerDatagrams)
  BY PunctualTypes
<1>2. NothingUnderWay(p)' <=> \A d \in Sent' : d.src # p
  BY DEF NothingUnderWay, Sent, ToSet
<1>3. Sent' \subseteq Sent
  <2>1. ASSUME NEW i \in DOMAIN toServer, toServer' = RemoveAt(toServer, i)
        PROVE  ToSet(toServer') \subseteq ToSet(toServer)
    BY <1>1, <2>1, LenProperties, ElementsRemoved
  <2>2. CASE Deliver
    <3>1. PICK i \in Deliverable(toServer) :
            /\ toServer' = toServer \/ toServer' = RemoveAt(toServer, i)
            /\ inbox' = Append(inbox, toServer[i])
      BY <2>2 DEF Deliver, Remaining
    <3>2. i \in DOMAIN toServer /\ i \in 1..Len(toServer)
      BY <1>1, LenProperties DEF Deliverable
    <3>3. toServer[i] \in ServerDatagrams /\ toServer[i] \in ToSet(toServer)
      BY <1>1, <3>2, ElementOfSeq DEF ToSet
    <3>4. ToSet(inbox') = ToSet(inbox) \cup {toServer[i]}
      BY <1>1, <3>1, <3>3, ElementsAppend
    <3>5. ToSet(toServer') \subseteq ToSet(toServer)
      BY <2>1, <3>1, <3>2
    <3>6. QED
      BY <3>3, <3>4, <3>5 DEF Sent
  <2>3. CASE Lose
    <3>1. inbox' = inbox
      BY <2>3 DEF Lose
    <3>2. ToSet(toServer') \subseteq ToSet(toServer)
      BY <2>1, <2>3 DEF Lose, LoseRequest, LoseAnswer
    <3>3. QED
      BY <3>1, <3>2 DEF Sent
  <2>4. QED
    BY <2>2, <2>3
<1>4. QED
  BY <1>2, <1>3, NothingIsSent

(* A datagram is handled in time, so an entry it renews or adds is backed  *)
(* by its sender; no other step makes one younger.                         *)
LEMMA ServeBacked ==
  ASSUME SysInv, SilentInv, Serve, NEW e \in ServerEntries'
  PROVE  Backed(e)
<1> DEFINE d == Head(inbox)
<1>1. d \in ServerDatagrams /\ d \in Sent
  BY SentServed, PunctualTypes
<1>2. d.src \in EndPoint /\ d.type \in {"SERVERKEEPALIVE", "TERMINATE", "SERVERSHAKE"}
  BY <1>1 DEF ServerDatagrams
<1>3. now <= due[d.src]
  <2>1. ~NothingUnderWay(d.src)
    BY <1>1, NothingIsSent
  <2>2. QED
    BY <1>2, <2>1 DEF SilentInv, Prompt, Busy
<1>4. CASE e \in ServerEntries
  BY <1>4 DEF SilentInv
<1>5. CASE e \notin ServerEntries
  <2>1. CASE d.type = "SERVERKEEPALIVE"
    <3>1. HandleServerKeepalive(d)
      BY <2>1, ServeReceives DEF SysInv, Receive, HandleClientKeepalive, HandleTerminate,
        HandleServerShake, HandleClientShake, HandleListRequest, Ignore
    <3>2. lists'["SERVER_LIST"] = lists["SERVER_LIST"]
      BY <3>1 DEF HandleServerKeepalive, IssueHandshake, SysInv, Inv, TypeOK, ListType,
        ActiveList, HandshakeList
    <3>3. QED
      BY <1>5, <3>2 DEF ServerEntries
  <2>2. CASE d.type = "TERMINATE"
    BY <1>5, <2>2, EntriesTerminated
  <2>3. CASE d.type = "SERVERSHAKE"
    <3>1. e.addr = Host[d.src] /\ e.ts = now
      BY <1>5, <2>3, EntriesShaken
    <3>2. QED
      BY <1>2, <1>3, <3>1 DEF Backed
  <2>4. QED
    BY <1>2, <2>1, <2>2, <2>3
<1>6. QED
  BY <1>4, <1>5

(* Every step keeps the invariant, whatever the network does. *)
LEMMA SilentKept ==
  ASSUME SysInv, SilentInv, [SysNext]_sysVars
  PROVE  SilentInv'
<1>1. ASSUME UNCHANGED <<now, at, until, due>>, exited \subseteq exited',
             \A p \in exited' : p \in exited \/ ~Sleeping(p),
             \A p \in EndPoint : NothingUnderWay(p) => NothingUnderWay(p)',
             \A e \in ServerEntries' : Backed(e)
      PROVE  SilentInv'
  <2>1. ASSUME NEW p \in EndPoint PROVE Prompt(p)'
    BY <1>1, PromptFewer DEF SilentInv
  <2>2. ASSUME NEW e \in ServerEntries' PROVE \E p \in EndPoint : Host[p] = e.addr /\ e.ts <= due'[p]
    BY <1>1, <2>2 DEF Backed
  <2>3. QED
    BY <2>1, <2>2 DEF SilentInv, Backed
<1>2. CASE Serve
  <2>1. UNCHANGED <<now, at, until, due, exited>>
    BY <1>2 DEF Serve, Receive, peers
  <2>2. QED
    BY <1>1, <1>2, <2>1, SentServed, ServeBacked
<1>3. CASE Housekeep
  <2>1. UNCHANGED <<now, at, until, due, exited, network>>
    BY <1>3 DEF Housekeep, peers, Initialize, RegisterAlarm, FirstAlarm, CheckQuit, CheckAlarm,
      Reaper, ReapErase, ReapHook, ReapKeep, NextReapList, ReaperDone, Block, HookReturns
  <2>2. \A p \in EndPoint : NothingUnderWay(p) => NothingUnderWay(p)'
    BY <2>1 DEF network, NothingUnderWay
  <2>3. \A e \in ServerEntries' : Backed(e)
    BY <1>3, EntriesSwept DEF SilentInv
  <2>4. QED
    BY <1>1, <2>1, <2>2, <2>3
<1>4. CASE Deliver \/ Lose
  <2>1. UNCHANGED <<now, at, until, due, exited, lists>>
    BY <1>4 DEF Deliver, DatagramArrives, Lose, vars, dataVars, peers
  <2>2. \A e \in ServerEntries' : Backed(e)
    BY <2>1 DEF SilentInv, ServerEntries
  <2>3. \A p \in EndPoint : NothingUnderWay(p) => NothingUnderWay(p)'
    BY <1>4, NetworkSendsNothing
  <2>4. QED
    BY <1>1, <2>1, <2>2, <2>3
<1>5. CASE \/ Alarm \/ Interrupt \/ UNCHANGED sysVars
           \/ \E q \in EndPoint : q \notin exited /\ Fail(q)
  <2>1. /\ UNCHANGED <<now, at, until, due, network, lists>> /\ exited \subseteq exited'
        /\ \A p \in exited' : p \in exited \/ ~Sleeping(p)
    BY <1>5 DEF Alarm, AlarmSignal, Interrupt, InterruptSignal, Fail, err_sys, Sleeping,
      sysVars, vars, dataVars, peers
  <2>2. \A e \in ServerEntries' : Backed(e)
    BY <2>1 DEF SilentInv, ServerEntries
  <2>3. \A p \in EndPoint : NothingUnderWay(p) => NothingUnderWay(p)'
    BY <2>1 DEF network, NothingUnderWay
  <2>4. QED
    BY <1>1, <2>1, <2>2, <2>3
<1>6. CASE Second
  <2>1. UNCHANGED <<due, lists>>
    BY <1>6 DEF Second, Tick, peers
  <2>2. ServerEntries' = ServerEntries
    BY <2>1 DEF ServerEntries
  <2>3. QED
    BY <1>6, <2>1, <2>2, PromptSecond DEF SilentInv, Backed
<1>7. ASSUME NEW q \in EndPoint, GameServer(q) PROVE SilentInv'
  <2>1. Prompt(q)' /\ now <= due'[q] /\ UNCHANGED <<now, lists>>
    BY <1>7, PromptGameServer DEF SilentInv
  <2>2. ASSUME NEW p \in EndPoint, p # q
        PROVE  Prompt(p)' /\ due'[p] = due[p]
    <3>1. /\ UNCHANGED <<now, exited>> /\ due'[p] = due[p] /\ until'[p] = until[p]
          /\ at'[p] = at[p] /\ (NothingUnderWay(p)' <=> NothingUnderWay(p))
      BY <1>7, <2>2, OtherGameServer
    <3>2. QED
      BY <3>1, PromptFewer DEF SilentInv
  <2>3. ASSUME NEW e \in ServerEntries'
        PROVE  \E p \in EndPoint : Host[p] = e.addr /\ e.ts <= due'[p]
    <3>1. e \in ServerEntries
      BY <2>1 DEF ServerEntries
    <3>2. PICK p \in EndPoint : Host[p] = e.addr /\ e.ts <= due[p]
      BY <3>1 DEF SilentInv, Backed
    <3>3. CASE p = q
      <4>1. e.ts \in Nat /\ e.ts <= now /\ now \in Nat
        BY <3>1, EntriesInThePast, PunctualTypes
      <4>2. due'[q] \in Nat
        BY SysNextInv, PunctualTypes DEF SysInv, SysTypeOK
      <4>3. QED
        BY <2>1, <3>2, <3>3, <4>1, <4>2
    <3>4. CASE p # q
      BY <2>2, <3>2, <3>4
    <3>5. QED
      BY <3>3, <3>4
  <2>4. QED
    BY <2>1, <2>2, <2>3 DEF SilentInv, Backed
<1>8. QED
  BY <1>2, <1>3, <1>4, <1>5, <1>6, <1>7 DEF SysNext

LEMMA SilentInitially == SysInit => SilentInv
<1> SUFFICES ASSUME SysInit PROVE SilentInv
  OBVIOUS
<1>1. ServerEntries = {}
  BY DEF SysInit, Init, ServerEntries, ToSet, ListType, ActiveList
<1>2. now = 0 /\ RoundTime \in Nat
  BY SystemAssumption DEF SysInit, Init
<1>3. ASSUME NEW p \in EndPoint PROVE Prompt(p)
  <2>1. due[p] = RoundTime /\ until[p] = 0 /\ p \notin exited
    BY DEF SysInit
  <2>2. QED
    BY <1>2, <2>1 DEF Prompt
<1>4. QED
  BY <1>1, <1>3 DEF SilentInv

(***************************************************************************)
(* A host whose game servers have fallen silent does not stay listed, for  *)
(* any number of game servers, any script of the form, any interval and    *)
(* any network that loses, repeats and reorders: two intervals and a sweep *)
(* after the deadline of the latest of them the host is off the list, even *)
(* if none of them ever sent a TERMINATE, as long as the metaserver is     *)
(* between two datagrams with no wake-up lost.                             *)
(***************************************************************************)
THEOREM SilentServersAreGone == SysSafety => []SilentAreGone
<1>1. SysInv /\ SilentInv /\ BoundedStaleness => SilentAreGone
  <2> SUFFICES ASSUME SysInv, SilentInv, BoundedStaleness, pc = "blocked", ~mAlarm,
                      NEW i \in DOMAIN lists["SERVER_LIST"]
               PROVE  \E p \in EndPoint :
                        Host[p] = lists["SERVER_LIST"][i].addr /\ ~Silent(p)
    BY DEF SilentAreGone
  <2> DEFINE e == lists["SERVER_LIST"][i]
  <2>1. "SERVER_LIST" \in ListType
    BY DEF ListType, ActiveList
  <2>2. armed
    BY DEF SysInv, Inv, LoopInv, OneClock, Serving, Reaping
  <2>3. now <= e.ts + MaxAge
    BY <2>1, <2>2 DEF BoundedStaleness
  <2>4. e \in ServerEntries
    BY DEF ServerEntries, ToSet
  <2> HIDE DEF e
  <2>5. PICK p \in EndPoint : Host[p] = e.addr /\ e.ts <= due[p]
    BY <2>4 DEF SilentInv, Backed
  <2>6. /\ now \in Nat /\ e.ts \in Nat /\ due[p] \in Nat /\ MaxAge \in Nat
    BY <2>4, EntriesInThePast, PunctualTypes, MetaserverAssumption DEF MaxAge
  <2>7. ~(now > due[p] + MaxAge)
    BY <2>3, <2>5, <2>6
  <2>8. QED
    BY <2>5, <2>7 DEF Silent, e
<1>2. QED
  BY <1>1, SilentInitially, SilentKept, SystemInvariance, ImplementsMetaserver,
     NothingOutlivesTwoIntervals, PTL DEF SysSafety

=============================================================================
