---------------------------- MODULE PagingProofs ----------------------------
(***************************************************************************)
(* Proofs that the client counts what it prints, and that paging is        *)
(* complete as long as servers only join and no datagram is repeated, for  *)
(* any number of servers and any size of a LISTRESP.                       *)
(***************************************************************************)
EXTENDS Paging, ListLemmas

-----------------------------------------------------------------------------
(* The invariants. *)

(* What holds whatever joins, leaves and is repeated.                      *)
Numbers == leaves \in Nat /\ repeats \in Nat

WellFormed ==
  /\ \A m \in toServer : m = Keepalive \/ m = Shake \/ \E n \in Nat : m = Request(n)
  /\ \A m \in toClient : m.type = "LISTRESP" => m.servers \in Seq(Addr) /\ m.total \in Nat

TInv == PagingTypeOK /\ Numbers /\ WellFormed

(* What holds until a server leaves or a datagram is repeated.             *)
Quiet == leaves = 0 /\ repeats = 0

Prefix ==
  /\ Len(html) <= Len(roster)
  /\ \A i \in 1..Len(html) : html[i] = roster[i]

\* A LISTRESP that continues what the client has printed.
Continues(m) ==
  /\ m.type = "LISTRESP"
  /\ m.servers \in Seq(Addr)
  /\ m.total \in Nat
  /\ from + Len(m.servers) <= Len(roster)
  /\ \A i \in 1..Len(m.servers) : m.servers[i] = roster[from + i]
  /\ IF m.total = 0 THEN Len(m.servers) = 0 /\ due \subseteq Printed
     ELSE from + Len(m.servers) <= m.total

\* The client and the metaserver take turns: what may be under way at each
\* place of the client.
Turns ==
  /\ at = "start" => toServer = {} /\ toClient = {}
  /\ at = "shake" => /\ toServer \subseteq {Keepalive}
                     /\ toClient \subseteq {Handshake}
                     /\ toServer = {} \/ toClient = {}
  /\ at \in {"test", "done"} => toServer \subseteq {Shake} /\ toClient = {}
  /\ at = "response" => /\ toServer \subseteq {Shake, Request(from)}
                        /\ \A m \in toClient : Continues(m)
                        /\ \A m, n \in toClient : m = n
                        /\ Request(from) \notin toServer \/ toClient = {}

Finishing ==
  /\ due \subseteq Listed
  /\ at \in {"start", "shake"} => from <= total /\ total # 0
  /\ at = "test" => IF total = 0 THEN due \subseteq Printed ELSE from <= total
  /\ at = "done" => due \subseteq Printed

PInv == PagingTypeOK /\ Quiet /\ Prefix /\ Turns /\ Finishing

-----------------------------------------------------------------------------
(* Lemmas. *)

(* The answer to a request for the servers behind those printed continues  *)
(* them, and says 0 of 0 only when everyone is printed.                    *)
LEMMA AnswerContinues ==
  ASSUME roster \in Seq(Addr), NEW n \in 0..Len(roster),
         NEW r \in ListResponses(roster, n)
  PROVE  /\ r.servers \in Seq(Addr)
         /\ r.total \in Nat
         /\ n + Len(r.servers) <= Len(roster)
         /\ \A i \in 1..Len(r.servers) : r.servers[i] = roster[n + i]
         /\ IF r.total = 0 THEN Len(r.servers) = 0 /\ n = Len(roster)
            ELSE n + Len(r.servers) <= r.total
<1> DEFINE last == IF Len(roster) < n + 1 + mMax - 1 THEN Len(roster) ELSE n + 1 + mMax - 1
<1>1. Len(roster) \in Nat /\ n \in Nat /\ mMax \in Nat \ {0}
  BY LenProperties, ListRequestAssumption
<1>2. r = [total   |-> IF n + 1 > Len(roster) THEN 0 ELSE Len(roster),
           servers |-> ListBlock(roster, n + 1)]
  BY <1>1 DEF ListResponses, StartPositions
<1>3. ListBlock(roster, n + 1) = SubSeq(roster, n + 1, last)
  BY DEF ListBlock
<1>4. last \in Nat /\ last <= Len(roster) /\ n <= last
  BY <1>1
<1> HIDE DEF last
<1>5. /\ SubSeq(roster, n + 1, last) \in Seq(Addr)
      /\ Len(SubSeq(roster, n + 1, last)) = last - n
      /\ \A i \in 1..(last - n) : SubSeq(roster, n + 1, last)[i] = roster[n + i]
  <2>1. Len(SubSeq(roster, n + 1, last)) = last - n
    BY <1>1, <1>4
  <2>2. ASSUME NEW i \in 1..(last - n)
        PROVE  SubSeq(roster, n + 1, last)[i] = roster[n + i]
    BY <1>1, <1>4
  <2>3. SubSeq(roster, n + 1, last) \in Seq(Addr)
    BY <1>1, <1>4
  <2>4. QED
    BY <2>1, <2>2, <2>3
<1>6. last = n => n + 1 > Len(roster)
  BY <1>1, <1>4 DEF last
<1>7. r.servers = SubSeq(roster, n + 1, last) /\ Len(r.servers) = last - n
  BY <1>2, <1>3, <1>5
<1>8. /\ r.total \in Nat
      /\ IF r.total = 0 THEN n + 1 > Len(roster) ELSE r.total = Len(roster)
  BY <1>1, <1>2
<1>9. CASE r.total = 0
  <2>1. n = Len(roster) /\ last = n
    BY <1>1, <1>4, <1>8, <1>9
  <2>2. QED
    BY <1>1, <1>5, <1>7, <1>8, <1>9, <2>1
<1>10. CASE r.total # 0
  BY <1>1, <1>4, <1>5, <1>7, <1>8, <1>10
<1>11. QED
  BY <1>9, <1>10

(* Appending what continues the printed addresses keeps them a prefix. *)
LEMMA PrintedGrows ==
  ASSUME PagingTypeOK, Prefix, NEW m, Continues(m)
  PROVE  /\ html \o m.servers \in Seq(Addr)
         /\ Len(html \o m.servers) = Len(html) + Len(m.servers)
         /\ \A i \in 1..Len(html \o m.servers) : (html \o m.servers)[i] = roster[i]
<1>1. /\ html \in Seq(Addr) /\ m.servers \in Seq(Addr)
      /\ Len(html) \in Nat /\ Len(m.servers) \in Nat /\ from = Len(html)
  BY LenProperties DEF PagingTypeOK, Continues
<1> DEFINE s == html \o m.servers
<1>2. /\ s \in Seq(Addr)
      /\ Len(s) = Len(html) + Len(m.servers)
      /\ \A i \in 1..(Len(html) + Len(m.servers)) :
           s[i] = IF i <= Len(html) THEN html[i] ELSE m.servers[i - Len(html)]
  BY <1>1, ConcatProperties
<1> HIDE DEF s
<1>3. ASSUME NEW i \in 1..Len(s) PROVE s[i] = roster[i]
  <2>1. CASE i <= Len(html)
    BY <1>1, <1>2, <2>1 DEF Prefix
  <2>2. CASE ~(i <= Len(html))
    <3>1. i - Len(html) \in 1..Len(m.servers)
      BY <1>1, <1>2, <2>2
    <3>2. s[i] = m.servers[i - Len(html)]
      BY <1>1, <1>2, <2>2
    <3>3. m.servers[i - Len(html)] = roster[from + (i - Len(html))]
      BY <3>1 DEF Continues
    <3>4. from + (i - Len(html)) = i
      BY <1>1
    <3>5. QED
      BY <3>2, <3>3, <3>4
  <2>3. QED
    BY <2>1, <2>2
<1>4. s = html \o m.servers
  BY DEF s
<1>5. QED
  BY <1>2, <1>3, <1>4

(* A datagram that is taken off the network is gone. *)
LEMMA TakenIsGone ==
  ASSUME PInv, repeats' = 0, NEW net, NEW netNext, NEW m,
         \/ repeats' = repeats /\ netNext = net \ {m}
         \/ repeats < MaxRepeats /\ repeats' = repeats + 1 /\ netNext = net
  PROVE  netNext = net \ {m}
BY DEF PInv, Quiet

-----------------------------------------------------------------------------
(* Each action keeps the second invariant. *)

(* The invariant holds before the client starts. *)
LEMMA PagingInitInv == PagingInit => PInv
<1> SUFFICES ASSUME PagingInit PROVE PInv
  OBVIOUS
<1> USE DEF PagingInit, RosterInit
<1>1. PagingTypeOK
  BY DEF PagingTypeOK
<1>2. Quiet /\ Prefix /\ Turns /\ Finishing
  BY DEF Quiet, Prefix, Turns, Finishing
<1>3. QED
  BY <1>1, <1>2 DEF PInv

(* Sending the KEEPALIVE, and the next LISTREQ. *)
LEMMA ClientSends ==
  ASSUME PInv, ClientStart \/ ClientRequest
  PROVE  PInv'
<1> USE DEF PInv
<1>1. CASE ClientStart
  <2> USE <1>1 DEF ClientStart
  <2>1. PagingTypeOK' /\ Quiet' /\ Prefix'
    BY DEF churn, history, PagingTypeOK, Quiet, Prefix
  <2>2. Turns'
    BY DEF Turns, Send
  <2>3. Finishing'
    BY DEF churn, history, Finishing, Listed, Printed
  <2>4. QED
    BY <2>1, <2>2, <2>3
<1>2. CASE ClientRequest
  <2> USE <1>2 DEF ClientRequest
  <2>1. Listed \subseteq Addr
    BY ElementOfSeq DEF Listed, PagingTypeOK
  <2>2. PagingTypeOK' /\ Quiet' /\ Prefix'
    BY <2>1 DEF churn, PagingTypeOK, Quiet, Prefix
  <2>3. Turns'
    BY DEF Turns, Send
  <2>4. Finishing'
    BY DEF churn, Finishing, Listed
  <2>5. QED
    BY <2>2, <2>3, <2>4
<1>3. QED
  BY <1>1, <1>2

(* The end of the client's loop. *)
LEMMA ClientFinishes ==
  ASSUME PInv, ClientDone
  PROVE  PInv'
<1> USE DEF PInv, ClientDone
<1>1. PagingTypeOK' /\ Quiet' /\ Prefix'
  BY DEF network, churn, history, PagingTypeOK, Quiet, Prefix
<1>2. Turns'
  BY DEF network, Turns
<1>3. total = 0
  BY LenProperties DEF Finishing, PagingTypeOK
<1>4. Finishing'
  BY <1>3 DEF churn, history, Finishing, Listed, Printed
<1>5. QED
  BY <1>1, <1>2, <1>4

(* The client receives the HANDSHAKE. *)
LEMMA ClientShakes ==
  ASSUME PInv, repeats' = 0, NEW m \in toClient, ClientShake(m)
  PROVE  PInv'
<1> USE DEF PInv, ClientShake
<1>1. repeats' = 0 /\ toClient' = toClient \ {m}
  BY TakenIsGone DEF Remaining
<1>2. PagingTypeOK' /\ Quiet' /\ Prefix'
  BY <1>1 DEF churn, history, PagingTypeOK, Quiet, Prefix
<1>3. Turns'
  BY <1>1 DEF Turns, Send
<1>4. Finishing'
  BY DEF churn, history, Finishing, Listed
<1>5. QED
  BY <1>2, <1>3, <1>4

(* The client receives the answer to its LISTREQ. *)
LEMMA ClientIsAnswered ==
  ASSUME PInv, repeats' = 0, NEW m \in toClient, ClientResponse(m)
  PROVE  PInv'
<1> USE DEF PInv, ClientResponse
<1>1. repeats' = 0 /\ toClient' = toClient \ {m}
  BY TakenIsGone DEF Remaining
<1>2. Continues(m)
  BY DEF Turns
<1>3. /\ html' \in Seq(Addr)
      /\ Len(html') = Len(html) + Len(m.servers)
      /\ \A i \in 1..Len(html') : html'[i] = roster[i]
  BY <1>2, PrintedGrows
<1>4. /\ roster' = roster /\ leaves' = leaves /\ due' = due
      /\ Len(html) \in Nat /\ Len(m.servers) \in Nat /\ Len(roster) \in Nat
      /\ from = Len(html)
  BY <1>2, LenProperties DEF churn, history, PagingTypeOK, Continues
<1>5. PagingTypeOK'
  BY <1>2, <1>3, <1>4 DEF PagingTypeOK, Continues
<1>6. Quiet' /\ Prefix'
  BY <1>1, <1>2, <1>3, <1>4 DEF Quiet, Prefix, Continues
<1>7. Turns'
  <2>1. toClient' = {}
    BY <1>1 DEF Turns
  <2>2. toServer' \subseteq {Shake}
    BY DEF Turns
  <2>3. QED
    BY <2>1, <2>2 DEF Turns
<1>8. Finishing'
  <2>1. (due \subseteq Listed)'
    BY <1>4 DEF Finishing, Listed
  <2>2. ASSUME total' = 0 PROVE (due \subseteq Printed)'
    <3>1. Len(html') = Len(html) /\ due \subseteq Printed
      BY <1>2, <1>3, <1>4, <2>2 DEF Continues
    <3>2. \A i \in 1..Len(html) : html'[i] = html[i]
      BY <1>3, <3>1 DEF Prefix
    <3>3. Printed' = Printed
      BY <3>1, <3>2 DEF Printed
    <3>4. QED
      BY <1>4, <3>1, <3>3
  <2>3. ASSUME total' # 0 PROVE from' <= total'
    BY <1>2, <2>3 DEF Continues
  <2>4. QED
    BY <2>1, <2>2, <2>3 DEF Finishing
<1>9. QED
  BY <1>5, <1>6, <1>7, <1>8

(* While datagrams are not repeated, the client never receives anything    *)
(* else than the answer to its LISTREQ.                                    *)
LEMMA NothingUnexpected ==
  ASSUME PInv, NEW m \in toClient
  PROVE  ~ClientUnexpected(m)
BY DEF PInv, Turns, Continues, ClientUnexpected

(* The metaserver answers. *)
LEMMA ServeKeepsInv ==
  ASSUME PInv, repeats' = 0, NEW m \in toServer, Serve(m)
  PROVE  PInv'
<1> USE DEF PInv
<1>1. repeats' = 0 /\ toServer' = toServer \ {m}
  BY TakenIsGone DEF Serve, Remaining
<1>2. /\ at' = at /\ from' = from /\ total' = total /\ html' = html
      /\ roster' = roster /\ leaves' = leaves /\ due' = due
  BY DEF Serve, client, churn, history
<1>3. PICK answer \in Answers(m) : toClient' = toClient \cup answer
  BY DEF Serve
<1>4. PagingTypeOK' /\ Quiet' /\ Prefix'
  BY <1>1, <1>2 DEF PagingTypeOK, Quiet, Prefix
<1>5. Finishing'
  BY <1>2 DEF Finishing, Listed, Printed
<1>6. Turns'
  <2>1. CASE at = "start"
    BY <2>1 DEF Turns
  <2>2. CASE at = "shake"
    <3>1. m = Keepalive
      BY <2>2 DEF Turns
    <3>2. answer = {Handshake}
      BY <1>3, <3>1 DEF Answers, Keepalive
    <3>3. QED
      BY <1>1, <1>2, <1>3, <2>2, <3>1, <3>2 DEF Turns
  <2>3. CASE m = Shake
    <3>1. answer = {}
      BY <1>3, <2>3 DEF Answers, Shake
    <3>2. toClient' = toClient
      BY <1>3, <3>1
    <3>3. at # "shake"
      BY <2>3 DEF Turns, Shake, Keepalive
    <3>4. \A x : Continues(x)' = Continues(x)
      BY <1>2 DEF Continues, Printed
    <3>5. CASE at = "response"
      BY <1>1, <1>2, <3>2, <3>4, <3>5 DEF Turns, Request
    <3>6. CASE at # "response"
      BY <1>1, <1>2, <3>2, <3>3, <3>6 DEF Turns
    <3>7. QED
      BY <3>5, <3>6
  <2>4. CASE at = "response" /\ m = Request(from)
    <3>1. PICK r \in ListResponses(roster, from) : answer = {Response(r)}
      BY <1>3, <2>4 DEF Answers, Request
    <3>2. toClient' = {Response(r)}
      BY <1>3, <2>4, <3>1 DEF Turns
    <3>3. roster \in Seq(Addr) /\ from \in 0..Len(roster)
      BY LenProperties DEF PagingTypeOK, Prefix
    <3>4. /\ r.servers \in Seq(Addr)
          /\ r.total \in Nat
          /\ from + Len(r.servers) <= Len(roster)
          /\ \A i \in 1..Len(r.servers) : r.servers[i] = roster[from + i]
          /\ IF r.total = 0 THEN Len(r.servers) = 0 /\ from = Len(roster)
             ELSE from + Len(r.servers) <= r.total
      BY <3>3, AnswerContinues
    <3>5. ASSUME r.total = 0 PROVE due \subseteq Printed
      <4>1. Len(html) = Len(roster) /\ \A i \in 1..Len(roster) : html[i] = roster[i]
        BY <3>4, <3>5 DEF PagingTypeOK, Prefix
      <4>2. Printed = Listed
        BY <4>1 DEF Printed, Listed
      <4>3. QED
        BY <4>2 DEF Finishing
    <3>6. Continues(Response(r))
      BY <3>4, <3>5 DEF Continues, Response
    <3>7. Continues(Response(r))'
      BY <1>2, <3>6 DEF Continues, Printed, Response
    <3>8. QED
      BY <1>1, <1>2, <2>4, <3>2, <3>7 DEF Turns
  <2>5. QED
    BY <2>1, <2>2, <2>3, <2>4 DEF PagingTypeOK, Turns
<1>7. QED
  BY <1>4, <1>5, <1>6

(* A datagram is lost. *)
LEMMA LoseKeepsInv ==
  ASSUME PInv, Lose
  PROVE  PInv'
<1> USE DEF PInv
<1>1. /\ at' = at /\ from' = from /\ total' = total /\ html' = html
      /\ roster' = roster /\ leaves' = leaves /\ due' = due /\ repeats' = repeats
      /\ toServer' \subseteq toServer /\ toClient' \subseteq toClient
  BY DEF Lose, client, churn, history
<1>2. PagingTypeOK' /\ Quiet' /\ Prefix'
  BY <1>1 DEF PagingTypeOK, Quiet, Prefix
<1>3. Finishing'
  BY <1>1 DEF Finishing, Listed, Printed
<1>4. \A x : Continues(x)' = Continues(x)
  BY <1>1 DEF Continues, Printed
<1>5. Turns'
  <2>1. CASE at = "response"
    BY <1>1, <1>4, <2>1 DEF Turns
  <2>2. CASE at # "response"
    BY <1>1, <2>2 DEF Turns
  <2>3. QED
    BY <2>1, <2>2
<1>6. QED
  BY <1>2, <1>3, <1>5

(* A server joins at the end of the list. *)
LEMMA JoinKeepsInv ==
  ASSUME PInv, NEW a \in Addr, ServerJoins(a)
  PROVE  PInv'
<1> USE DEF PInv
<1>1. /\ at' = at /\ from' = from /\ total' = total /\ html' = html
      /\ leaves' = leaves /\ due' = due /\ repeats' = repeats
      /\ toServer' = toServer /\ toClient' = toClient
  BY DEF ServerJoins, client, network
<1>2. /\ roster' \in Seq(Addr)
      /\ Len(roster) \in Nat
      /\ Len(roster') = Len(roster) + 1
      /\ \A i \in 1..Len(roster) : roster'[i] = roster[i]
  <2>1. roster \in Seq(Addr) /\ roster' = Append(roster, a)
    BY DEF ServerJoins, Join, PagingTypeOK
  <2>2. QED
    BY <2>1, AppendElements, LenProperties
<1>3. PagingTypeOK'
  BY <1>1, <1>2 DEF PagingTypeOK
<1>4. Quiet' /\ Prefix'
  BY <1>1, <1>2, LenProperties DEF Quiet, Prefix, PagingTypeOK
<1>5. Finishing'
  <2>1. Listed \subseteq Listed'
    BY <1>2 DEF Listed
  <2>2. QED
    BY <1>1, <2>1 DEF Finishing, Printed
<1>6. ASSUME NEW m, Continues(m) PROVE Continues(m)'
  <2>1. Len(m.servers) \in Nat /\ from \in Nat
    BY <1>6, LenProperties DEF Continues, PagingTypeOK
  <2>2. \A i \in 1..Len(m.servers) : m.servers[i] = roster'[from + i]
    BY <1>2, <1>6, <2>1 DEF Continues
  <2>3. QED
    BY <1>1, <1>2, <1>6, <2>1, <2>2 DEF Continues, Printed
<1>7. Turns'
  <2>1. CASE at = "response"
    BY <1>1, <1>6, <2>1 DEF Turns
  <2>2. CASE at # "response"
    BY <1>1, <2>2 DEF Turns
  <2>3. QED
    BY <2>1, <2>2
<1>8. QED
  BY <1>3, <1>4, <1>5, <1>7

(* Nobody returns, and no repetition is undone: what is quiet after a step *)
(* was quiet before it.                                                    *)
LEMMA QuietBefore ==
  ASSUME Numbers, [PagingNext]_pagingVars
  PROVE  Numbers' /\ (Quiet' => Quiet)
<1>1. leaves' = leaves \/ leaves' = leaves + 1
  BY DEF PagingNext, pagingVars, churn, Client, ClientStart, ClientShake, ClientRequest,
         ClientDone, ClientResponse, ClientUnexpected, Server, Serve, Lose, Churn,
         ServerJoins, ServerLeaves
<1>2. repeats' = repeats \/ repeats' = repeats + 1
  BY DEF PagingNext, pagingVars, network, Client, ClientStart, ClientShake, ClientRequest,
         ClientDone, ClientResponse, ClientUnexpected, Server, Serve, Lose, Churn,
         ServerJoins, ServerLeaves, Remaining
<1>3. QED
  BY <1>1, <1>2 DEF Numbers, Quiet

(* Every step keeps the second invariant while all is quiet. *)
LEMMA QuietStep ==
  ASSUME PInv, [PagingNext]_pagingVars, Quiet'
  PROVE  PInv'
<1>1. repeats' = 0
  BY DEF Quiet
<1>2. CASE Client
  BY <1>1, <1>2, ClientSends, ClientFinishes, ClientShakes, ClientIsAnswered,
     NothingUnexpected DEF Client
<1>3. CASE Server
  BY <1>1, <1>3, ServeKeepsInv DEF Server
<1>4. CASE Lose
  BY <1>4, LoseKeepsInv
<1>5. CASE Churn
  <2>1. ASSUME NEW i \in 1..Len(roster) PROVE ~ServerLeaves(i)
    BY DEF ServerLeaves, PInv, Quiet
  <2>2. QED
    BY <1>5, <2>1, JoinKeepsInv DEF Churn
<1>6. CASE UNCHANGED pagingVars
  <2> USE <1>6 DEF pagingVars, client, network, churn, history
  <2>1. PagingTypeOK' /\ Quiet' /\ Prefix' /\ Finishing'
    BY DEF PInv, PagingTypeOK, Quiet, Prefix, Finishing, Listed, Printed
  <2>2. \A x : Continues(x)' = Continues(x)
    BY DEF Continues, Printed
  <2>3. Turns'
    BY <2>2 DEF PInv, Turns
  <2>4. QED
    BY <2>1, <2>3 DEF PInv
<1>7. QED
  BY <1>2, <1>3, <1>4, <1>5, <1>6 DEF PagingNext

-----------------------------------------------------------------------------
(* Each action keeps the first invariant. *)

(* Whatever position is asked for, the answer is well formed. *)
LEMMA AnswerWellFormed ==
  ASSUME roster \in Seq(Addr), NEW n \in Nat, NEW r \in ListResponses(roster, n)
  PROVE  r.servers \in Seq(Addr) /\ r.total \in Nat
<1>1. Len(roster) \in Nat /\ mMax \in Nat \ {0}
  BY LenProperties, ListRequestAssumption
<1>2. PICK i \in StartPositions(Len(roster), n) :
        r = [total   |-> IF i > Len(roster) THEN 0 ELSE Len(roster),
             servers |-> ListBlock(roster, i)]
  BY DEF ListResponses
<1>3. i \in 1..(Len(roster) + 1)
  BY <1>1 DEF StartPositions
<1> DEFINE last == IF Len(roster) < i + mMax - 1 THEN Len(roster) ELSE i + mMax - 1
<1>4. last \in Nat /\ last <= Len(roster)
  BY <1>1, <1>3
<1>5. ListBlock(roster, i) = SubSeq(roster, i, last)
  BY DEF ListBlock
<1> HIDE DEF last
<1>6. SubSeq(roster, i, last) \in Seq(Addr)
  BY <1>1, <1>3, <1>4
<1>7. QED
  BY <1>1, <1>2, <1>5, <1>6

(* The client sends well-formed datagrams, and counts what it prints. *)
LEMMA ClientTyped ==
  ASSUME TInv, Client
  PROVE  PagingTypeOK' /\ WellFormed'
<1> USE DEF TInv
<1>1. CASE ClientStart
  BY <1>1 DEF ClientStart, Send, churn, history, PagingTypeOK, WellFormed
<1>2. CASE ClientRequest
  <2> USE <1>2 DEF ClientRequest
  <2>1. Listed \subseteq Addr
    BY ElementOfSeq DEF Listed, PagingTypeOK
  <2>2. from \in Nat
    BY LenProperties DEF PagingTypeOK
  <2>3. PagingTypeOK'
    BY <2>1 DEF churn, PagingTypeOK
  <2>4. WellFormed'
    BY <2>2 DEF Send, WellFormed
  <2>5. QED
    BY <2>3, <2>4
<1>3. CASE ClientDone
  BY <1>3 DEF ClientDone, network, churn, history, PagingTypeOK, WellFormed
<1>4. ASSUME NEW m \in toClient, ClientShake(m)
      PROVE  PagingTypeOK' /\ WellFormed'
  BY <1>4 DEF ClientShake, Remaining, Send, churn, history, PagingTypeOK, WellFormed
<1>5. ASSUME NEW m \in toClient, ClientResponse(m)
      PROVE  PagingTypeOK' /\ WellFormed'
  <2> USE <1>5 DEF ClientResponse
  <2>1. m.servers \in Seq(Addr) /\ m.total \in Nat
    BY DEF WellFormed
  <2>2. /\ html \o m.servers \in Seq(Addr)
        /\ Len(html \o m.servers) = Len(html) + Len(m.servers)
    BY <2>1, ConcatProperties DEF PagingTypeOK
  <2>3. PagingTypeOK'
    BY <2>1, <2>2 DEF churn, history, PagingTypeOK
  <2>4. WellFormed'
    BY DEF Remaining, WellFormed
  <2>5. QED
    BY <2>3, <2>4
<1>6. ASSUME NEW m \in toClient, ClientUnexpected(m)
      PROVE  PagingTypeOK' /\ WellFormed'
  BY <1>6 DEF ClientUnexpected, Remaining, churn, history, PagingTypeOK, WellFormed
<1>7. QED
  BY <1>1, <1>2, <1>3, <1>4, <1>5, <1>6 DEF Client

(* The metaserver's answers are well formed. *)
LEMMA ServerTyped ==
  ASSUME TInv, NEW m \in toServer, Serve(m)
  PROVE  PagingTypeOK' /\ WellFormed'
<1> USE DEF TInv
<1>1. PagingTypeOK' /\ toServer' \subseteq toServer
  BY DEF Serve, Remaining, client, churn, history, PagingTypeOK
<1>2. PICK answer \in Answers(m) : toClient' = toClient \cup answer
  BY DEF Serve
<1>3. CASE m = Keepalive
  <2>1. answer = {Handshake}
    BY <1>2, <1>3 DEF Answers, Keepalive
  <2>2. QED
    BY <1>1, <1>2, <2>1 DEF WellFormed, Handshake
<1>4. CASE m = Shake
  <2>1. answer = {}
    BY <1>2, <1>4 DEF Answers, Shake
  <2>2. QED
    BY <1>1, <1>2, <2>1 DEF WellFormed
<1>5. ASSUME NEW n \in Nat, m = Request(n)
      PROVE  WellFormed'
  <2>1. PICK r \in ListResponses(roster, n) : answer = {Response(r)}
    BY <1>2, <1>5 DEF Answers, Request
  <2>2. r.servers \in Seq(Addr) /\ r.total \in Nat
    BY <2>1, AnswerWellFormed DEF PagingTypeOK
  <2>3. QED
    BY <1>1, <1>2, <2>1, <2>2 DEF WellFormed, Response
<1>6. QED
  BY <1>1, <1>3, <1>4, <1>5 DEF WellFormed

(* The list stays a list of servers. *)
LEMMA ChurnTyped ==
  ASSUME TInv, Churn
  PROVE  PagingTypeOK' /\ WellFormed'
<1> USE DEF TInv
<1>1. ASSUME NEW a \in Addr, ServerJoins(a)
      PROVE  PagingTypeOK' /\ WellFormed'
  <2>1. roster' \in Seq(Addr)
    BY <1>1, AppendElements DEF ServerJoins, Join, PagingTypeOK
  <2>2. QED
    BY <1>1, <2>1 DEF ServerJoins, client, network, PagingTypeOK, WellFormed
<1>2. ASSUME NEW i \in 1..Len(roster), ServerLeaves(i)
      PROVE  PagingTypeOK' /\ WellFormed'
  <2>1. roster' \in Seq(Addr)
    BY <1>2, RemoveAtElements DEF ServerLeaves, Leave, PagingTypeOK
  <2>2. QED
    BY <1>2, <2>1 DEF ServerLeaves, client, network, PagingTypeOK, WellFormed
<1>3. QED
  BY <1>1, <1>2 DEF Churn

(* Every step keeps the first invariant. *)
LEMMA TypeStep ==
  ASSUME TInv, [PagingNext]_pagingVars
  PROVE  TInv'
<1>1. Numbers'
  BY QuietBefore DEF TInv
<1>2. CASE Client
  BY <1>1, <1>2, ClientTyped DEF TInv
<1>3. CASE Server
  BY <1>1, <1>3, ServerTyped DEF TInv, Server
<1>4. CASE Lose
  BY <1>1, <1>4 DEF Lose, client, churn, history, TInv, PagingTypeOK, WellFormed
<1>5. CASE Churn
  BY <1>1, <1>5, ChurnTyped DEF TInv
<1>6. CASE UNCHANGED pagingVars
  BY <1>1, <1>6 DEF pagingVars, client, network, churn, history, TInv, PagingTypeOK, WellFormed
<1>7. QED
  BY <1>2, <1>3, <1>4, <1>5, <1>6 DEF PagingNext

-----------------------------------------------------------------------------
(* The theorems. *)

(* Both invariants hold in every state.                                    *)
THEOREM PagingInvariance == PagingSafety => [](TInv /\ (Quiet => PInv))
<1>1. PagingInit => TInv
  BY PagingInitInv DEF PagingInit, PInv, TInv, Numbers, WellFormed
<1>2. TInv /\ (Quiet => PInv) /\ [PagingNext]_pagingVars => TInv' /\ (Quiet => PInv)'
  <2> SUFFICES ASSUME TInv, Quiet => PInv, [PagingNext]_pagingVars
               PROVE  TInv' /\ (Quiet' => PInv')
    OBVIOUS
  <2>1. Quiet' => Quiet
    BY QuietBefore DEF TInv
  <2>2. QED
    BY <2>1, QuietStep, TypeStep
<1>3. QED
  BY <1>1, <1>2, PagingInitInv, PTL DEF PagingSafety

(* Whatever joins and leaves the list, and whatever datagrams are          *)
(* repeated, the client's counter is the number of the addresses printed.  *)
THEOREM PagingTypeCorrect == PagingSafety => []PagingTypeOK
<1>1. TInv => PagingTypeOK
  BY DEF TInv
<1>2. QED
  BY <1>1, PagingInvariance, PTL

(* However many servers are listed, whatever a LISTRESP can hold and       *)
(* however the servers' registrations fall between the client's requests,  *)
(* the client prints the list from its beginning without a gap or a        *)
(* repetition, and is not done before everyone listed at its last request  *)
(* is printed, until a server leaves or a datagram is repeated.            *)
THEOREM ListingComplete == PagingSafety => []PagingComplete
<1>1. (Quiet => PInv) => PagingComplete
  BY DEF PInv, Quiet, Prefix, Finishing, PagingComplete
<1>2. QED
  BY <1>1, PagingInvariance, PTL
=============================================================================
