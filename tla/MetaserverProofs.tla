-------------------------- MODULE MetaserverProofs --------------------------
(***************************************************************************)
(* Proofs about module Metaserver, for any hosts, datagrams, handshake     *)
(* values, intervals and bounds, and about the loop of module EventLoop in *)
(* it, for any receive buffer, build and command: the safety of the        *)
(* reaping clock and of the signal handlers rests on the order of the      *)
(* statements of Process() alone.                                          *)
(***************************************************************************)
EXTENDS Metaserver, ListLemmas

-----------------------------------------------------------------------------
(* The loop. *)

(* What has been registered and asked for at each stage of the start-up. *)
Registered ==
  /\ pc = "Initialize" => mSignalHandlers = {}
  /\ pc = "Process" => mSignalHandlers = {"SIGINT"}
  /\ pc \in {"alarm"} \cup Serving => mSignalHandlers = Signal
  /\ pc \in Startup => ~armed /\ ~mAlarm
  /\ armed => "SIGALRM" \in mSignalHandlers

(***************************************************************************)
(* Exactly one of three: the next expiry is outstanding, recorded, or      *)
(* being served.  ClockAlive alone is not inductive: without "at most one" *)
(* the test of mAlarm could leave a recorded expiry behind.                *)
(***************************************************************************)
OneClock ==
  /\ pc \in Serving => armed \/ mAlarm \/ pc \in Reaping
  /\ ~(armed /\ mAlarm)
  /\ pc \in Reaping => ~armed /\ ~mAlarm

LoopInv == LoopTypeOK /\ Registered /\ OneClock /\ KilledOnlyAtStartup

(* The invariant holds before the first statement of Initialize(). *)
LEMMA LoopInitInv == LoopInit => LoopInv
<1> SUFFICES ASSUME LoopInit PROVE LoopInv
  OBVIOUS
<1>1. queued \in 0..QueueLimit
  BY LoopAssumption DEF LoopInit
<1>2. QED
  BY <1>1 DEF LoopInit, LoopInv, LoopTypeOK, Registered, OneClock,
    KilledOnlyAtStartup, Startup, Serving, Reaping, InSystem, Ended, Signal

(* Every statement, signal and datagram keeps the invariant. *)
LEMMA LoopNextInv == LoopInv /\ [LoopNext]_loopVars => LoopInv'
<1> SUFFICES ASSUME LoopInv, [LoopNext]_loopVars PROVE LoopInv'
  OBVIOUS
<1> USE LoopAssumption
    DEF LoopInv, LoopTypeOK, Registered, OneClock, KilledOnlyAtStartup,
        Startup, Serving, Reaping, InSystem, Ended, Signal
<1>1. CASE LoopInitialize
  BY <1>1 DEF LoopInitialize, RegisterHandler
<1>2. CASE LoopRegisterAlarm
  BY <1>2 DEF LoopRegisterAlarm, RegisterHandler
<1>3. CASE LoopFirstAlarm
  BY <1>3 DEF LoopFirstAlarm
<1>4. CASE LoopCheckQuit
  BY <1>4 DEF LoopCheckQuit
<1>5. CASE LoopCheckAlarm
  BY <1>5 DEF LoopCheckAlarm
<1>6. CASE LoopReapHook
  BY <1>6 DEF LoopReapHook
<1>7. CASE LoopReaperDone
  BY <1>7 DEF LoopReaperDone
<1>8. CASE LoopBlock
  BY <1>8 DEF LoopBlock
<1>9. CASE LoopReceive
  BY <1>9 DEF LoopReceive
<1>10. CASE LoopHookReturns
  BY <1>10 DEF LoopHookReturns
<1>11. CASE SIGALRM
  BY <1>11 DEF SIGALRM, Dispatcher
<1>12. CASE SIGINT
  BY <1>12 DEF SIGINT, Dispatcher
<1>13. CASE Arrive
  BY <1>13 DEF Arrive
<1>14. CASE UNCHANGED loopVars
  BY <1>14 DEF loopVars
<1>15. QED
  BY <1>1, <1>2, <1>3, <1>4, <1>5, <1>6, <1>7, <1>8, <1>9, <1>10, <1>11, <1>12,
     <1>13, <1>14 DEF LoopNext, Loop

(* LoopInv holds in every reachable state of the loop. *)
THEOREM LoopInvariance == LoopSafety => []LoopInv
BY LoopInitInv, LoopNextInv, PTL DEF LoopSafety

(* The loop's variables keep their types: TypeOK of the loop. *)
THEOREM LoopTypeCorrect == LoopSafety => []LoopTypeOK
BY LoopInvariance, PTL DEF LoopInv

(***************************************************************************)
(* The reaping clock never stops: for any build, command and buffer size,  *)
(* the serving process has an alarm outstanding, or its expiry recorded,   *)
(* or the Reaper at work.                                                  *)
(***************************************************************************)
THEOREM ClockNeverStops == LoopSafety => []ClockAlive
<1>1. LoopInv => ClockAlive
  BY DEF LoopInv, OneClock, ClockAlive
<1>2. QED
  BY <1>1, LoopInvariance, PTL

(***************************************************************************)
(* No alarm outruns its handler, and once SIGINT is handled no signal ends *)
(* the process by its default action.                                      *)
(***************************************************************************)
THEOREM HandlersPrecedeSignals == LoopSafety => []KilledOnlyAtStartup
BY LoopInvariance, PTL DEF LoopInv

-----------------------------------------------------------------------------
(* The four things a step can do to a list. *)

Same(w) == lists'[w] = lists[w]

Erases(w) == \E i \in 1..Len(lists[w]) : lists'[w] = RemoveAt(lists[w], i)

\* An address joins an active list only when it is not on it.
Adds(w) ==
  \E a \in Addr, h \in Nat :
    /\ lists'[w] = Append(lists[w], Entry(a, h, now))
    /\ w \in ActiveList => a \notin AddrsOf(lists[w])

Renews(w) ==
  \E j \in 1..Len(lists[w]) :
    lists'[w] = [lists[w] EXCEPT ![j] = [@ EXCEPT !.ts = now]]

Changes(w) == Same(w) \/ Erases(w) \/ Adds(w) \/ Renews(w)

ListsChange ==
  /\ lists' = [w \in ListType |-> lists'[w]]
  /\ \A w \in ListType : Changes(w)

(* The two searches return a position of the list, and FindByAddr finds an *)
(* address that is there.                                                  *)
LEMMA FindProperties ==
  ASSUME NEW l \in Seq(Handshake), NEW h, NEW a
  PROVE  /\ FindByHS(l, h) \subseteq 1..Len(l)
         /\ FindByAddr(l, a) \subseteq 1..Len(l)
         /\ \A i \in FindByAddr(l, a) : l[i].addr = a
         /\ FindByAddr(l, a) = {} => a \notin AddrsOf(l)
<1>1. FindByAddr(l, a) = {} => a \notin AddrsOf(l)
  <2> SUFFICES ASSUME a \in AddrsOf(l) PROVE FindByAddr(l, a) # {}
    OBVIOUS
  <2> DEFINE T == {i \in 1..Len(l) : l[i].addr = a}
  <2>1. DOMAIN l = 1..Len(l) /\ Len(l) \in Nat
    BY LenProperties
  <2>2. T \in SUBSET Nat /\ T # {}
    BY <2>1 DEF AddrsOf
  <2>3. PICK i \in T : \A j \in T : i <= j
    <3> HIDE DEF T
    <3> QED BY <2>2, FirstExists
  <2>4. \A j \in 1..(i - 1) : l[j].addr # a
    BY <2>1, <2>3
  <2>5. i \in FindByAddr(l, a)
    BY <2>3, <2>4 DEF FindByAddr
  <2>6. QED
    BY <2>5
<1>2. QED
  BY <1>1 DEF FindByHS, FindByAddr

(* Reaper() visits the four lists, each once. *)
LEMMA ReapOrderProperties ==
  /\ Len(ReapOrder) = 4
  /\ ReapOrder[1] = "SERVER_LIST"
  /\ ReapOrder[2] = "CLIENT_LIST"
  /\ ReapOrder[3] = "SERVER_HANDSHAKE_LIST"
  /\ ReapOrder[4] = "CLIENT_HANDSHAKE_LIST"
  /\ \A k \in 1..4 : ReapOrder[k] \in ListType
  /\ \A w \in ListType : \E k \in 1..4 : ReapOrder[k] = w
BY DEF ReapOrder, ListType, ActiveList, HandshakeList

(* A KEEPALIVE adds one entry to its pending list. *)
LEMMA IssueChange ==
  ASSUME TypeOK, NEW d \in Datagrams, NEW p \in HandshakeList, IssueHandshake(p, d)
  PROVE  ListsChange
<1>1. PICK h \in HandshakeValue :
        lists' = [lists EXCEPT ![p] = Append(@, Entry(SenderAddr(d), h, now))]
  BY DEF IssueHandshake
<1>2. SenderAddr(d) \in Addr /\ h \in Nat
  BY MetaserverAssumption DEF SenderAddr, Datagram
<1>3. p \in ListType /\ p \notin ActiveList
  BY DEF ListType, ActiveList, HandshakeList
<1>4. lists'[p] = Append(lists[p], Entry(SenderAddr(d), h, now))
  BY <1>1, <1>3 DEF TypeOK
<1>5. Adds(p)
  BY <1>2, <1>3, <1>4 DEF Adds
<1>6. \A w \in ListType \ {p} : Same(w)
  BY <1>1 DEF TypeOK, Same
<1>7. QED
  BY <1>1, <1>5, <1>6 DEF ListsChange, Changes, TypeOK

(* A SHAKE leaves both its lists alone, or takes one entry off the pending *)
(* list and renews or adds one on the active list.                         *)
LEMMA ShakeChange ==
  ASSUME TypeOK, NEW d \in Datagrams, NEW p \in HandshakeList, NEW c \in ActiveList,
         \/ BogusShake(p, d)
         \/ RenewActive(p, c, d)
         \/ EnlistActive(p, c, d)
  PROVE  ListsChange
<1>1. p \in ListType /\ c \in ListType /\ p # c
  BY DEF ListType, ActiveList, HandshakeList
<1>2. SenderAddr(d) \in Addr /\ 0 \in Nat
  BY MetaserverAssumption DEF SenderAddr, Datagram
<1>3. lists[p] \in Seq(Handshake) /\ lists[c] \in Seq(Handshake)
  BY <1>1 DEF TypeOK
<1>4. CASE BogusShake(p, d)
  BY <1>4 DEF BogusShake, ListsChange, Changes, Same, TypeOK
<1>5. CASE RenewActive(p, c, d)
  <2>1. PICK i \in FindByHS(lists[p], d.arg), j \in FindByAddr(lists[c], SenderAddr(d)) :
          lists' = [lists EXCEPT ![p] = RemoveAt(@, i), ![c][j].ts = now]
    BY <1>5 DEF RenewActive
  <2>2. i \in 1..Len(lists[p]) /\ j \in 1..Len(lists[c])
    BY <1>3, FindProperties
  <2>3. lists'[p] = RemoveAt(lists[p], i)
    BY <1>1, <2>1 DEF TypeOK
  <2>4. lists'[c] = [lists[c] EXCEPT ![j] = [@ EXCEPT !.ts = now]]
    BY <1>1, <2>1 DEF TypeOK
  <2>5. Erases(p) /\ Renews(c)
    BY <2>2, <2>3, <2>4 DEF Erases, Renews
  <2>6. \A w \in ListType \ {p, c} : Same(w)
    BY <1>1, <2>1 DEF TypeOK, Same
  <2>7. lists' = [w \in ListType |-> lists'[w]]
    BY <2>1 DEF TypeOK
  <2>8. QED
    BY <2>5, <2>6, <2>7 DEF ListsChange, Changes
<1>6. CASE EnlistActive(p, c, d)
  <2>1. PICK i \in FindByHS(lists[p], d.arg) :
          lists' = [lists EXCEPT ![p] = RemoveAt(@, i),
                                 ![c] = Append(@, Entry(SenderAddr(d), 0, now))]
    BY <1>6 DEF EnlistActive
  <2>2. SenderAddr(d) \notin AddrsOf(lists[c])
    BY <1>3, <1>6, FindProperties DEF EnlistActive
  <2>3. i \in 1..Len(lists[p])
    BY <1>3, FindProperties
  <2>4. lists'[p] = RemoveAt(lists[p], i)
    BY <1>1, <2>1 DEF TypeOK
  <2>5. lists'[c] = Append(lists[c], Entry(SenderAddr(d), 0, now))
    BY <1>1, <2>1 DEF TypeOK
  <2>6. Erases(p) /\ Adds(c)
    BY <1>2, <2>2, <2>3, <2>4, <2>5 DEF Erases, Adds
  <2>7. \A w \in ListType \ {p, c} : Same(w)
    BY <1>1, <2>1 DEF TypeOK, Same
  <2>8. lists' = [w \in ListType |-> lists'[w]]
    BY <2>1 DEF TypeOK
  <2>9. QED
    BY <2>6, <2>7, <2>8 DEF ListsChange, Changes
<1>7. QED
  BY <1>4, <1>5, <1>6

(* A TERMINATE leaves the lists alone or erases one active server. *)
LEMMA TerminateChange ==
  ASSUME TypeOK, NEW d \in Datagrams, HandleTerminate(d)
  PROVE  ListsChange
<1>1. CASE UNCHANGED lists
  BY <1>1 DEF ListsChange, Changes, Same, TypeOK
<1>2. CASE \E i \in FindByAddr(lists["SERVER_LIST"], SenderAddr(d)) :
             lists' = [lists EXCEPT !["SERVER_LIST"] = RemoveAt(@, i)]
  <2>1. PICK i \in FindByAddr(lists["SERVER_LIST"], SenderAddr(d)) :
             lists' = [lists EXCEPT !["SERVER_LIST"] = RemoveAt(@, i)]
    BY <1>2
  <2>2. "SERVER_LIST" \in ListType
    BY DEF ListType, ActiveList
  <2>3. i \in 1..Len(lists["SERVER_LIST"])
    BY <2>2, FindProperties DEF TypeOK
  <2>4. Erases("SERVER_LIST")
    BY <2>1, <2>2, <2>3 DEF Erases, TypeOK
  <2>5. \A w \in ListType \ {"SERVER_LIST"} : Same(w)
    BY <2>1 DEF TypeOK, Same
  <2>6. lists' = [w \in ListType |-> lists'[w]]
    BY <2>1 DEF TypeOK
  <2>7. QED
    BY <2>4, <2>5, <2>6 DEF ListsChange, Changes
<1>3. QED
  BY <1>1, <1>2 DEF HandleTerminate

(* The Reaper erases the entry its iterator is at. *)
LEMMA EraseLeadChange ==
  ASSUME TypeOK, lead <= Len(Reaped), EraseLead
  PROVE  ListsChange
<1>1. ReapOrder[which] \in ListType
  BY ReapOrderProperties DEF TypeOK
<1>2. lead \in 1..Len(Reaped)
  BY <1>1, LenProperties DEF TypeOK, Reaped
<1>3. Erases(ReapOrder[which])
  BY <1>1, <1>2 DEF Erases, EraseLead, Reaped, TypeOK
<1>4. \A w \in ListType \ {ReapOrder[which]} : Same(w)
  BY DEF EraseLead, TypeOK, Same
<1>5. QED
  BY <1>3, <1>4 DEF ListsChange, Changes, EraseLead, TypeOK

-----------------------------------------------------------------------------
(* What those changes preserve. *)

(* The lists stay lists of Handshake. *)
LEMMA ListsTyped ==
  ASSUME TypeOK, ListsChange
  PROVE  lists' \in [ListType -> Seq(Handshake)]
<1>1. ASSUME NEW w \in ListType PROVE lists'[w] \in Seq(Handshake)
  <2>1. lists[w] \in Seq(Handshake) /\ now \in Nat
    BY DEF TypeOK
  <2>2. CASE Same(w)
    BY <2>1, <2>2 DEF Same
  <2>3. CASE Erases(w)
    BY <2>1, <2>3, RemoveAtElements DEF Erases
  <2>4. CASE Adds(w)
    BY <2>1, <2>4, AppendElements DEF Adds, Entry, Handshake
  <2>5. CASE Renews(w)
    <3>1. PICK j \in 1..Len(lists[w]) :
            lists'[w] = [lists[w] EXCEPT ![j] = [@ EXCEPT !.ts = now]]
      BY <2>5 DEF Renews
    <3>2. lists[w][j] \in Handshake
      BY <2>1, ElementOfSeq
    <3>3. [lists[w][j] EXCEPT !.ts = now] \in Handshake
      BY <2>1, <3>2 DEF Handshake
    <3>4. QED
      BY <2>1, <3>1, <3>3, ExceptSeq
  <2>6. QED
    BY <2>2, <2>3, <2>4, <2>5 DEF ListsChange, Changes
<1>2. QED
  BY <1>1 DEF ListsChange

(* An entry's timestamp is one that the list already had, or the time now. *)
LEMMA TimestampsOldOrNow ==
  ASSUME TypeOK, ListsChange, NEW w \in ListType, NEW i \in 1..Len(lists'[w])
  PROVE  \/ lists'[w][i].ts = now
         \/ \E j \in 1..Len(lists[w]) : lists'[w][i].ts = lists[w][j].ts
<1>1. lists[w] \in Seq(Handshake) /\ now \in Nat /\ Len(lists[w]) \in Nat
  BY LenProperties DEF TypeOK
<1>2. CASE Same(w)
  BY <1>2 DEF Same
<1>3. CASE Erases(w)
  <2>1. PICK k \in 1..Len(lists[w]) : lists'[w] = RemoveAt(lists[w], k)
    BY <1>3 DEF Erases
  <2>2. /\ Len(lists'[w]) = Len(lists[w]) - 1
        /\ lists'[w][i] = IF i < k THEN lists[w][i] ELSE lists[w][i + 1]
    BY <1>1, <2>1, RemoveAtElements
  <2>3. QED
    BY <1>1, <2>2
<1>4. CASE Adds(w)
  <2>1. PICK a \in Addr, h \in Nat : lists'[w] = Append(lists[w], Entry(a, h, now))
    BY <1>4 DEF Adds
  <2>2. Entry(a, h, now) \in Handshake /\ Entry(a, h, now).ts = now
    BY <1>1 DEF Entry, Handshake
  <2>3. /\ Len(lists'[w]) = Len(lists[w]) + 1
        /\ lists'[w][i] = IF i <= Len(lists[w]) THEN lists[w][i] ELSE Entry(a, h, now)
    BY <1>1, <2>1, <2>2, AppendElements
  <2>4. QED
    BY <1>1, <2>2, <2>3
<1>5. CASE Renews(w)
  <2>1. PICK j \in 1..Len(lists[w]) :
          lists'[w] = [lists[w] EXCEPT ![j] = [@ EXCEPT !.ts = now]]
    BY <1>5 DEF Renews
  <2>2. lists[w][j] \in Handshake
    BY <1>1, ElementOfSeq
  <2>3. /\ [lists[w][j] EXCEPT !.ts = now] \in Handshake
        /\ [lists[w][j] EXCEPT !.ts = now].ts = now
    BY <1>1, <2>2 DEF Handshake
  <2>4. /\ Len(lists'[w]) = Len(lists[w])
        /\ lists'[w][i] = IF i = j THEN [lists[w][j] EXCEPT !.ts = now] ELSE lists[w][i]
    BY <1>1, <2>1, <2>3, ExceptSeq
  <2>5. QED
    BY <2>3, <2>4
<1>6. QED
  BY <1>2, <1>3, <1>4, <1>5 DEF ListsChange, Changes

(* No change of a list puts an address twice on an active list. *)
LEMMA UniqueKept ==
  ASSUME TypeOK, UniqueActive, ListsChange
  PROVE  UniqueActive'
<1> SUFFICES ASSUME NEW w \in ActiveList,
                    NEW i \in DOMAIN lists'[w], NEW j \in DOMAIN lists'[w],
                    lists'[w][i].addr = lists'[w][j].addr
             PROVE  i = j
  BY DEF UniqueActive
<1>1. w \in ListType
  BY DEF ListType
<1>2. lists[w] \in Seq(Handshake) /\ now \in Nat /\ Len(lists[w]) \in Nat
      /\ DOMAIN lists[w] = 1..Len(lists[w])
  BY <1>1, LenProperties DEF TypeOK
<1>3. lists'[w] \in Seq(Handshake) /\ DOMAIN lists'[w] = 1..Len(lists'[w])
  BY <1>1, ListsTyped, LenProperties
<1>4. \A m, n \in 1..Len(lists[w]) : lists[w][m].addr = lists[w][n].addr => m = n
  BY <1>2 DEF UniqueActive
<1>5. CASE Same(w)
  BY <1>2, <1>4, <1>5 DEF Same
<1>6. CASE Erases(w)
  <2>1. PICK k \in 1..Len(lists[w]) : lists'[w] = RemoveAt(lists[w], k)
    BY <1>6 DEF Erases
  <2>2. /\ Len(lists'[w]) = Len(lists[w]) - 1
        /\ \A m \in 1..(Len(lists[w]) - 1) :
             lists'[w][m] = IF m < k THEN lists[w][m] ELSE lists[w][m + 1]
    BY <1>2, <2>1, RemoveAtElements
  <2> DEFINE old(m) == IF m < k THEN m ELSE m + 1
  <2>3. i \in 1..(Len(lists[w]) - 1) /\ j \in 1..(Len(lists[w]) - 1)
    BY <1>3, <2>2
  <2>4. old(i) \in 1..Len(lists[w]) /\ old(j) \in 1..Len(lists[w])
    BY <1>2, <2>3
  <2>5. lists'[w][i] = lists[w][old(i)] /\ lists'[w][j] = lists[w][old(j)]
    BY <2>2, <2>3
  <2>6. old(i) = old(j)
    <3> HIDE DEF old
    <3> QED BY <1>4, <2>4, <2>5
  <2>7. QED
    BY <2>3, <2>6
<1>7. CASE Adds(w)
  <2>1. PICK a \in Addr, h \in Nat :
          /\ lists'[w] = Append(lists[w], Entry(a, h, now))
          /\ a \notin AddrsOf(lists[w])
    BY <1>7 DEF Adds
  <2>2. Entry(a, h, now) \in Handshake /\ Entry(a, h, now).addr = a
    BY <1>2 DEF Entry, Handshake
  <2>3. /\ Len(lists'[w]) = Len(lists[w]) + 1
        /\ \A m \in 1..(Len(lists[w]) + 1) :
             lists'[w][m] = IF m <= Len(lists[w]) THEN lists[w][m] ELSE Entry(a, h, now)
    BY <1>2, <2>1, <2>2, AppendElements
  <2>4. \A m \in 1..Len(lists[w]) : lists[w][m].addr # a
    BY <1>2, <2>1 DEF AddrsOf
  <2>5. \A m \in 1..(Len(lists[w]) + 1) :
          lists'[w][m].addr = IF m <= Len(lists[w]) THEN lists[w][m].addr ELSE a
    BY <2>2, <2>3
  <2>6. i \in 1..(Len(lists[w]) + 1) /\ j \in 1..(Len(lists[w]) + 1)
    BY <1>3, <2>3
  <2>7. CASE i <= Len(lists[w]) /\ j <= Len(lists[w])
    BY <1>2, <1>4, <2>5, <2>6, <2>7
  <2>8. CASE i <= Len(lists[w]) /\ ~(j <= Len(lists[w]))
    BY <1>2, <2>4, <2>5, <2>6, <2>8
  <2>9. CASE ~(i <= Len(lists[w])) /\ j <= Len(lists[w])
    BY <1>2, <2>4, <2>5, <2>6, <2>9
  <2>10. CASE ~(i <= Len(lists[w])) /\ ~(j <= Len(lists[w]))
    BY <1>2, <2>6, <2>10
  <2>11. QED
    BY <2>7, <2>8, <2>9, <2>10
<1>8. CASE Renews(w)
  <2>1. PICK k \in 1..Len(lists[w]) :
          lists'[w] = [lists[w] EXCEPT ![k] = [@ EXCEPT !.ts = now]]
    BY <1>8 DEF Renews
  <2>2. lists[w][k] \in Handshake
    BY <1>2, ElementOfSeq
  <2>3. /\ [lists[w][k] EXCEPT !.ts = now] \in Handshake
        /\ [lists[w][k] EXCEPT !.ts = now].addr = lists[w][k].addr
    BY <1>2, <2>2 DEF Handshake
  <2>4. /\ Len(lists'[w]) = Len(lists[w])
        /\ \A m \in 1..Len(lists[w]) :
             lists'[w][m] = IF m = k THEN [lists[w][k] EXCEPT !.ts = now] ELSE lists[w][m]
    BY <1>2, <2>1, <2>3, ExceptSeq
  <2>5. \A m \in 1..Len(lists[w]) : lists'[w][m].addr = lists[w][m].addr
    BY <2>3, <2>4
  <2>6. i \in 1..Len(lists[w]) /\ j \in 1..Len(lists[w])
    BY <1>3, <2>4
  <2>7. QED
    BY <1>4, <2>5, <2>6
<1>9. QED
  BY <1>1, <1>5, <1>6, <1>7, <1>8 DEF ListsChange, Changes

-----------------------------------------------------------------------------
(* Steps. *)

(* Whatever Metaserver adds to it, a step is one of the event loop's. *)
LEMMA NextIsLoopNext == [Next]_vars => [LoopNext]_loopVars
BY DEF Next, Process, Kernel, Reaper, vars, LoopNext, Loop,
       Initialize, RegisterAlarm, FirstAlarm, CheckQuit, CheckAlarm, Block,
       ReapErase, ReapHook, ReapKeep, NextReapList, ReaperDone,
       Receive, HookReturns, AlarmSignal, InterruptSignal, DatagramArrives, Tick

(* While the command of a DEBUG build's Reaper runs, the iterator stays at *)
(* the stale server that is about to be erased.                            *)
AtLead ==
  pc = "systemReap" => /\ which = 1
                       /\ lead <= Len(Reaped)
                       /\ Stale(Reaped[lead])

(* The actions that leave the lists alone. *)
Quiet ==
  \/ Initialize \/ RegisterAlarm \/ FirstAlarm \/ CheckQuit \/ CheckAlarm
  \/ Block \/ ReapHook \/ ReapKeep \/ NextReapList \/ ReaperDone
  \/ AlarmSignal \/ InterruptSignal \/ DatagramArrives \/ Tick

(* Those actions change no list. *)
LEMMA QuietSame == Quiet => UNCHANGED lists
BY DEF Quiet, Initialize, RegisterAlarm, FirstAlarm, CheckQuit, CheckAlarm, Block,
       ReapHook, ReapKeep, NextReapList, ReaperDone,
       AlarmSignal, InterruptSignal, DatagramArrives, Tick

(* A datagram changes the lists in the ways above. *)
LEMMA ReceiveChange ==
  ASSUME TypeOK, NEW d \in Datagrams, Receive(d)
  PROVE  ListsChange
<1>1. CASE HandleServerKeepalive(d)
  BY <1>1, IssueChange DEF HandleServerKeepalive, HandshakeList
<1>2. CASE HandleClientKeepalive(d)
  BY <1>2, IssueChange DEF HandleClientKeepalive, HandshakeList
<1>3. CASE HandleServerShake(d)
  BY <1>3, ShakeChange DEF HandleServerShake, HandshakeList, ActiveList
<1>4. CASE HandleClientShake(d)
  BY <1>4, ShakeChange DEF HandleClientShake, HandshakeList, ActiveList
<1>5. CASE HandleTerminate(d)
  BY <1>5, TerminateChange
<1>6. CASE UNCHANGED lists
  BY <1>6 DEF ListsChange, Changes, Same, TypeOK
<1>7. QED
  BY <1>1, <1>2, <1>3, <1>4, <1>5, <1>6 DEF Receive, HandleListRequest, Ignore

(* Every step does. *)
LEMMA NextChange ==
  ASSUME TypeOK, AtLead, [Next]_vars
  PROVE  ListsChange
<1>1. CASE UNCHANGED lists
  BY <1>1 DEF ListsChange, Changes, Same, TypeOK
<1>2. CASE Quiet
  BY <1>1, <1>2, QuietSame
<1>3. CASE ReapErase
  BY <1>3, EraseLeadChange DEF ReapErase
<1>4. CASE \E d \in Datagrams : Receive(d)
  BY <1>4, ReceiveChange
<1>5. CASE HookReturns
  BY <1>1, <1>5, EraseLeadChange DEF HookReturns, AtLead
<1>6. QED
  BY <1>1, <1>2, <1>3, <1>4, <1>5
  DEF Next, Process, Kernel, Reaper, Quiet, vars, dataVars

-----------------------------------------------------------------------------
(* Types. *)

(* Raising a counter to a natural number raises that counter only. *)
LEMMA RaisePeakProperties ==
  ASSUME peak \in [ListType -> Nat], NEW w \in ListType, NEW n \in Nat
  PROVE  /\ RaisePeak(w, n) \in [ListType -> Nat]
         /\ \A v \in ListType : peak[v] <= RaisePeak(w, n)[v]
         /\ n <= RaisePeak(w, n)[w]
BY DEF RaisePeak

(* The addresses of a list are as many as its entries. *)
LEMMA AddressesType ==
  ASSUME NEW l \in Seq(Handshake)
  PROVE  /\ Addresses(l) \in Seq(Addr)
         /\ Len(Addresses(l)) = Len(l)
         /\ \A i \in 1..Len(l) : Addresses(l)[i] = l[i].addr
<1> DEFINE m == Len(l)
<1>1. m \in Nat
  BY LenProperties
<1>2. ASSUME NEW i \in 1..m PROVE l[i].addr \in Addr
  <2>1. l[i] \in Handshake
    BY <1>1, ElementOfSeq
  <2>2. QED
    BY <2>1 DEF Handshake
<1>3. Addresses(l) \in [1..m -> Addr]
  BY <1>2 DEF Addresses
<1>4. Addresses(l) \in Seq(Addr)
  <2> HIDE DEF m
  <2>1. QED
    BY <1>1, <1>3, FunctionIsSeq DEF m
<1>5. DOMAIN Addresses(l) = 1..m /\ DOMAIN Addresses(l) = 1..Len(Addresses(l))
      /\ Len(Addresses(l)) \in Nat
  BY <1>3, <1>4, LenProperties
<1>6. Len(Addresses(l)) = Len(l)
  <2> HIDE DEF m
  <2>1. QED
    BY <1>1, <1>5 DEF m
<1>7. QED
  BY <1>4, <1>6 DEF Addresses

(* What a LISTRESP holds is a list of addresses. *)
LEMMA ListResponseType ==
  ASSUME TypeOK, NEW from \in Nat, NEW r \in ListResponses(Listed, from)
  PROVE  r.total \in Nat /\ r.servers \in Seq(Addr)
<1>1. Listed \in Seq(Addr) /\ Len(Listed) \in Nat
  <2>1. lists["SERVER_LIST"] \in Seq(Handshake)
    BY DEF TypeOK, ListType, ActiveList
  <2>2. QED
    BY <2>1, AddressesType, LenProperties DEF Listed
<1>2. PICK i \in StartPositions(Len(Listed), from) :
        r = [total   |-> IF i > Len(Listed) THEN 0 ELSE Len(Listed),
             servers |-> ListBlock(Listed, i)]
  BY DEF ListResponses
<1>3. i \in Nat \ {0}
  BY <1>1, <1>2 DEF StartPositions
<1>4. ListBlock(Listed, i) \in Seq(Addr)
  BY <1>1, <1>3, ListRequestAssumption DEF ListBlock
<1>5. QED
  BY <1>1, <1>2, <1>4

(* TypeOK without the loop's part and without the lists. *)
Counters ==
  /\ peak \in [ListType -> Nat]
  /\ mPacketCount \in Nat
  /\ which \in 1..Len(ReapOrder)
  /\ lead \in Nat \ {0}
  /\ now \in Nat
  /\ alarmAt \in Nat
  /\ lag \in 0..Slack

Answers == out \in HandshakeMsg \cup ListResponseMsg \cup {NoReply}

(* A datagram's handler keeps the counters' types and answers, if it does, *)
(* with a HANDSHAKE or a LISTRESP.                                         *)
LEMMA ReceiveTypes ==
  ASSUME TypeOK, NEW d \in Datagrams, Receive(d)
  PROVE  Counters' /\ Answers'
<1> USE DEF Counters, Answers
<1>1. d.src \in EndPoint /\ d.arg \in Nat
  BY MetaserverAssumption DEF Datagram
<1>2. UNCHANGED <<which, lead, now, alarmAt, lag>>
  BY DEF Receive
<1>3. \A w \in ListType : Len(lists[w]) \in Nat
  BY LenProperties DEF TypeOK
<1>4. ASSUME NEW p \in HandshakeList, IssueHandshake(p, d)
      PROVE  Counters' /\ Answers'
  <2>1. p \in ListType
    BY DEF ListType
  <2>2. peak' \in [ListType -> Nat]
    BY <1>3, <1>4, <2>1, RaisePeakProperties DEF IssueHandshake, TypeOK
  <2>3. QED
    BY <1>1, <1>2, <1>4, <2>2 DEF IssueHandshake, Handled, HandshakeMsg, TypeOK
<1>5. CASE HandleServerKeepalive(d)
  BY <1>4, <1>5 DEF HandleServerKeepalive, HandshakeList
<1>6. CASE HandleClientKeepalive(d)
  BY <1>4, <1>6 DEF HandleClientKeepalive, HandshakeList
<1>7. CASE HandleServerShake(d)
  <2>1. peak' \in [ListType -> Nat]
    <3>1. "SERVER_LIST" \in ListType
      BY DEF ListType, ActiveList
    <3>2. Len(lists["SERVER_LIST"]) + 1 \in Nat
      BY <1>3, <3>1
    <3>3. RaisePeak("SERVER_LIST", Len(lists["SERVER_LIST"]) + 1) \in [ListType -> Nat]
      BY <3>1, <3>2, RaisePeakProperties DEF TypeOK
    <3>4. QED
      BY <1>7, <3>3 DEF HandleServerShake, BogusShake, RenewActive, TypeOK
  <2>2. mPacketCount' \in Nat
    BY <1>7 DEF HandleServerShake, BogusShake, RenewActive, RunHook, Handled, TypeOK
  <2>3. QED
    BY <1>2, <1>7, <2>1, <2>2 DEF HandleServerShake, TypeOK
<1>8. CASE HandleClientShake(d)
  <2>1. peak' \in [ListType -> Nat]
    <3>1. "CLIENT_LIST" \in ListType
      BY DEF ListType, ActiveList
    <3>2. Len(lists["CLIENT_LIST"]) + 1 \in Nat
      BY <1>3, <3>1
    <3>3. RaisePeak("CLIENT_LIST", Len(lists["CLIENT_LIST"]) + 1) \in [ListType -> Nat]
      BY <3>1, <3>2, RaisePeakProperties DEF TypeOK
    <3>4. QED
      BY <1>8, <3>3 DEF HandleClientShake, BogusShake, RenewActive, TypeOK
  <2>2. QED
    BY <1>2, <1>8, <2>1
    DEF HandleClientShake, BogusShake, RenewActive, Handled, TypeOK
<1>9. CASE HandleTerminate(d)
  BY <1>2, <1>9 DEF HandleTerminate, RunHook, Handled, TypeOK
<1>10. CASE HandleListRequest(d)
  <2>1. PICK r \in ListResponses(Listed, d.arg) :
          out' = [type |-> "LISTRESP", dst |-> d.src,
                  total |-> r.total, servers |-> r.servers]
    BY <1>10 DEF HandleListRequest
  <2>2. r.total \in Nat /\ r.servers \in Seq(Addr)
    BY <1>1, ListResponseType
  <2>3. out' \in ListResponseMsg
    BY <1>1, <2>1, <2>2 DEF ListResponseMsg
  <2>4. QED
    BY <1>2, <1>10, <2>3 DEF HandleListRequest, Handled, TypeOK
<1>11. CASE Ignore(d)
  BY <1>2, <1>11 DEF Ignore, Handled, TypeOK
<1>12. QED
  BY <1>5, <1>6, <1>7, <1>8, <1>9, <1>10, <1>11 DEF Receive

(* So does every other step. *)
LEMMA NextTypes ==
  ASSUME TypeOK, LoopInv, [Next]_vars
  PROVE  Counters' /\ Answers'
<1>1. \A w \in ListType : Len(lists[w]) \in Nat
  BY LenProperties DEF TypeOK
<1>2. ASSUME NEW n \in 1..4
      PROVE  RaisePeak(ReapOrder[n], Len(lists[ReapOrder[n]])) \in [ListType -> Nat]
  BY <1>1, ReapOrderProperties, RaisePeakProperties DEF TypeOK
<1> USE ReapOrderProperties, MetaserverAssumption DEF Counters, Answers, TypeOK
<1>3. CASE CheckAlarm
  <2>1. RaisePeak(ReapOrder[1], Len(lists[ReapOrder[1]])) \in [ListType -> Nat]
    BY <1>2
  <2>2. CASE mAlarm
    BY <1>3, <2>1, <2>2 DEF CheckAlarm, BeginReapList
  <2>3. CASE ~mAlarm
    BY <1>3, <2>3 DEF CheckAlarm
  <2>4. QED
    BY <2>2, <2>3
<1>4. CASE NextReapList
  <2>1. which + 1 \in 1..4
    BY <1>4 DEF NextReapList
  <2>2. peak' \in [ListType -> Nat]
    BY <1>2, <1>4, <2>1 DEF NextReapList, BeginReapList
  <2>3. QED
    BY <1>4, <2>1, <2>2 DEF NextReapList, BeginReapList
<1>5. CASE ReaperDone
  BY <1>5 DEF ReaperDone, alarm
<1>6. CASE ReapKeep
  BY <1>6 DEF ReapKeep
<1>7. CASE ReapErase \/ ReapHook
  BY <1>7 DEF ReapErase, ReapHook
<1>8. CASE FirstAlarm
  BY <1>8 DEF FirstAlarm, alarm
<1>9. CASE Tick
  BY <1>9 DEF Tick
<1>10. CASE HookReturns
  <2>1. RaisePeak("SERVER_LIST", Len(lists["SERVER_LIST"])) \in [ListType -> Nat]
    BY <1>2
  <2>2. QED
    BY <1>10, <2>1 DEF HookReturns
<1>11. CASE AlarmSignal
  BY <1>11 DEF AlarmSignal
<1>12. CASE Initialize \/ RegisterAlarm \/ CheckQuit \/ Block
            \/ InterruptSignal \/ DatagramArrives \/ UNCHANGED vars
  BY <1>12 DEF Initialize, RegisterAlarm, CheckQuit, Block, InterruptSignal,
               DatagramArrives, vars, dataVars
<1>13. CASE \E d \in Datagrams : Receive(d)
  BY <1>13, ReceiveTypes
<1>14. QED
  BY <1>3, <1>4, <1>5, <1>6, <1>7, <1>8, <1>9, <1>10, <1>11, <1>12, <1>13
  DEF Next, Process, Kernel, Reaper

-----------------------------------------------------------------------------
(* Ages.  BoundedStaleness speaks of the moments when an alarm is armed;   *)
(* to carry it over a sweep, the invariant says what the sweep has already *)
(* established about the entries behind its iterator.                      *)

NotFuture ==
  \A w \in ListType : \A i \in 1..Len(lists[w]) : lists[w][i].ts <= now

AlarmDue == armed => now <= alarmAt /\ alarmAt <= now + REAP_INTERVAL

Covered ==
  armed => \A w \in ListType : \A i \in 1..Len(lists[w]) :
             alarmAt <= lists[w][i].ts + MaxAge

Swept ==
  pc \in Reaping =>
    \A k \in 1..4 : \A i \in 1..Len(lists[ReapOrder[k]]) :
      k < which \/ (k = which /\ i < lead)
        => now <= lists[ReapOrder[k]][i].ts + REAP_INTERVAL + lag

EmptyAtStartup == pc \in Startup => \A w \in ListType : Len(lists[w]) = 0

Ages == NotFuture /\ AlarmDue /\ Covered /\ Swept /\ EmptyAtStartup

Inv == TypeOK /\ LoopInv /\ AtLead /\ UniqueActive /\ PeakCoversLists /\ Ages

(* The timestamps on the lists are natural numbers. *)
LEMMA TimestampsNat ==
  ASSUME TypeOK, NEW w \in ListType, NEW i \in 1..Len(lists[w])
  PROVE  lists[w][i].ts \in Nat
<1>1. lists[w] \in Seq(Handshake)
  BY DEF TypeOK
<1>2. lists[w][i] \in Handshake
  BY <1>1, ElementOfSeq
<1>3. QED
  BY <1>2 DEF Handshake

(* Time does not go back. *)
LEMMA TimeAdvances ==
  ASSUME TypeOK, [Next]_vars
  PROVE  now' \in Nat /\ now <= now' /\ (now' # now => Tick)
BY DEF TypeOK, Next, Process, Kernel, Reaper, vars, dataVars,
       Initialize, RegisterAlarm, FirstAlarm, CheckQuit, CheckAlarm, Block,
       ReapErase, ReapHook, ReapKeep, NextReapList, ReaperDone,
       Receive, HookReturns, AlarmSignal, InterruptSignal, DatagramArrives, Tick

(* Only two statements call alarm(). *)
LEMMA AlarmCalls ==
  ASSUME [Next]_vars, armed'
  PROVE  FirstAlarm \/ ReaperDone \/ (armed /\ alarmAt' = alarmAt)
BY DEF Next, Process, Kernel, Reaper, vars, loopVars, dataVars,
       Initialize, RegisterAlarm, FirstAlarm, CheckQuit, CheckAlarm, Block,
       ReapErase, ReapHook, ReapKeep, NextReapList, ReaperDone,
       Receive, HookReturns, AlarmSignal, InterruptSignal, DatagramArrives, Tick,
       LoopInitialize, LoopRegisterAlarm, LoopCheckQuit, LoopCheckAlarm, LoopBlock,
       LoopReapHook, LoopReceive, LoopHookReturns, SIGALRM, SIGINT, Arrive

(* No step puts a timestamp ahead of the clock. *)
LEMMA NotFutureKept ==
  ASSUME Inv, [Next]_vars
  PROVE  NotFuture'
<1>1. ListsChange
  BY NextChange DEF Inv
<1>2. ASSUME NEW w \in ListType, NEW i \in 1..Len(lists'[w])
      PROVE  lists'[w][i].ts <= now'
  <2>1. now \in Nat /\ now' \in Nat /\ now <= now'
    BY TimeAdvances DEF Inv, TypeOK
  <2>2. CASE lists'[w][i].ts = now
    BY <2>1, <2>2
  <2>3. CASE \E j \in 1..Len(lists[w]) : lists'[w][i].ts = lists[w][j].ts
    <3>1. PICK j \in 1..Len(lists[w]) : lists'[w][i].ts = lists[w][j].ts
      BY <2>3
    <3>2. lists[w][j] \in Handshake /\ lists[w][j].ts <= now
      BY ElementOfSeq DEF Inv, TypeOK, Ages, NotFuture
    <3>3. QED
      BY <2>1, <3>1, <3>2 DEF Handshake
  <2>4. QED
    BY <1>1, <2>2, <2>3, TimestampsOldOrNow DEF Inv
<1>3. QED
  BY <1>2 DEF NotFuture

(* No step lets the clock pass an outstanding alarm, or arms one too late. *)
LEMMA AlarmDueKept ==
  ASSUME Inv, [Next]_vars
  PROVE  AlarmDue'
<1> SUFFICES ASSUME armed' PROVE now' <= alarmAt' /\ alarmAt' <= now' + REAP_INTERVAL
  BY DEF AlarmDue
<1>1. now \in Nat /\ alarmAt \in Nat /\ REAP_INTERVAL \in Nat
  BY MetaserverAssumption DEF Inv, TypeOK
<1>2. CASE FirstAlarm \/ ReaperDone
  BY <1>1, <1>2 DEF FirstAlarm, ReaperDone, alarm
<1>3. CASE armed /\ alarmAt' = alarmAt
  <2>1. now <= alarmAt /\ alarmAt <= now + REAP_INTERVAL
    BY <1>3 DEF Inv, Ages, AlarmDue
  <2>2. CASE Tick
    BY <1>1, <1>3, <2>1, <2>2 DEF Tick
  <2>3. CASE now' = now
    BY <1>1, <1>3, <2>1, <2>3
  <2>4. QED
    BY <2>2, <2>3, TimeAdvances DEF Inv
<1>4. QED
  BY <1>2, <1>3, AlarmCalls

(* Every step keeps the ages that the outstanding alarm covers. *)
LEMMA CoveredKept ==
  ASSUME Inv, [Next]_vars
  PROVE  Covered'
<1> SUFFICES ASSUME armed', NEW w \in ListType, NEW i \in 1..Len(lists'[w])
             PROVE  alarmAt' <= lists'[w][i].ts + MaxAge
  BY DEF Covered
<1>1. /\ now \in Nat /\ alarmAt \in Nat /\ lag \in 0..Slack
      /\ REAP_INTERVAL \in Nat /\ Slack \in Nat
      /\ MaxAge = 2 * REAP_INTERVAL + Slack
  BY MetaserverAssumption DEF Inv, TypeOK, MaxAge
<1>2. \A v \in ListType : \A j \in 1..Len(lists[v]) : lists[v][j].ts \in Nat
  BY TimestampsNat DEF Inv
<1>3. CASE FirstAlarm
  <2>1. Len(lists[w]) = 0 /\ lists' = lists
    BY <1>3 DEF FirstAlarm, LoopFirstAlarm, Inv, Ages, EmptyAtStartup, Startup
  <2>2. QED
    BY <2>1
<1>4. CASE ReaperDone
  <2>1. /\ lists' = lists
        /\ pc \in Reaping /\ which = 4 /\ lead > Len(lists[ReapOrder[4]])
        /\ alarmAt' = now + REAP_INTERVAL
    BY <1>4, ReapOrderProperties
    DEF ReaperDone, LoopReaperDone, Reaping, Reaped, alarm
  <2>2. PICK k \in 1..4 : ReapOrder[k] = w
    BY ReapOrderProperties
  <2>3. Len(lists[ReapOrder[4]]) \in Nat /\ lead \in Nat
    BY ReapOrderProperties, LenProperties DEF Inv, TypeOK
  <2>4. k < which \/ (k = which /\ i < lead)
    BY <2>1, <2>2, <2>3
  <2>5. now <= lists[w][i].ts + REAP_INTERVAL + lag
    BY <2>1, <2>2, <2>4 DEF Inv, Ages, Swept
  <2>6. QED
    BY <1>1, <1>2, <2>1, <2>5
<1>5. CASE armed /\ alarmAt' = alarmAt
  <2>1. alarmAt <= now + REAP_INTERVAL
    BY <1>5 DEF Inv, Ages, AlarmDue
  <2>2. CASE lists'[w][i].ts = now
    BY <1>1, <1>5, <2>1, <2>2
  <2>3. CASE \E j \in 1..Len(lists[w]) : lists'[w][i].ts = lists[w][j].ts
    BY <1>5, <2>3 DEF Inv, Ages, Covered
  <2>4. QED
    BY <2>2, <2>3, NextChange, TimestampsOldOrNow DEF Inv
<1>6. QED
  BY <1>3, <1>4, <1>5, AlarmCalls

(* Nothing is listed before the loop runs. *)
LEMMA EmptyAtStartupKept ==
  ASSUME Inv, [Next]_vars
  PROVE  EmptyAtStartup'
<1> SUFFICES ASSUME pc' \in Startup PROVE pc \in Startup /\ UNCHANGED lists
  BY DEF EmptyAtStartup, Inv, Ages
<1> USE DEF Startup
<1>1. CASE UNCHANGED vars
  BY <1>1 DEF vars, loopVars, dataVars
<1>2. CASE Initialize \/ RegisterAlarm
  BY <1>2 DEF Initialize, RegisterAlarm, LoopInitialize, LoopRegisterAlarm
<1>3. CASE AlarmSignal \/ InterruptSignal
  BY <1>3 DEF AlarmSignal, InterruptSignal, SIGALRM, SIGINT, Dispatcher
<1>4. CASE DatagramArrives \/ Tick
  BY <1>4 DEF DatagramArrives, Tick, Arrive, loopVars
<1>5. CASE FirstAlarm \/ CheckQuit \/ CheckAlarm \/ Block
           \/ ReapHook \/ ReaperDone \/ HookReturns
  BY <1>5 DEF FirstAlarm, CheckQuit, CheckAlarm, Block, ReapHook, ReaperDone,
    HookReturns, LoopFirstAlarm, LoopCheckQuit, LoopCheckAlarm, LoopBlock,
    LoopReapHook, LoopReaperDone, LoopHookReturns
<1>6. CASE ReapErase \/ ReapKeep \/ NextReapList
  BY <1>6 DEF ReapErase, ReapKeep, NextReapList, loopVars
<1>7. CASE \E d \in Datagrams : Receive(d)
  BY <1>7 DEF Receive, LoopReceive
<1>8. QED
  BY <1>1, <1>2, <1>3, <1>4, <1>5, <1>6, <1>7 DEF Next, Process, Kernel, Reaper

(* Erasing the entry at the iterator keeps what lies behind it swept. *)
LEMMA EraseKeepsSwept ==
  ASSUME Inv, pc \in Reaping, lead <= Len(Reaped), EraseLead,
         UNCHANGED <<which, lead, now, lag>>
  PROVE  Swept'
<1> SUFFICES ASSUME NEW k \in 1..4, NEW i \in 1..Len(lists'[ReapOrder[k]]),
                    k < which \/ (k = which /\ i < lead)
             PROVE  now <= lists'[ReapOrder[k]][i].ts + REAP_INTERVAL + lag
  BY DEF Swept
<1>1. which \in 1..4 /\ lists \in [ListType -> Seq(Handshake)] /\ lead \in Nat \ {0}
  BY ReapOrderProperties DEF Inv, TypeOK
<1>2. \A m \in 1..4 : ReapOrder[m] = ReapOrder[which] => m = which
  BY <1>1, ReapOrderProperties
<1>3. CASE k = which
  <2>1. Reaped \in Seq(Handshake) /\ Len(Reaped) \in Nat
    BY <1>1, ReapOrderProperties, LenProperties DEF Reaped
  <2>2. lists'[ReapOrder[k]] = RemoveAt(Reaped, lead)
    BY <1>1, <1>3, ReapOrderProperties DEF EraseLead, Reaped
  <2>3. i < lead /\ lead \in 1..Len(Reaped)
    BY <1>1, <1>3, <2>1
  <2>4. /\ Len(RemoveAt(Reaped, lead)) = Len(Reaped) - 1
        /\ \A j \in 1..(Len(Reaped) - 1) :
             RemoveAt(Reaped, lead)[j] = IF j < lead THEN Reaped[j] ELSE Reaped[j + 1]
    BY <2>1, <2>3, RemoveAtElements
  <2>5. i \in 1..(Len(Reaped) - 1)
    BY <2>2, <2>4
  <2>6. lists'[ReapOrder[k]][i] = Reaped[i] /\ i \in 1..Len(Reaped)
    BY <2>1, <2>2, <2>3, <2>4, <2>5
  <2>7. QED
    BY <1>3, <2>3, <2>6 DEF Inv, Ages, Swept, Reaped
<1>4. CASE k # which
  <2>1. lists'[ReapOrder[k]] = lists[ReapOrder[k]]
    BY <1>1, <1>2, <1>4, ReapOrderProperties DEF EraseLead
  <2>2. QED
    BY <1>4, <2>1 DEF Inv, Ages, Swept
<1>5. QED
  BY <1>3, <1>4

(* What the Reaper has passed stays swept until it asks for the next alarm. *)
LEMMA SweptKept ==
  ASSUME Inv, [Next]_vars
  PROVE  Swept'
<1>1. /\ which \in 1..4 /\ lead \in Nat \ {0} /\ now \in Nat /\ lag \in 0..Slack
      /\ REAP_INTERVAL \in Nat /\ Slack \in Nat
  BY ReapOrderProperties, MetaserverAssumption DEF Inv, TypeOK
<1>2. \A k \in 1..4 : /\ ReapOrder[k] \in ListType
                     /\ \A i \in 1..Len(lists[ReapOrder[k]]) :
                          lists[ReapOrder[k]][i].ts \in Nat
  BY TimestampsNat, ReapOrderProperties DEF Inv
<1>3. CASE CheckAlarm
  <2>1. pc' \in Reaping => which' = 1 /\ lead' = 1
    BY <1>3 DEF CheckAlarm, LoopCheckAlarm, BeginReapList, Reaping
  <2>2. QED
    BY <2>1 DEF Swept
<1>4. CASE ReapErase
  BY <1>4, EraseKeepsSwept DEF ReapErase, Reaping
<1>5. CASE HookReturns /\ pc = "systemReap"
  BY <1>5, EraseKeepsSwept DEF HookReturns, Reaping, Inv, AtLead
<1>6. CASE ReapKeep
  <2> SUFFICES ASSUME NEW k \in 1..4, NEW i \in 1..Len(lists[ReapOrder[k]]),
                      k < which \/ (k = which /\ i < lead + 1)
               PROVE  now <= lists[ReapOrder[k]][i].ts + REAP_INTERVAL + lag
    BY <1>6 DEF Swept, ReapKeep
  <2>1. CASE k < which \/ (k = which /\ i < lead)
    BY <1>6, <2>1 DEF ReapKeep, Reaping, Inv, Ages, Swept
  <2>2. CASE k = which /\ i = lead
    <3>1. ~(now > lists[ReapOrder[k]][i].ts + REAP_INTERVAL)
      BY <1>6, <2>2 DEF ReapKeep, Stale, Reaped
    <3>2. lists[ReapOrder[k]][i].ts \in Nat
      BY <1>2
    <3>3. QED
      BY <1>1, <3>1, <3>2
  <2>3. QED
    BY <1>1, <2>1, <2>2
<1>7. CASE NextReapList
  <2> SUFFICES ASSUME NEW k \in 1..4, NEW i \in 1..Len(lists[ReapOrder[k]]),
                      k < which + 1 \/ (k = which + 1 /\ i < 1)
               PROVE  now <= lists[ReapOrder[k]][i].ts + REAP_INTERVAL + lag
    BY <1>7 DEF Swept, NextReapList, BeginReapList
  <2>1. Len(Reaped) \in Nat
    BY <1>1, <1>2, LenProperties DEF Inv, TypeOK, Reaped
  <2>2. lead > Len(Reaped) /\ pc \in Reaping
    BY <1>7 DEF NextReapList, Reaping
  <2>3. k < which \/ (k = which /\ i < lead)
    BY <1>1, <2>1, <2>2 DEF Reaped
  <2>4. QED
    BY <2>2, <2>3 DEF Inv, Ages, Swept
<1>8. CASE Tick
  <2> SUFFICES ASSUME pc \in Reaping,
                      NEW k \in 1..4, NEW i \in 1..Len(lists[ReapOrder[k]]),
                      k < which \/ (k = which /\ i < lead)
               PROVE  now + 1 <= lists[ReapOrder[k]][i].ts + REAP_INTERVAL + (lag + 1)
    BY <1>8 DEF Swept, Tick, loopVars
  <2>1. now <= lists[ReapOrder[k]][i].ts + REAP_INTERVAL + lag
    BY DEF Inv, Ages, Swept
  <2> DEFINE ts == lists[ReapOrder[k]][i].ts
  <2>2. ts \in Nat /\ now <= ts + REAP_INTERVAL + lag
    BY <1>2, <2>1
  <2> HIDE DEF ts
  <2>3. now + 1 <= ts + REAP_INTERVAL + (lag + 1)
    BY <1>1, <2>2
  <2>4. QED
    BY <2>3 DEF ts
<1>9. CASE /\ UNCHANGED <<lists, which, lead, now, lag>>
           /\ pc' \in Reaping => pc \in Reaping
  BY <1>9 DEF Swept, Inv, Ages
<1>10. CASE pc' \notin Reaping
  BY <1>10 DEF Swept
<1> USE DEF Reaping
<1>11. CASE ReapHook \/ Initialize \/ RegisterAlarm \/ CheckQuit \/ Block
            \/ AlarmSignal \/ InterruptSignal \/ DatagramArrives \/ UNCHANGED vars
  BY <1>9, <1>11 DEF ReapHook, Initialize, RegisterAlarm, CheckQuit, Block,
    AlarmSignal, InterruptSignal, DatagramArrives, vars, loopVars, dataVars,
    LoopReapHook, LoopInitialize, LoopRegisterAlarm, LoopCheckQuit, LoopBlock,
    SIGALRM, SIGINT, Dispatcher, Arrive
<1>12. CASE ReaperDone \/ FirstAlarm \/ (HookReturns /\ pc # "systemReap")
            \/ (\E d \in Datagrams : Receive(d))
  BY <1>10, <1>12 DEF ReaperDone, LoopReaperDone, FirstAlarm, LoopFirstAlarm,
    HookReturns, LoopHookReturns, Receive, LoopReceive
<1>13. QED
  BY <1>3, <1>4, <1>5, <1>6, <1>7, <1>8, <1>11, <1>12
  DEF Next, Process, Kernel, Reaper

(* While the command runs, the Reaper's iterator stays at the stale entry. *)
LEMMA AtLeadKept ==
  ASSUME Inv, [Next]_vars
  PROVE  AtLead'
<1> SUFFICES ASSUME pc' = "systemReap"
             PROVE  /\ which' = 1
                    /\ lead' <= Len(Reaped')
                    /\ now' > Reaped'[lead'].ts + REAP_INTERVAL
  BY DEF AtLead, Stale
<1>1. CASE ReapHook
  <2>1. /\ ReapOrder[which] = "SERVER_LIST" /\ lead <= Len(Reaped)
        /\ Stale(Reaped[lead])
        /\ UNCHANGED <<lists, which, lead, now>>
    BY <1>1 DEF ReapHook, HookOnReap
  <2>2. which = 1
    BY <2>1, ReapOrderProperties DEF Inv, TypeOK
  <2>3. QED
    BY <2>1, <2>2 DEF Stale, Reaped
<1>2. CASE pc = "systemReap" /\ UNCHANGED <<lists, which, lead>>
  <2>1. /\ which = 1 /\ lead <= Len(Reaped)
        /\ now > Reaped[lead].ts + REAP_INTERVAL
    BY <1>2 DEF Inv, AtLead, Stale
  <2>2. Reaped[lead].ts \in Nat
    <3>1. which \in 1..4 /\ lead \in Nat \ {0}
      BY ReapOrderProperties DEF Inv, TypeOK
    <3>2. Len(Reaped) \in Nat /\ ReapOrder[which] \in ListType
      BY <3>1, ReapOrderProperties, LenProperties DEF Inv, TypeOK, Reaped
    <3>3. lead \in 1..Len(lists[ReapOrder[which]])
      BY <2>1, <3>1, <3>2 DEF Reaped
    <3>4. QED
      BY <3>2, <3>3, TimestampsNat DEF Inv, Reaped
  <2>3. now \in Nat /\ now' \in Nat /\ now <= now' /\ REAP_INTERVAL \in Nat
    BY TimeAdvances, MetaserverAssumption DEF Inv, TypeOK
  <2>4. Reaped' = Reaped /\ lead' = lead /\ which' = which
    BY <1>2 DEF Reaped
  <2>5. QED
    BY <2>1, <2>2, <2>3, <2>4
<1>3. CASE pc # "systemReap" /\ ~ReapHook
  BY <1>3 DEF Next, Process, Kernel, Reaper, vars, loopVars, dataVars,
    Initialize, RegisterAlarm, FirstAlarm, CheckQuit, CheckAlarm, Block,
    ReapErase, ReapKeep, NextReapList, ReaperDone,
    Receive, HookReturns, AlarmSignal, InterruptSignal, DatagramArrives, Tick,
    LoopInitialize, LoopRegisterAlarm, LoopFirstAlarm, LoopCheckQuit,
    LoopCheckAlarm, LoopBlock, LoopReaperDone, LoopReceive, LoopHookReturns,
    SIGALRM, SIGINT, Dispatcher, Arrive
<1>4. CASE pc = "systemReap"
  <2>1. UNCHANGED <<lists, which, lead>>
    BY <1>4 DEF Next, Process, Kernel, Reaper, vars, loopVars, dataVars,
      Initialize, RegisterAlarm, FirstAlarm, CheckQuit, CheckAlarm, Block,
      ReapErase, ReapHook, ReapKeep, NextReapList, ReaperDone,
      Receive, HookReturns, AlarmSignal, InterruptSignal, DatagramArrives, Tick,
      LoopInitialize, LoopRegisterAlarm, LoopFirstAlarm, LoopCheckQuit,
      LoopCheckAlarm, LoopBlock, LoopReapHook, LoopReaperDone, LoopReceive,
      LoopHookReturns, InSystem
  <2>2. QED
    BY <1>2, <1>4, <2>1
<1>5. QED
  BY <1>1, <1>3, <1>4

-----------------------------------------------------------------------------
(* Peaks. *)

(* No list but v is longer after the step, and v at most by one. *)
GrowsOnly(v) ==
  /\ \A w \in ListType \ {v} : Len(lists'[w]) <= Len(lists[w])
  /\ Len(lists'[v]) <= Len(lists[v]) + 1

GrowsNone == \A w \in ListType : Len(lists'[w]) <= Len(lists[w])

(* The lengths that the list operations leave. *)
LEMMA Lengths ==
  ASSUME TypeOK, NEW w \in ListType
  PROVE  /\ Len(lists[w]) \in Nat
         /\ \A i \in 1..Len(lists[w]) : Len(RemoveAt(lists[w], i)) = Len(lists[w]) - 1
         /\ \A e \in Handshake : Len(Append(lists[w], e)) = Len(lists[w]) + 1
         /\ \A i \in 1..Len(lists[w]) :
              Len([lists[w] EXCEPT ![i].ts = now]) = Len(lists[w])
<1>1. lists[w] \in Seq(Handshake) /\ now \in Nat
  BY DEF TypeOK
<1>2. \A i \in 1..Len(lists[w]) : [lists[w][i] EXCEPT !.ts = now] \in Handshake
  <2> TAKE i \in 1..Len(lists[w])
  <2>1. lists[w][i] \in Handshake
    BY <1>1, ElementOfSeq
  <2>2. QED
    BY <1>1, <2>1 DEF Handshake
<1>3. \A i \in 1..Len(lists[w]) :
        Len([lists[w] EXCEPT ![i] = [@ EXCEPT !.ts = now]]) = Len(lists[w])
  BY <1>1, <1>2, ExceptSeq
<1>4. QED
  BY <1>1, <1>3, LenProperties, RemoveAtElements, AppendElements

(* A KEEPALIVE lengthens only its pending list. *)
LEMMA IssueGrows ==
  ASSUME TypeOK, NEW d \in Datagrams, NEW p \in HandshakeList, IssueHandshake(p, d)
  PROVE  GrowsOnly(p)
<1>1. PICK h \in HandshakeValue :
        lists' = [lists EXCEPT ![p] = Append(@, Entry(SenderAddr(d), h, now))]
  BY DEF IssueHandshake
<1>2. p \in ListType
  BY DEF ListType
<1>3. Entry(SenderAddr(d), h, now) \in Handshake
  BY MetaserverAssumption DEF SenderAddr, Datagram, Entry, Handshake, TypeOK
<1>4. lists'[p] = Append(lists[p], Entry(SenderAddr(d), h, now))
  BY <1>1, <1>2 DEF TypeOK
<1>5. Len(lists'[p]) = Len(lists[p]) + 1 /\ Len(lists[p]) \in Nat
  BY <1>2, <1>3, <1>4, Lengths
<1>6. \A w \in ListType \ {p} : lists'[w] = lists[w] /\ Len(lists[w]) \in Nat
  BY <1>1, Lengths DEF TypeOK
<1>7. QED
  BY <1>5, <1>6 DEF GrowsOnly

(* A SHAKE lengthens at most the active list, and only by enlisting. *)
LEMMA ShakeGrows ==
  ASSUME TypeOK, NEW d \in Datagrams, NEW p \in HandshakeList, NEW c \in ActiveList
  PROVE  /\ BogusShake(p, d) \/ RenewActive(p, c, d) => GrowsNone
         /\ EnlistActive(p, c, d) => GrowsOnly(c)
<1>1. p \in ListType /\ c \in ListType /\ p # c
  BY DEF ListType, ActiveList, HandshakeList
<1>2. lists[p] \in Seq(Handshake) /\ lists[c] \in Seq(Handshake)
  BY <1>1 DEF TypeOK
<1>3. \A w \in ListType : Len(lists[w]) \in Nat
  BY Lengths
<1>4. ASSUME BogusShake(p, d) PROVE GrowsNone
  BY <1>3, <1>4 DEF BogusShake, GrowsNone
<1>5. ASSUME RenewActive(p, c, d) PROVE GrowsNone
  <2>1. PICK i \in FindByHS(lists[p], d.arg), j \in FindByAddr(lists[c], SenderAddr(d)) :
          lists' = [lists EXCEPT ![p] = RemoveAt(@, i), ![c][j].ts = now]
    BY <1>5 DEF RenewActive
  <2>2. i \in 1..Len(lists[p]) /\ j \in 1..Len(lists[c])
    BY <1>2, FindProperties
  <2>3. /\ lists'[p] = RemoveAt(lists[p], i)
        /\ lists'[c] = [lists[c] EXCEPT ![j].ts = now]
        /\ \A w \in ListType \ {p, c} : lists'[w] = lists[w]
    BY <1>1, <2>1 DEF TypeOK
  <2>4. Len(lists'[p]) = Len(lists[p]) - 1 /\ Len(lists'[c]) = Len(lists[c])
    BY <1>1, <2>2, <2>3, Lengths
  <2>5. QED
    BY <1>1, <1>3, <2>3, <2>4 DEF GrowsNone
<1>6. ASSUME EnlistActive(p, c, d) PROVE GrowsOnly(c)
  <2>1. PICK i \in FindByHS(lists[p], d.arg) :
          lists' = [lists EXCEPT ![p] = RemoveAt(@, i),
                                 ![c] = Append(@, Entry(SenderAddr(d), 0, now))]
    BY <1>6 DEF EnlistActive
  <2>2. i \in 1..Len(lists[p])
    BY <1>2, FindProperties
  <2>3. Entry(SenderAddr(d), 0, now) \in Handshake
    BY MetaserverAssumption DEF SenderAddr, Datagram, Entry, Handshake, TypeOK
  <2>4. /\ lists'[p] = RemoveAt(lists[p], i)
        /\ lists'[c] = Append(lists[c], Entry(SenderAddr(d), 0, now))
        /\ \A w \in ListType \ {p, c} : lists'[w] = lists[w]
    BY <1>1, <2>1 DEF TypeOK
  <2>5. Len(lists'[p]) = Len(lists[p]) - 1 /\ Len(lists'[c]) = Len(lists[c]) + 1
    BY <1>1, <2>2, <2>3, <2>4, Lengths
  <2>6. QED
    BY <1>1, <1>3, <2>4, <2>5 DEF GrowsOnly
<1>7. QED
  BY <1>4, <1>5, <1>6

(* The counters cover the lists after a datagram, except that of the list  *)
(* of servers while the command for a new one is about to run.             *)
LEMMA ReceiveCovered ==
  ASSUME Inv, NEW d \in Datagrams, Receive(d)
  PROVE  PeakCoversLists'
<1>1. \A w \in ListType : /\ Len(lists[w]) \in Nat
                          /\ peak[w] \in Nat
                          /\ Len(lists[w]) <= peak[w]
  BY Lengths DEF Receive, LoopReceive, Inv, TypeOK, PeakCoversLists
<1>2. \A w \in ListType : Len(lists'[w]) \in Nat
  BY ReceiveChange, ListsTyped, LenProperties DEF Inv
<1>3. ASSUME NEW v \in ListType, GrowsOnly(v), peak' = RaisePeak(v, Len(lists[v]) + 1)
      PROVE  PeakCoversLists'
  <2>1. Len(lists[v]) + 1 \in Nat
    BY <1>1
  <2>2. /\ \A w \in ListType : peak[w] <= peak'[w] /\ peak'[w] \in Nat
        /\ Len(lists[v]) + 1 <= peak'[v]
    BY <1>3, <2>1, RaisePeakProperties DEF Inv, TypeOK
  <2>3. ASSUME NEW w \in ListType PROVE Len(lists'[w]) <= peak'[w]
    <3>1. CASE w = v
      BY <1>1, <1>2, <1>3, <2>2, <3>1 DEF GrowsOnly
    <3>2. CASE w # v
      <4>1. Len(lists'[w]) <= Len(lists[w])
        BY <1>3, <3>2 DEF GrowsOnly
      <4>2. QED
        BY <1>1, <1>2, <2>2, <4>1
    <3>3. QED
      BY <3>1, <3>2
  <2>4. QED
    BY <2>3 DEF PeakCoversLists
<1>4. ASSUME GrowsNone, UNCHANGED peak
      PROVE  PeakCoversLists'
  BY <1>1, <1>2, <1>4 DEF GrowsNone, PeakCoversLists
<1>5. ASSUME GrowsOnly("SERVER_LIST"), UNCHANGED peak, pc' = "systemList"
      PROVE  PeakCoversLists'
  <2> SUFFICES ASSUME NEW w \in ListType, w # "SERVER_LIST"
               PROVE  Len(lists'[w]) <= peak'[w]
    BY <1>5 DEF PeakCoversLists
  <2>1. Len(lists'[w]) <= Len(lists[w])
    BY <1>1, <1>5 DEF GrowsOnly
  <2>2. QED
    BY <1>1, <1>2, <1>5, <2>1
<1>6. TypeOK
  BY DEF Inv
<1>7. /\ HandshakeList \subseteq ListType /\ ActiveList \subseteq ListType
      /\ {"SERVER_LIST", "CLIENT_LIST"} = ActiveList
      /\ {"SERVER_HANDSHAKE_LIST", "CLIENT_HANDSHAKE_LIST"} = HandshakeList
  BY DEF ListType, ActiveList, HandshakeList
<1>8. CASE HandleServerKeepalive(d) \/ HandleClientKeepalive(d)
  BY <1>3, <1>6, <1>7, <1>8, IssueGrows
  DEF HandleServerKeepalive, HandleClientKeepalive, IssueHandshake
<1>9. CASE HandleServerShake(d)
  <2>1. CASE BogusShake("SERVER_HANDSHAKE_LIST", d)
    BY <1>4, <1>6, <1>7, <2>1, ShakeGrows DEF BogusShake
  <2>2. CASE RenewActive("SERVER_HANDSHAKE_LIST", "SERVER_LIST", d)
    BY <1>4, <1>6, <1>7, <2>2, ShakeGrows DEF RenewActive
  <2>3. CASE /\ EnlistActive("SERVER_HANDSHAKE_LIST", "SERVER_LIST", d)
             /\ RunHook("systemList")
             /\ peak' = IF ExecuteSet THEN peak
                        ELSE RaisePeak("SERVER_LIST", Len(lists["SERVER_LIST"]) + 1)
    <3>1. GrowsOnly("SERVER_LIST")
      BY <1>6, <1>7, <2>3, ShakeGrows
    <3>2. CASE ExecuteSet
      BY <1>5, <2>3, <3>1, <3>2 DEF RunHook
    <3>3. CASE ~ExecuteSet
      BY <1>3, <1>7, <2>3, <3>1, <3>3
    <3>4. QED
      BY <3>2, <3>3
  <2>4. QED
    BY <1>9, <2>1, <2>2, <2>3 DEF HandleServerShake
<1>10. CASE HandleClientShake(d)
  <2>1. CASE BogusShake("CLIENT_HANDSHAKE_LIST", d)
    BY <1>4, <1>6, <1>7, <2>1, ShakeGrows DEF BogusShake
  <2>2. CASE RenewActive("CLIENT_HANDSHAKE_LIST", "CLIENT_LIST", d)
    BY <1>4, <1>6, <1>7, <2>2, ShakeGrows DEF RenewActive
  <2>3. CASE /\ EnlistActive("CLIENT_HANDSHAKE_LIST", "CLIENT_LIST", d)
             /\ peak' = RaisePeak("CLIENT_LIST", Len(lists["CLIENT_LIST"]) + 1)
    BY <1>3, <1>6, <1>7, <2>3, ShakeGrows
  <2>4. QED
    BY <1>10, <2>1, <2>2, <2>3 DEF HandleClientShake
<1>11. CASE HandleTerminate(d)
  <2>1. GrowsNone
    <3>1. CASE UNCHANGED lists
      BY <1>1, <3>1 DEF GrowsNone
    <3>2. CASE \E i \in FindByAddr(lists["SERVER_LIST"], SenderAddr(d)) :
                 lists' = [lists EXCEPT !["SERVER_LIST"] = RemoveAt(@, i)]
      <4>1. PICK i \in FindByAddr(lists["SERVER_LIST"], SenderAddr(d)) :
                 lists' = [lists EXCEPT !["SERVER_LIST"] = RemoveAt(@, i)]
        BY <3>2
      <4>2. i \in 1..Len(lists["SERVER_LIST"])
        BY <1>6, <1>7, FindProperties DEF TypeOK
      <4>3. /\ lists'["SERVER_LIST"] = RemoveAt(lists["SERVER_LIST"], i)
            /\ \A w \in ListType \ {"SERVER_LIST"} : lists'[w] = lists[w]
        BY <1>6, <1>7, <4>1 DEF TypeOK
      <4>4. Len(lists'["SERVER_LIST"]) = Len(lists["SERVER_LIST"]) - 1
        BY <1>6, <1>7, <4>2, <4>3, Lengths
      <4>5. QED
        BY <1>1, <1>7, <4>3, <4>4 DEF GrowsNone
    <3>3. QED
      BY <1>11, <3>1, <3>2 DEF HandleTerminate
  <2>2. QED
    BY <1>4, <1>11, <2>1 DEF HandleTerminate
<1>12. CASE HandleListRequest(d) \/ Ignore(d)
  BY <1>1, <1>4, <1>12 DEF HandleListRequest, Ignore, GrowsNone
<1>13. QED
  BY <1>8, <1>9, <1>10, <1>11, <1>12 DEF Receive

(* ... and after every step. *)
LEMMA PeakKept ==
  ASSUME Inv, [Next]_vars
  PROVE  PeakCoversLists'
<1>1. \A w \in ListType : Len(lists[w]) \in Nat /\ peak[w] \in Nat
  BY Lengths DEF Inv, TypeOK
<1>2. \A w \in ListType : Len(lists[w]) <= peak[w] \/ (w = "SERVER_LIST" /\ pc = "systemList")
  BY DEF Inv, PeakCoversLists
<1>3. \A k \in 1..4 : /\ RaisePeak(ReapOrder[k], Len(lists[ReapOrder[k]])) \in [ListType -> Nat]
                     /\ \A w \in ListType :
                          peak[w] <= RaisePeak(ReapOrder[k], Len(lists[ReapOrder[k]]))[w]
  BY <1>1, ReapOrderProperties, RaisePeakProperties DEF Inv, TypeOK
<1>4. ASSUME UNCHANGED <<lists, peak>>, pc = "systemList" => pc' = "systemList"
      PROVE  PeakCoversLists'
  BY <1>2, <1>4 DEF PeakCoversLists
<1>5. ASSUME NEW k \in 1..4, UNCHANGED lists, pc # "systemList",
             peak' = RaisePeak(ReapOrder[k], Len(lists[ReapOrder[k]]))
      PROVE  PeakCoversLists'
  <2> SUFFICES ASSUME NEW w \in ListType PROVE Len(lists[w]) <= peak'[w]
    BY <1>5 DEF PeakCoversLists
  <2>1. Len(lists[w]) <= peak[w] /\ peak[w] <= peak'[w] /\ peak'[w] \in Nat
    BY <1>2, <1>3, <1>5
  <2>2. QED
    BY <1>1, <2>1
<1>6. ASSUME lead <= Len(Reaped), EraseLead, UNCHANGED peak, pc # "systemList"
      PROVE  PeakCoversLists'
  <2>1. ReapOrder[which] \in ListType /\ lead \in 1..Len(lists[ReapOrder[which]])
    BY <1>1, <1>6, ReapOrderProperties DEF Inv, TypeOK, Reaped
  <2>2. /\ lists'[ReapOrder[which]] = RemoveAt(lists[ReapOrder[which]], lead)
        /\ \A w \in ListType \ {ReapOrder[which]} : lists'[w] = lists[w]
    BY <1>6, <2>1 DEF EraseLead, Inv, TypeOK
  <2>3. Len(lists'[ReapOrder[which]]) = Len(lists[ReapOrder[which]]) - 1
    BY <2>1, <2>2, Lengths DEF Inv
  <2>4. GrowsNone
    BY <1>1, <2>1, <2>2, <2>3 DEF GrowsNone
  <2>5. \A w \in ListType : Len(lists'[w]) \in Nat
    BY <1>6, EraseLeadChange, ListsTyped, LenProperties DEF Inv
  <2>6. QED
    BY <1>1, <1>2, <1>6, <2>4, <2>5 DEF GrowsNone, PeakCoversLists
<1>7. CASE \E d \in Datagrams : Receive(d)
  BY <1>7, ReceiveCovered
<1>8. CASE CheckAlarm
  BY <1>4, <1>5, <1>8 DEF CheckAlarm, LoopCheckAlarm, BeginReapList
<1>9. CASE NextReapList
  <2>1. which + 1 \in 1..4 /\ pc = "Reaper"
    BY <1>9, ReapOrderProperties DEF NextReapList, Inv, TypeOK
  <2>2. QED
    BY <1>5, <1>9, <2>1 DEF NextReapList, BeginReapList
<1>10. CASE ReapErase
  BY <1>6, <1>10 DEF ReapErase
<1>11. CASE HookReturns
  <2>1. CASE pc = "systemReap"
    BY <1>6, <1>11, <2>1 DEF HookReturns, Inv, AtLead
  <2>2. CASE pc = "systemList"
    <3>1. /\ UNCHANGED lists
          /\ peak' = RaisePeak("SERVER_LIST", Len(lists["SERVER_LIST"]))
      BY <1>11, <2>2 DEF HookReturns
    <3>2. "SERVER_LIST" \in ListType
      BY DEF ListType, ActiveList
    <3>3. /\ \A w \in ListType : peak[w] <= peak'[w] /\ peak'[w] \in Nat
          /\ Len(lists["SERVER_LIST"]) <= peak'["SERVER_LIST"]
      BY <1>1, <3>1, <3>2, RaisePeakProperties DEF Inv, TypeOK
    <3>4. ASSUME NEW w \in ListType PROVE Len(lists[w]) <= peak'[w]
      <4>1. CASE w = "SERVER_LIST"
        BY <3>3, <4>1
      <4>2. CASE w # "SERVER_LIST"
        BY <1>1, <1>2, <3>3, <4>2
      <4>3. QED
        BY <4>1, <4>2
    <3>5. QED
      BY <3>1, <3>4 DEF PeakCoversLists
  <2>3. CASE pc \notin {"systemReap", "systemList"}
    BY <1>4, <1>11, <2>3 DEF HookReturns
  <2>4. QED
    BY <2>1, <2>2, <2>3
<1>12. CASE Initialize \/ RegisterAlarm \/ FirstAlarm \/ CheckQuit \/ Block
            \/ ReapHook \/ ReapKeep \/ ReaperDone
  BY <1>4, <1>12 DEF Initialize, RegisterAlarm, FirstAlarm, CheckQuit, Block,
    ReapHook, ReapKeep, ReaperDone, LoopInitialize, LoopRegisterAlarm,
    LoopFirstAlarm, LoopCheckQuit, LoopBlock, LoopReapHook, LoopReaperDone
<1>13. CASE Tick \/ DatagramArrives \/ UNCHANGED vars
  BY <1>4, <1>13 DEF Tick, DatagramArrives, Arrive, vars, loopVars, dataVars
<1>14. CASE InterruptSignal
  BY <1>4, <1>14 DEF InterruptSignal, SIGINT, InSystem
<1>15. CASE AlarmSignal
  <2>1. pc = "systemList" => pc' = "systemList"
    BY <1>15 DEF AlarmSignal, SIGALRM, Dispatcher, Inv, LoopInv, Registered
  <2>2. QED
    BY <1>4, <1>15, <2>1 DEF AlarmSignal
<1>16. QED
  BY <1>7, <1>8, <1>9, <1>10, <1>11, <1>12, <1>13, <1>14, <1>15
  DEF Next, Process, Kernel, Reaper

-----------------------------------------------------------------------------
(* The theorems. *)

(* Inv holds before the first statement. *)
LEMMA InitInv == Init => Inv
<1> SUFFICES ASSUME Init PROVE Inv
  OBVIOUS
<1>1. LoopInv
  BY LoopInitInv DEF Init
<1>2. \A w \in ListType : lists[w] = <<>> /\ Len(lists[w]) = 0
  BY DEF Init
<1>3. TypeOK
  <2>1. lists \in [ListType -> Seq(Handshake)]
    BY DEF Init
  <2>2. /\ peak \in [ListType -> Nat] /\ mPacketCount \in Nat
        /\ which \in 1..Len(ReapOrder) /\ lead \in Nat \ {0}
        /\ now \in Nat /\ alarmAt \in Nat /\ lag \in 0..Slack
    BY ReapOrderProperties, MetaserverAssumption DEF Init
  <2>3. out = NoReply
    BY DEF Init
  <2>4. QED
    BY <1>1, <2>1, <2>2, <2>3 DEF TypeOK, LoopInv
<1>4. AtLead /\ Ages
  BY <1>2 DEF Init, LoopInit, AtLead, Ages, NotFuture, AlarmDue, Covered, Swept,
    EmptyAtStartup, Reaping
<1>5. UniqueActive
  BY <1>2 DEF UniqueActive, ListType
<1>6. PeakCoversLists
  BY <1>2 DEF PeakCoversLists, Init
<1>7. QED
  BY <1>1, <1>3, <1>4, <1>5, <1>6 DEF Inv

(* Every step keeps Inv. *)
LEMMA NextInv == Inv /\ [Next]_vars => Inv'
<1> SUFFICES ASSUME Inv, [Next]_vars PROVE Inv'
  OBVIOUS
<1>1. LoopInv'
  BY NextIsLoopNext, LoopNextInv DEF Inv
<1>2. ListsChange
  BY NextChange DEF Inv
<1>3. TypeOK'
  BY <1>1, <1>2, ListsTyped, NextTypes DEF Inv, TypeOK, LoopInv, Counters, Answers
<1>4. UniqueActive'
  BY <1>2, UniqueKept DEF Inv
<1>5. Ages'
  BY NotFutureKept, AlarmDueKept, CoveredKept, SweptKept, EmptyAtStartupKept DEF Ages
<1>6. QED
  BY <1>1, <1>3, <1>4, <1>5, AtLeadKept, PeakKept DEF Inv

(* A renewal changes no address. *)
LEMMA RenewedAddrs ==
  ASSUME TypeOK, NEW w \in ListType, NEW j \in 1..Len(lists[w]),
         lists'[w] = [lists[w] EXCEPT ![j] = [@ EXCEPT !.ts = now]]
  PROVE  AddrsOf(lists'[w]) = AddrsOf(lists[w])
<1>1. lists[w] \in Seq(Handshake) /\ DOMAIN lists[w] = 1..Len(lists[w])
  BY LenProperties DEF TypeOK
<1>2. DOMAIN lists'[w] = DOMAIN lists[w]
  OBVIOUS
<1>3. ASSUME NEW i \in DOMAIN lists[w] PROVE lists'[w][i].addr = lists[w][i].addr
  <2>1. lists[w][j] \in Handshake
    BY <1>1, ElementOfSeq
  <2>2. CASE i = j
    BY <1>1, <2>1, <2>2 DEF Handshake
  <2>3. CASE i # j
    BY <1>1, <2>3
  <2>4. QED
    BY <2>2, <2>3
<1>4. QED
  BY <1>2, <1>3 DEF AddrsOf

(* A datagram that changes who is listed runs the command. *)
LEMMA ReceiveRunsHook ==
  ASSUME TypeOK, ExecuteSet, NEW d \in Datagrams, Receive(d),
         AddrsOf(lists["SERVER_LIST"]) # AddrsOf(lists'["SERVER_LIST"])
  PROVE  pc' \in {"systemList", "systemDelist"}
<1> DEFINE w == "SERVER_LIST"
<1>1. w \in ListType /\ lists[w] \in Seq(Handshake)
  BY DEF TypeOK, ListType, ActiveList
<1>2. lists'[w] # lists[w]
  OBVIOUS
<1>3. ~HandleServerKeepalive(d) /\ ~HandleClientKeepalive(d)
  BY <1>1, <1>2 DEF HandleServerKeepalive, HandleClientKeepalive, IssueHandshake, TypeOK
<1>4. ~HandleClientShake(d)
  BY <1>1, <1>2 DEF HandleClientShake, BogusShake, RenewActive, EnlistActive, TypeOK
<1>5. ~HandleListRequest(d) /\ ~Ignore(d)
  BY <1>2 DEF HandleListRequest, Ignore
<1>6. CASE HandleTerminate(d)
  BY <1>2, <1>6 DEF HandleTerminate, RunHook
<1>7. CASE HandleServerShake(d)
  <2>1. ~BogusShake("SERVER_HANDSHAKE_LIST", d)
    BY <1>2 DEF BogusShake
  <2>2. ~RenewActive("SERVER_HANDSHAKE_LIST", w, d)
    <3> SUFFICES ASSUME RenewActive("SERVER_HANDSHAKE_LIST", w, d) PROVE FALSE
      OBVIOUS
    <3>1. PICK i \in FindByHS(lists["SERVER_HANDSHAKE_LIST"], d.arg),
               j \in FindByAddr(lists[w], SenderAddr(d)) :
            lists' = [lists EXCEPT !["SERVER_HANDSHAKE_LIST"] = RemoveAt(@, i), ![w][j].ts = now]
      BY DEF RenewActive
    <3>2. j \in 1..Len(lists[w])
      BY <1>1, FindProperties
    <3>3. lists'[w] = [lists[w] EXCEPT ![j] = [@ EXCEPT !.ts = now]]
      BY <1>1, <3>1 DEF TypeOK
    <3>4. QED
      BY <1>1, <3>2, <3>3, RenewedAddrs
  <2>3. QED
    BY <1>7, <2>1, <2>2 DEF HandleServerShake, RunHook
<1>8. QED
  BY <1>3, <1>4, <1>5, <1>6, <1>7 DEF Receive

(* The inductive invariant holds in every reachable state. *)
THEOREM Invariance == Spec => []Inv
BY InitInv, NextInv, PTL DEF Spec

(* The variables of the metaserver keep their types. *)
THEOREM TypeCorrect == Spec => []TypeOK
<1>1. Inv => TypeOK
  BY DEF Inv
<1>2. QED
  BY <1>1, Invariance, PTL

(***************************************************************************)
(* No address is listed twice, for any number of hosts, datagrams and      *)
(* handshake values.                                                       *)
(***************************************************************************)
THEOREM NeverListedTwice == Spec => []UniqueActive
<1>1. Inv => UniqueActive
  BY DEF Inv
<1>2. QED
  BY <1>1, Invariance, PTL

(***************************************************************************)
(* While the reaping clock runs, nothing outlives two intervals, for every *)
(* REAP_INTERVAL and every duration of a sweep up to Slack.                *)
(***************************************************************************)
THEOREM NothingOutlivesTwoIntervals == Spec => []BoundedStaleness
<1>1. Inv => BoundedStaleness
  <2> SUFFICES ASSUME Inv, armed, NEW w \in ListType, NEW i \in DOMAIN lists[w]
               PROVE  now <= lists[w][i].ts + MaxAge
    BY DEF BoundedStaleness
  <2>1. i \in 1..Len(lists[w])
    BY LenProperties DEF Inv, TypeOK
  <2>2. now <= alarmAt /\ alarmAt <= lists[w][i].ts + MaxAge
    BY <2>1 DEF Inv, Ages, AlarmDue, Covered
  <2>3. now \in Nat /\ alarmAt \in Nat /\ MaxAge \in Nat
    BY MetaserverAssumption DEF Inv, TypeOK, MaxAge
  <2>4. lists[w][i].ts \in Nat
    BY <2>1, TimestampsNat DEF Inv
  <2>5. QED
    BY <2>2, <2>3, <2>4
<1>2. QED
  BY <1>1, Invariance, PTL

(***************************************************************************)
(* The peaks that Interrupted() reports cover every size reached.          *)
(***************************************************************************)
THEOREM PeaksCover == Spec => []PeakCoversLists
<1>1. Inv => PeakCoversLists
  BY DEF Inv
<1>2. QED
  BY <1>1, Invariance, PTL

(***************************************************************************)
(* In a DEBUG build the command given with --execute runs on every change  *)
(* to the set of listed servers, for any hosts and datagrams.  In any      *)
(* other build the Reaper does not run it.                                 *)
(***************************************************************************)
THEOREM CommandOnListChange ==
  ASSUME DEBUG
  PROVE  Spec => HookOnListChange
<1> DEFINE Change == AddrsOf(lists["SERVER_LIST"]) # AddrsOf(lists'["SERVER_LIST"])
           Hook   == pc' \in {"systemList", "systemDelist"} \/ pc = "systemReap"
<1>1. Inv /\ [Next]_vars => (ExecuteSet /\ Change => Hook)
  <2> SUFFICES ASSUME Inv, [Next]_vars, ExecuteSet, Change PROVE Hook
    OBVIOUS
  <2>1. lists' # lists
    OBVIOUS
  <2>2. ~Quiet
    BY <2>1, QuietSame
  <2>3. ~ReapErase
    <3> SUFFICES ASSUME ReapErase PROVE FALSE
      OBVIOUS
    <3>1. ReapOrder[which] # "SERVER_LIST"
      BY DEF ReapErase, HookOnReap
    <3>2. lists'["SERVER_LIST"] = lists["SERVER_LIST"]
      BY <3>1 DEF ReapErase, EraseLead, Inv, TypeOK, ListType, ActiveList
    <3>3. QED
      BY <3>2
  <2>4. CASE \E d \in Datagrams : Receive(d)
    BY <2>4, ReceiveRunsHook DEF Inv
  <2>5. CASE HookReturns
    BY <2>1, <2>5 DEF HookReturns
  <2>6. QED
    BY <2>1, <2>2, <2>3, <2>4, <2>5
    DEF Next, Process, Kernel, Reaper, Quiet, vars, dataVars
<1>2. QED
  BY <1>1, Invariance, PTL DEF Spec, HookOnListChange

(***************************************************************************)
(* The metaserver is an event loop: each of its steps is one of module     *)
(* EventLoop or leaves the loop's variables alone, so what is proved of    *)
(* the loop holds of the metaserver.                                       *)
(***************************************************************************)
THEOREM ImplementsLoop == Spec => LoopSafety
<1>1. Init => LoopInit
  BY DEF Init
<1>2. QED
  BY <1>1, NextIsLoopNext, PTL DEF Spec, LoopSafety

=============================================================================
