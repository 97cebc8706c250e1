----------------------------- MODULE Metaserver -----------------------------
(***************************************************************************)
(* class Metaserver: the four lists it keeps, the handlers that its event  *)
(* loop (module EventLoop) runs on a datagram, and the Reaper that SIGALRM *)
(* triggers.                                                               *)
(*                                                                         *)
(* A game server or a client registers in two steps.  Its KEEPALIVE puts a *)
(* random handshake value on a pending list, and the value is sent back;   *)
(* its SHAKE, carrying the value, takes the entry off the pending list and *)
(* puts the sender on the active list or renews its timestamp there.       *)
(* Entries are keyed by IP address alone.                                  *)
(***************************************************************************)
EXTENDS EventLoop, ListRequest, Sequences, SequencesExt

CONSTANTS
  EndPoint,        \* the (address, port) pairs datagrams come from
  Addr,            \* IP addresses
  Host,            \* the address of each end point
  HandshakeValue,  \* what random() may return
  Datagrams,       \* the datagrams the network may deliver
  NoReply,         \* no datagram was sent
  REAP_INTERVAL,   \* seconds between sweeps, and the age an entry may reach
  Slack,           \* seconds of the clock one pass of the Reaper may straddle
  MaxPackets,      \* bound: datagrams received
  MaxTime          \* bound: the clock

MsgType == {"SERVERKEEPALIVE", "CLIENTKEEPALIVE", "SERVERSHAKE", "CLIENTSHAKE",
            "TERMINATE", "LISTREQ", "IGNORED"}

\* A datagram as the dispatcher sees it: its type word, its sender, and the
\* one argument word that a SHAKE (a handshake) and a LISTREQ (a position)
\* carry.  "IGNORED" stands for every type Process() has no handler for.
Datagram == [type : MsgType, src : EndPoint, arg : Nat]

ASSUME MetaserverAssumption ==
  /\ Host \in [EndPoint -> Addr]
  /\ HandshakeValue \subseteq Nat
  /\ Datagrams \subseteq Datagram
  /\ REAP_INTERVAL \in Nat \ {0}
  /\ Slack \in Nat
  /\ MaxPackets \in Nat
  /\ MaxTime \in Nat

VARIABLES
  lists,         \* mActiveServers, mActiveClients, mServerHandshakes, mClientHandshakes
  peak,          \* the mPeak... counter of each list
  mPacketCount,
  which,         \* the list ReapList is working on, as a position in ReapOrder
  lead,          \* ReapList's iterator, as a position in that list
  now,           \* time(NULL)
  alarmAt,       \* when the armed alarm is due; 0 when none is
  lag,           \* seconds that have passed since the current Reaper began
  out            \* the datagram this step handed to sendto

dataVars == <<lists, peak, mPacketCount, which, lead, now, alarmAt, lag, out>>
vars == <<loopVars, dataVars>>

\* Reaper() calls ReapList in this order.
ReapOrder == <<"SERVER_LIST", "CLIENT_LIST",
               "SERVER_HANDSHAKE_LIST", "CLIENT_HANDSHAKE_LIST">>

ActiveList    == {"SERVER_LIST", "CLIENT_LIST"}
HandshakeList == {"SERVER_HANDSHAKE_LIST", "CLIENT_HANDSHAKE_LIST"}
ListType      == ActiveList \cup HandshakeList

\* class Handshake; an active entry's handshake is 0.
Handshake == [addr : Addr, hs : Nat, ts : Nat]

Entry(a, h, t) == [addr |-> a, hs |-> h, ts |-> t]

-----------------------------------------------------------------------------
(* Operations on a list. *)

\* Mutant: the first entry is taken, whatever its value.
FindByHSFirst(l, h) == {1} \cap DOMAIN l

\* The iterator FindByHS returns, as the set of its position: {} is end().
FindByHS(l, h) ==
  {i \in 1..Len(l) : l[i].hs = h /\ \A j \in 1..(i-1) : l[j].hs # h}

\* Mutant: the search starts behind the first entry.
FindByAddrLate(l, a) ==
  {i \in 2..Len(l) : l[i].addr = a /\ \A j \in 2..(i-1) : l[j].addr # a}

FindByAddr(l, a) ==
  {i \in 1..Len(l) : l[i].addr = a /\ \A j \in 1..(i-1) : l[j].addr # a}

\* Mutant: an entry is reaped when its age just reaches the interval.
StaleEarly(e) == now >= e.ts + REAP_INTERVAL

Stale(e) == now > e.ts + REAP_INTERVAL

\* peak, with the peak of list w raised to n when n exceeds it
RaisePeak(w, n) == [peak EXCEPT ![w] = IF n > @ THEN n ELSE @]

-----------------------------------------------------------------------------

Init ==
  /\ LoopInit
  /\ lists = [w \in ListType |-> <<>>]
  /\ peak = [w \in ListType |-> 0]
  /\ mPacketCount = 0
  /\ which = 1
  /\ lead = 1
  /\ now = 0
  /\ alarmAt = 0
  /\ lag = 0
  /\ out = NoReply

\* alarm(REAP_INTERVAL)
alarm == alarmAt' = now + REAP_INTERVAL

\* The steps of the loop that touch neither the lists nor the clock.
Initialize == LoopInitialize /\ out' = NoReply
              /\ UNCHANGED <<lists, peak, mPacketCount, which, lead, now, alarmAt, lag>>

RegisterAlarm == LoopRegisterAlarm /\ out' = NoReply
                 /\ UNCHANGED <<lists, peak, mPacketCount, which, lead, now, alarmAt, lag>>

FirstAlarm == LoopFirstAlarm /\ alarm /\ out' = NoReply
              /\ UNCHANGED <<lists, peak, mPacketCount, which, lead, now, lag>>

CheckQuit == LoopCheckQuit /\ out' = NoReply
             /\ UNCHANGED <<lists, peak, mPacketCount, which, lead, now, alarmAt, lag>>

Block == LoopBlock /\ out' = NoReply
         /\ UNCHANGED <<lists, peak, mPacketCount, which, lead, now, alarmAt, lag>>

-----------------------------------------------------------------------------
(* The Reaper. *)

\* Mutant: lead starts before the list's beginning.
BeginReapListEarly(n) ==
  /\ which' = n
  /\ lead' = 0
  /\ peak' = RaisePeak(ReapOrder[n], Len(lists[ReapOrder[n]]))

\* ReapList starts on the n-th list: it records the peak and puts lead at the
\* list's beginning.
BeginReapList(n) ==
  /\ which' = n
  /\ lead' = 1
  /\ peak' = RaisePeak(ReapOrder[n], Len(lists[ReapOrder[n]]))

CheckAlarm ==
  /\ LoopCheckAlarm
  /\ IF mAlarm THEN BeginReapList(1) ELSE UNCHANGED <<which, lead, peak>>
  /\ out' = NoReply
  /\ UNCHANGED <<lists, mPacketCount, now, alarmAt, lag>>

Reaped == lists[ReapOrder[which]]

EraseLead == lists' = [lists EXCEPT ![ReapOrder[which]] = RemoveAt(@, lead)]

\* Mutant: the command sits under the wrong case label.
HookOnReapOfClient == DEBUG /\ ExecuteSet /\ ReapOrder[which] = "CLIENT_LIST"

\* Only a DEBUG build runs the command when a server is reaped.
HookOnReap == DEBUG /\ ExecuteSet /\ ReapOrder[which] = "SERVER_LIST"

\* Mutant: lead moves on after the erasure, past the entry behind.
ReapEraseAndAdvance ==
  /\ pc = "Reaper"
  /\ lead <= Len(Reaped)
  /\ Stale(Reaped[lead])
  /\ ~HookOnReap
  /\ EraseLead
  /\ lead' = lead + 1
  /\ out' = NoReply
  /\ UNCHANGED <<loopVars, peak, mPacketCount, which, now, alarmAt, lag>>

ReapErase ==
  /\ pc = "Reaper"
  /\ lead <= Len(Reaped)
  /\ Stale(Reaped[lead])
  /\ ~HookOnReap
  /\ EraseLead
  /\ out' = NoReply
  /\ UNCHANGED <<loopVars, peak, mPacketCount, which, lead, now, alarmAt, lag>>

ReapHook ==
  /\ LoopReapHook
  /\ lead <= Len(Reaped)
  /\ Stale(Reaped[lead])
  /\ HookOnReap
  /\ out' = NoReply
  /\ UNCHANGED <<lists, peak, mPacketCount, which, lead, now, alarmAt, lag>>

ReapKeep ==
  /\ pc = "Reaper"
  /\ lead <= Len(Reaped)
  /\ ~Stale(Reaped[lead])
  /\ lead' = lead + 1
  /\ out' = NoReply
  /\ UNCHANGED <<loopVars, lists, peak, mPacketCount, which, now, alarmAt, lag>>

NextReapList ==
  /\ pc = "Reaper"
  /\ lead > Len(Reaped)
  /\ which < Len(ReapOrder)
  /\ BeginReapList(which + 1)
  /\ out' = NoReply
  /\ UNCHANGED <<loopVars, lists, mPacketCount, now, alarmAt, lag>>

ReaperDone ==
  /\ LoopReaperDone
  /\ lead > Len(Reaped)
  /\ which = Len(ReapOrder)
  /\ alarm
  /\ which' = 1
  /\ lead' = 1
  /\ lag' = 0
  /\ out' = NoReply
  /\ UNCHANGED <<lists, peak, mPacketCount, now>>

-----------------------------------------------------------------------------
(* The datagram handlers. *)

\* A handler that ends without running the command; mPacketCount++ follows.
Handled == pc' = "GetGracefulQuit" /\ mPacketCount' = mPacketCount + 1

\* A handler that has changed the list of servers runs the command, if there
\* is one; mPacketCount++ waits for the command to end.
RunHook(where) ==
  IF ExecuteSet
  THEN pc' = where /\ UNCHANGED mPacketCount
  ELSE Handled

SenderAddr(d) == Host[d.src]

\* Mutant: no second handshake is sent to an address that has one pending.
IssueHandshakeOnce(pending, d) ==
  \E h \in HandshakeValue :
    /\ lists' = [lists EXCEPT ![pending] = Append(@, Entry(SenderAddr(d), h, now))]
    /\ peak' = RaisePeak(pending, Len(lists[pending]) + 1)
    /\ out' = IF FindByAddr(lists[pending], SenderAddr(d)) = {}
              THEN [type |-> "HANDSHAKE", dst |-> d.src, hs |-> h] ELSE NoReply
    /\ Handled

\* Shared by the two KEEPALIVE handlers: a new pending entry and its peak, and
\* the handshake is sent back.
IssueHandshake(pending, d) ==
  \E h \in HandshakeValue :
    /\ lists' = [lists EXCEPT ![pending] = Append(@, Entry(SenderAddr(d), h, now))]
    /\ peak' = RaisePeak(pending, Len(lists[pending]) + 1)
    /\ out' = [type |-> "HANDSHAKE", dst |-> d.src, hs |-> h]
    /\ Handled

HandleServerKeepalive(d) ==
  d.type = "SERVERKEEPALIVE" /\ IssueHandshake("SERVER_HANDSHAKE_LIST", d)

HandleClientKeepalive(d) ==
  d.type = "CLIENTKEEPALIVE" /\ IssueHandshake("CLIENT_HANDSHAKE_LIST", d)

\* A SHAKE whose value is on no pending entry is only warned about.
BogusShake(pending, d) ==
  /\ FindByHS(lists[pending], d.arg) = {}
  /\ Handled
  /\ UNCHANGED <<lists, peak>>

\* Mutant: a renewal leaves the pending entry for another use.
RenewKeepsPending(pending, active, d) ==
  \E i \in FindByHS(lists[pending], d.arg) :
  \E j \in FindByAddr(lists[active], SenderAddr(d)) :
    /\ lists' = [lists EXCEPT ![active][j].ts = now]
    /\ Handled
    /\ UNCHANGED peak

\* A SHAKE with a pending value consumes the first entry that has it, and
\* renews the sender's active entry.
RenewActive(pending, active, d) ==
  \E i \in FindByHS(lists[pending], d.arg) :
  \E j \in FindByAddr(lists[active], SenderAddr(d)) :
    /\ lists' = [lists EXCEPT ![pending] = RemoveAt(@, i), ![active][j].ts = now]
    /\ Handled
    /\ UNCHANGED peak

\* Mutant: a new entry goes to the front of the active list.
EnlistAtFront(pending, active, d) ==
  \E i \in FindByHS(lists[pending], d.arg) :
    /\ FindByAddr(lists[active], SenderAddr(d)) = {}
    /\ lists' = [lists EXCEPT ![pending] = RemoveAt(@, i),
                              ![active] = <<Entry(SenderAddr(d), 0, now)>> \o @]

\* Mutant: a SHAKE uses up every pending entry that has its value.
EnlistTakesAll(pending, active, d) ==
  \E i \in FindByHS(lists[pending], d.arg) :
    /\ FindByAddr(lists[active], SenderAddr(d)) = {}
    /\ lists' = [lists EXCEPT ![pending] = SelectSeq(@, LAMBDA e : e.hs # d.arg),
                              ![active] = Append(@, Entry(SenderAddr(d), 0, now))]

\* Mutant: the address that was sent the handshake is listed, not the sender's.
EnlistIssuedTo(pending, active, d) ==
  \E i \in FindByHS(lists[pending], d.arg) : LET a == lists[pending][i].addr IN
    /\ FindByAddr(lists[active], a) = {}
    /\ lists' = [lists EXCEPT ![pending] = RemoveAt(@, i),
                              ![active] = Append(@, Entry(a, 0, now))]

\* ... or adds one at the end of the active list.
EnlistActive(pending, active, d) ==
  \E i \in FindByHS(lists[pending], d.arg) :
    /\ FindByAddr(lists[active], SenderAddr(d)) = {}
    /\ lists' = [lists EXCEPT ![pending] = RemoveAt(@, i),
                              ![active] = Append(@, Entry(SenderAddr(d), 0, now))]

HandleServerShake(d) ==
  /\ d.type = "SERVERSHAKE"
  /\ \/ BogusShake("SERVER_HANDSHAKE_LIST", d)
     \/ RenewActive("SERVER_HANDSHAKE_LIST", "SERVER_LIST", d)
     \/ /\ EnlistActive("SERVER_HANDSHAKE_LIST", "SERVER_LIST", d)
        /\ RunHook("systemList")
        /\ peak' = IF ExecuteSet THEN peak   \* raised once the command has ended
                   ELSE RaisePeak("SERVER_LIST", Len(lists["SERVER_LIST"]) + 1)
  /\ out' = NoReply

HandleClientShake(d) ==
  /\ d.type = "CLIENTSHAKE"
  /\ \/ BogusShake("CLIENT_HANDSHAKE_LIST", d)
     \/ RenewActive("CLIENT_HANDSHAKE_LIST", "CLIENT_LIST", d)
     \/ /\ EnlistActive("CLIENT_HANDSHAKE_LIST", "CLIENT_LIST", d)
        /\ Handled
        /\ peak' = RaisePeak("CLIENT_LIST", Len(lists["CLIENT_LIST"]) + 1)
  /\ out' = NoReply

\* Mutant: the first server on the list is erased, whoever it is.
HandleTerminateFirst(d) ==
  /\ d.type = "TERMINATE"
  /\ LET found == FindByAddr(lists["SERVER_LIST"], SenderAddr(d)) IN
       \/ /\ found = {}
          /\ Handled
          /\ UNCHANGED lists
       \/ /\ found # {}
          /\ lists' = [lists EXCEPT !["SERVER_LIST"] = Tail(@)]
          /\ RunHook("systemDelist")
  /\ out' = NoReply
  /\ UNCHANGED peak

HandleTerminate(d) ==
  /\ d.type = "TERMINATE"
  /\ LET found == FindByAddr(lists["SERVER_LIST"], SenderAddr(d)) IN
       \/ /\ found = {}
          /\ Handled
          /\ UNCHANGED lists
       \/ \E i \in found :
            /\ lists' = [lists EXCEPT !["SERVER_LIST"] = RemoveAt(@, i)]
            /\ RunHook("systemDelist")
  /\ out' = NoReply
  /\ UNCHANGED peak

\* The addresses on a list, in its order.
Addresses(l) == [i \in 1..Len(l) |-> l[i].addr]

Listed == Addresses(lists["SERVER_LIST"])

HandleListRequest(d) ==
  /\ d.type = "LISTREQ"
  /\ \E r \in ListResponses(Listed, d.arg) :
       out' = [type |-> "LISTRESP", dst |-> d.src,
               total |-> r.total, servers |-> r.servers]
  /\ Handled
  /\ UNCHANGED <<lists, peak>>

Ignore(d) ==
  /\ d.type = "IGNORED"
  /\ Handled
  /\ out' = NoReply
  /\ UNCHANGED <<lists, peak>>

Receive(d) ==
  /\ mPacketCount < MaxPackets
  /\ LoopReceive
  /\ \/ HandleServerKeepalive(d) \/ HandleClientKeepalive(d)
     \/ HandleServerShake(d) \/ HandleClientShake(d)
     \/ HandleTerminate(d) \/ HandleListRequest(d) \/ Ignore(d)
  /\ UNCHANGED <<which, lead, now, alarmAt, lag>>

\* Mutant: the peak of the servers' list is forgotten once the command ends.
HookReturnsNoPeak ==
  /\ LoopHookReturns
  /\ IF pc = "systemReap" THEN EraseLead ELSE UNCHANGED lists
  /\ mPacketCount' = IF pc = "systemReap" THEN mPacketCount ELSE mPacketCount + 1
  /\ out' = NoReply
  /\ UNCHANGED <<peak, which, lead, now, alarmAt, lag>>

\* system(3) returns: the peak that HandleServerShake still has to record, or
\* the erasure that ReapList still has to make, follows.
HookReturns ==
  /\ LoopHookReturns
  /\ IF pc = "systemReap" THEN EraseLead ELSE UNCHANGED lists
  /\ peak' = IF pc = "systemList"
             THEN RaisePeak("SERVER_LIST", Len(lists["SERVER_LIST"])) ELSE peak
  /\ mPacketCount' = IF pc = "systemReap" THEN mPacketCount ELSE mPacketCount + 1
  /\ out' = NoReply
  /\ UNCHANGED <<which, lead, now, alarmAt, lag>>

-----------------------------------------------------------------------------
(* The kernel and the clock. *)

AlarmSignal ==
  /\ SIGALRM
  /\ now >= alarmAt
  /\ alarmAt' = 0
  /\ out' = NoReply
  /\ UNCHANGED <<lists, peak, mPacketCount, which, lead, now, lag>>

InterruptSignal ==
  /\ SIGINT
  /\ out' = NoReply
  /\ UNCHANGED <<lists, peak, mPacketCount, which, lead, now, alarmAt, lag>>

DatagramArrives ==
  /\ Arrive
  /\ out' = NoReply
  /\ UNCHANGED <<lists, peak, mPacketCount, which, lead, now, alarmAt, lag>>

\* The clock advances by a second: at any point of the program, but not past
\* the moment an alarm is due, and at most Slack times while one Reaper pass
\* is at work.
Tick ==
  /\ pc \notin Ended
  /\ now < MaxTime
  /\ armed => now < alarmAt
  /\ pc \in Reaping => lag < Slack
  /\ now' = now + 1
  /\ lag' = IF pc \in Reaping THEN lag + 1 ELSE lag
  /\ out' = NoReply
  /\ UNCHANGED <<loopVars, lists, peak, mPacketCount, which, lead, alarmAt>>

-----------------------------------------------------------------------------

Reaper == ReapErase \/ ReapHook \/ ReapKeep \/ NextReapList \/ ReaperDone

Process ==
  \/ Initialize \/ RegisterAlarm \/ FirstAlarm
  \/ CheckQuit \/ CheckAlarm \/ Reaper \/ Block
  \/ (\E d \in Datagrams : Receive(d))
  \/ HookReturns

Kernel == AlarmSignal \/ InterruptSignal \/ DatagramArrives \/ Tick

Next == Process \/ Kernel

Spec == Init /\ [][Next]_vars

-----------------------------------------------------------------------------
(* Properties. *)

HandshakeMsg    == [type : {"HANDSHAKE"}, dst : EndPoint, hs : HandshakeValue]
ListResponseMsg == [type : {"LISTRESP"}, dst : EndPoint, total : Nat,
                    servers : Seq(Addr)]

(* The values the variables range over. *)
TypeOK ==
  /\ LoopTypeOK
  /\ lists \in [ListType -> Seq(Handshake)]
  /\ peak \in [ListType -> Nat]
  /\ mPacketCount \in Nat
  /\ which \in 1..Len(ReapOrder)
  /\ lead \in Nat \ {0}
  /\ now \in Nat
  /\ alarmAt \in Nat
  /\ lag \in 0..Slack
  /\ out \in HandshakeMsg \cup ListResponseMsg \cup {NoReply}

(***************************************************************************)
(* An address is listed at most once, among the servers and among the      *)
(* clients, however its keepalives, shakes and terminations interleave     *)
(* with sweeps and with other peers'.  HandleTerminate erases one entry    *)
(* and a renewal touches one: a duplicate would survive both.              *)
(***************************************************************************)
UniqueActive ==
  \A w \in ActiveList : \A i, j \in DOMAIN lists[w] :
    lists[w][i].addr = lists[w][j].addr => i = j

(***************************************************************************)
(* While an alarm is outstanding, nothing on any of the four lists is      *)
(* older than two intervals, plus the seconds one sweep may straddle: an   *)
(* entry that one sweep only just spares is gone after the next.           *)
(***************************************************************************)
MaxAge == 2 * REAP_INTERVAL + Slack

BoundedStaleness ==
  armed => \A w \in ListType : \A i \in DOMAIN lists[w] :
             now <= lists[w][i].ts + MaxAge

(***************************************************************************)
(* The peak counters that Interrupted() reports never miss a size a list   *)
(* has reached.  The one moment the counter is behind is while the command *)
(* for a new server runs; SIGINT is ignored then, so no report is made.    *)
(***************************************************************************)
PeakCoversLists ==
  \A w \in ListType :
    Len(lists[w]) <= peak[w] \/ (w = "SERVER_LIST" /\ pc = "systemList")

\* The addresses on a list.
AddrsOf(l) == {l[i].addr : i \in DOMAIN l}

(***************************************************************************)
(* The command given with --execute runs on every change to the set of     *)
(* listed servers: right after a listing or a termination, or, for a       *)
(* server that is reaped, right before.                                    *)
(***************************************************************************)
HookOnListChange ==
  [][ExecuteSet /\ AddrsOf(lists["SERVER_LIST"]) # AddrsOf(lists'["SERVER_LIST"])
     => pc' \in {"systemList", "systemDelist"} \/ pc = "systemReap"]_vars

(***************************************************************************)
(* A server that has been silent for two intervals is off the list while   *)
(* the metaserver sleeps.                                                  *)
(***************************************************************************)
ReapedWithinTwoIntervals ==
  pc = "blocked" => \A i \in DOMAIN lists["SERVER_LIST"] :
                      now <= lists["SERVER_LIST"][i].ts + MaxAge

=============================================================================
