-------------------------- MODULE DirectoryProofs --------------------------
(***************************************************************************)
(* Proofs that the lists implement what the metaserver promises: module    *)
(* Directory, once for the servers and once for the clients, and, for a    *)
(* client that pages through the servers, module Roster.                   *)
(***************************************************************************)
EXTENDS MetaserverDirectory, MetaserverProofs

-----------------------------------------------------------------------------
(* The addresses on a list, in order. *)

(* erase() removes the same position from the addresses. *)
LEMMA AddressesOfErased ==
  ASSUME NEW l \in Seq(Handshake), NEW i \in 1..Len(l)
  PROVE  Addresses(RemoveAt(l, i)) = RemoveAt(Addresses(l), i)
<1> DEFINE s == RemoveAt(l, i)
           t == RemoveAt(Addresses(l), i)
<1>1. /\ Addresses(l) \in Seq(Addr)
      /\ Len(Addresses(l)) = Len(l)
      /\ \A k \in 1..Len(l) : Addresses(l)[k] = l[k].addr
  BY AddressesType
<1>2. /\ s \in Seq(Handshake)
      /\ Len(s) = Len(l) - 1
      /\ \A k \in 1..(Len(l) - 1) : s[k] = IF k < i THEN l[k] ELSE l[k + 1]
  BY RemoveAtElements
<1>3. /\ t \in Seq(Addr)
      /\ Len(t) = Len(l) - 1
      /\ \A k \in 1..(Len(l) - 1) :
           t[k] = IF k < i THEN Addresses(l)[k] ELSE Addresses(l)[k + 1]
  BY <1>1, RemoveAtElements
<1>4. /\ Addresses(s) \in Seq(Addr)
      /\ Len(Addresses(s)) = Len(s)
      /\ \A k \in 1..Len(s) : Addresses(s)[k] = s[k].addr
  BY <1>2, AddressesType
<1>5. Len(l) \in Nat
  BY LenProperties
<1> HIDE DEF s, t
<1>6. ASSUME NEW k \in 1..Len(t) PROVE Addresses(s)[k] = t[k]
  <2>1. k \in 1..(Len(l) - 1) /\ k \in 1..Len(l) /\ k + 1 \in 1..Len(l)
    BY <1>3, <1>5
  <2>2. Addresses(s)[k] = s[k].addr
    BY <1>2, <1>4, <2>1
  <2>3. CASE k < i
    <3>1. s[k] = l[k] /\ t[k] = Addresses(l)[k]
      BY <1>2, <1>3, <2>1, <2>3
    <3>2. QED
      BY <1>1, <2>1, <2>2, <3>1
  <2>4. CASE ~(k < i)
    <3>1. s[k] = l[k + 1] /\ t[k] = Addresses(l)[k + 1]
      BY <1>2, <1>3, <2>1, <2>4
    <3>2. QED
      BY <1>1, <2>1, <2>2, <3>1
  <2>5. QED
    BY <2>3, <2>4
<1>7. Addresses(s) = t
  BY <1>2, <1>3, <1>4, <1>6, SeqEqual
<1>8. QED
  BY <1>7 DEF s, t

(* push_back() puts the entry's address behind the addresses. *)
LEMMA AddressesOfAppended ==
  ASSUME NEW l \in Seq(Handshake), NEW e \in Handshake
  PROVE  Addresses(Append(l, e)) = Append(Addresses(l), e.addr)
<1> DEFINE s == Append(l, e)
           t == Append(Addresses(l), e.addr)
<1>1. /\ Addresses(l) \in Seq(Addr)
      /\ Len(Addresses(l)) = Len(l)
      /\ \A k \in 1..Len(l) : Addresses(l)[k] = l[k].addr
  BY AddressesType
<1>2. /\ s \in Seq(Handshake)
      /\ Len(s) = Len(l) + 1
      /\ \A k \in 1..(Len(l) + 1) : s[k] = IF k <= Len(l) THEN l[k] ELSE e
  BY AppendElements
<1>3. e.addr \in Addr
  BY DEF Handshake
<1>4. /\ t \in Seq(Addr)
      /\ Len(t) = Len(l) + 1
      /\ \A k \in 1..(Len(l) + 1) :
           t[k] = IF k <= Len(l) THEN Addresses(l)[k] ELSE e.addr
  BY <1>1, <1>3, AppendElements
<1>5. /\ Addresses(s) \in Seq(Addr)
      /\ Len(Addresses(s)) = Len(s)
      /\ \A k \in 1..Len(s) : Addresses(s)[k] = s[k].addr
  BY <1>2, AddressesType
<1>6. Len(l) \in Nat
  BY LenProperties
<1> HIDE DEF s, t
<1>7. ASSUME NEW k \in 1..Len(t) PROVE Addresses(s)[k] = t[k]
  <2>1. k \in 1..(Len(l) + 1) /\ Addresses(s)[k] = s[k].addr
    BY <1>2, <1>4, <1>5
  <2>2. CASE k <= Len(l)
    <3>1. s[k] = l[k] /\ t[k] = Addresses(l)[k] /\ k \in 1..Len(l)
      BY <1>2, <1>4, <1>6, <2>1, <2>2
    <3>2. QED
      BY <1>1, <2>1, <3>1
  <2>3. CASE ~(k <= Len(l))
    BY <1>2, <1>4, <2>1, <2>3
  <2>4. QED
    BY <2>2, <2>3
<1>8. s = Append(l, e) /\ t = Append(Addresses(l), e.addr)
  BY DEF s, t
<1>9. Addresses(s) = t
  BY <1>2, <1>4, <1>5, <1>7, SeqEqual
<1>10. QED
  BY <1>8, <1>9

(* SetTimestamp() changes no address. *)
LEMMA AddressesOfRenewed ==
  ASSUME NEW l \in Seq(Handshake), NEW j \in 1..Len(l)
  PROVE  Addresses([l EXCEPT ![j] = [@ EXCEPT !.ts = now]]) = Addresses(l)
<1> DEFINE s == [l EXCEPT ![j] = [@ EXCEPT !.ts = now]]
<1>1. Len(l) \in Nat /\ DOMAIN l = 1..Len(l) /\ l \in [1..Len(l) -> Handshake]
  BY LenProperties
<1>2. Len(s) = Len(l)
  BY <1>1
<1>3. ASSUME NEW k \in 1..Len(l) PROVE s[k].addr = l[k].addr
  <2>1. l[j] \in Handshake
    BY ElementOfSeq
  <2>2. CASE k = j
    BY <1>1, <2>1, <2>2 DEF Handshake
  <2>3. CASE k # j
    BY <1>1, <2>3
  <2>4. QED
    BY <2>2, <2>3
<1> HIDE DEF s
<1>4. Addresses(s) = Addresses(l)
  BY <1>2, <1>3 DEF Addresses
<1>5. QED
  BY <1>4 DEF s

(* A step of the metaserver is a step of Roster, or leaves the list alone. *)
LEMMA NextIsRosterNext ==
  ASSUME Inv, [Next]_vars
  PROVE  [Paged!RosterNext]_Listed
<1> DEFINE w == "SERVER_LIST"
           l == lists[w]
<1>1. w \in ListType /\ w \in ActiveList
  BY DEF ListType, ActiveList
<1>2. l \in Seq(Handshake) /\ Len(l) \in Nat
  BY <1>1, LenProperties DEF Inv, TypeOK
<1>3. Listed = Addresses(l) /\ Listed' = Addresses(lists'[w])
  BY DEF Listed, Addresses
<1>4. /\ Len(Listed) = Len(l)
      /\ \A i \in 1..Len(l) : Listed[i] = l[i].addr
  BY <1>2, <1>3, AddressesType
<1>5. Changes(w)
  BY <1>1, NextChange DEF Inv, ListsChange
<1>6. CASE Same(w)
  BY <1>3, <1>6 DEF Same
<1>7. CASE Erases(w)
  <2>1. PICK i \in 1..Len(l) : lists'[w] = RemoveAt(l, i)
    BY <1>7 DEF Erases
  <2>2. Listed' = RemoveAt(Listed, i)
    BY <1>2, <1>3, <2>1, AddressesOfErased
  <2>3. Listed' = Paged!RemoveAt(Listed, i)
    BY <2>2 DEF RemoveAt, Paged!RemoveAt
  <2>4. QED
    BY <1>4, <2>3 DEF Paged!RosterNext, Paged!Leave
<1>8. CASE Adds(w)
  <2>1. PICK a \in Addr, h \in Nat :
          /\ lists'[w] = Append(l, Entry(a, h, now))
          /\ a \notin AddrsOf(l)
    BY <1>1, <1>8 DEF Adds
  <2>2. Entry(a, h, now) \in Handshake /\ Entry(a, h, now).addr = a
    BY DEF Entry, Handshake, Inv, TypeOK
  <2>3. Listed' = Append(Listed, a)
    BY <1>2, <1>3, <2>1, <2>2, AddressesOfAppended
  <2>4. ~Paged!OnRoster(a)
    <3>1. \A i \in 1..Len(l) : l[i].addr # a
      BY <1>2, <2>1, LenProperties DEF AddrsOf
    <3>2. QED
      BY <1>4, <3>1 DEF Paged!OnRoster
  <2>5. QED
    BY <2>3, <2>4 DEF Paged!RosterNext, Paged!Join
<1>9. CASE Renews(w)
  <2>1. PICK j \in 1..Len(l) : lists'[w] = [l EXCEPT ![j] = [@ EXCEPT !.ts = now]]
    BY <1>9 DEF Renews
  <2>2. Listed' = Listed
    BY <1>2, <1>3, <2>1, AddressesOfRenewed
  <2>3. QED
    BY <2>2
<1>10. QED
  BY <1>5, <1>6, <1>7, <1>8, <1>9 DEF Changes

(***************************************************************************)
(* The list that clients page through is a Roster, for any hosts and any   *)
(* interleaving of registrations, terminations and sweeps.                 *)
(***************************************************************************)
THEOREM ServersAreARoster == Spec => RegistrationOrder
<1>1. Init => Paged!RosterInit
  <2> SUFFICES ASSUME Init PROVE Listed = <<>>
    BY DEF Paged!RosterInit
  <2>1. lists["SERVER_LIST"] = <<>>
    BY DEF Init, ListType, ActiveList
  <2>2. QED
    BY <2>1 DEF Listed, Addresses
<1>2. Inv /\ [Next]_vars => [Paged!RosterNext]_Listed
  BY NextIsRosterNext
<1>3. QED
  BY <1>1, <1>2, Invariance, PTL DEF Spec, RegistrationOrder, Paged!RosterSpec

-----------------------------------------------------------------------------
(* The leases that a list grants. *)

LeaseIn(l) ==
  [a \in Addr |-> IF a \in AddrsOf(l)
                  THEN l[CHOOSE i \in DOMAIN l : l[i].addr = a].ts
                  ELSE NotListed]

Unique(l) == \A i, j \in 1..Len(l) : l[i].addr = l[j].addr => i = j

(* On a list without duplicates the lease of an address is the timestamp   *)
(* of its entry.                                                           *)
LEMMA LeaseValues ==
  ASSUME NEW l \in Seq(Handshake), Unique(l)
  PROVE  /\ LeaseIn(l) = [a \in Addr |-> LeaseIn(l)[a]]
         /\ \A i \in 1..Len(l) : LeaseIn(l)[l[i].addr] = l[i].ts
         /\ \A a \in Addr \ AddrsOf(l) : LeaseIn(l)[a] = NotListed
<1>1. DOMAIN l = 1..Len(l)
  BY LenProperties
<1>2. ASSUME NEW i \in 1..Len(l) PROVE LeaseIn(l)[l[i].addr] = l[i].ts
  <2> DEFINE k == CHOOSE j \in DOMAIN l : l[j].addr = l[i].addr
  <2>1. k \in 1..Len(l) /\ l[k].addr = l[i].addr
    BY <1>1
  <2>2. k = i
    <3> HIDE DEF k
    <3> QED BY <2>1 DEF Unique
  <2>3. l[i] \in Handshake
    BY ElementOfSeq
  <2>4. l[i].addr \in Addr /\ l[i].addr \in AddrsOf(l)
    BY <1>1, <2>3 DEF Handshake, AddrsOf
  <2>5. LeaseIn(l)[l[i].addr] = l[k].ts
    BY <2>4 DEF LeaseIn
  <2>6. QED
    BY <2>2, <2>5
<1>3. QED
  BY <1>2 DEF LeaseIn

(* Only one function has these values. *)
LEMMA LeaseIsThat ==
  ASSUME NEW l \in Seq(Handshake), Unique(l), NEW f,
         f = [a \in Addr |-> f[a]],
         \A i \in 1..Len(l) : f[l[i].addr] = l[i].ts,
         \A a \in Addr \ AddrsOf(l) : f[a] = NotListed
  PROVE  LeaseIn(l) = f
<1>1. LeaseIn(l) = [a \in Addr |-> LeaseIn(l)[a]]
  BY LeaseValues
<1>2. ASSUME NEW a \in Addr PROVE LeaseIn(l)[a] = f[a]
  <2>1. CASE a \in AddrsOf(l)
    <3>1. PICK i \in 1..Len(l) : l[i].addr = a
      BY <2>1, LenProperties DEF AddrsOf
    <3>2. QED
      BY <3>1, LeaseValues
  <2>2. CASE a \notin AddrsOf(l)
    BY <2>2, LeaseValues
  <2>3. QED
    BY <2>1, <2>2
<1> DEFINE g == LeaseIn(l)
<1>3. g = [a \in Addr |-> g[a]] /\ \A a \in Addr : g[a] = f[a]
  BY <1>1, <1>2
<1> HIDE DEF g
<1>4. g = f
  BY <1>3
<1>5. QED
  BY <1>4 DEF g

(* erase() ends the lease of the entry's address. *)
LEMMA LeaseErased ==
  ASSUME NEW l \in Seq(Handshake), Unique(l), NEW i \in 1..Len(l),
         Unique(RemoveAt(l, i))
  PROVE  LeaseIn(RemoveAt(l, i)) = [LeaseIn(l) EXCEPT ![l[i].addr] = NotListed]
<1> DEFINE s == RemoveAt(l, i)
           f == [LeaseIn(l) EXCEPT ![l[i].addr] = NotListed]
<1>1. /\ s \in Seq(Handshake)
      /\ Len(s) = Len(l) - 1
      /\ \A k \in 1..(Len(l) - 1) : s[k] = IF k < i THEN l[k] ELSE l[k + 1]
  BY RemoveAtElements
<1>2. /\ Len(l) \in Nat /\ DOMAIN l = 1..Len(l) /\ DOMAIN s = 1..Len(s)
      /\ \A k \in 1..Len(l) : l[k].addr \in Addr
  <2>1. \A k \in 1..Len(l) : l[k] \in Handshake
    BY ElementOfSeq
  <2>2. QED
    BY <1>1, <2>1, LenProperties DEF Handshake
<1>3. /\ DOMAIN f = Addr /\ f = [a \in Addr |-> f[a]]
      /\ f[l[i].addr] = NotListed
      /\ \A a \in Addr : a # l[i].addr => f[a] = LeaseIn(l)[a]
  BY <1>2, LeaseValues
<1> HIDE DEF s, f
<1>4. ASSUME NEW k \in 1..Len(s) PROVE f[s[k].addr] = s[k].ts
  <2> DEFINE o == IF k < i THEN k ELSE k + 1
  <2>1. o \in 1..Len(l) /\ o # i /\ s[k] = l[o]
    BY <1>1, <1>2
  <2> HIDE DEF o
  <2>2. l[o].addr # l[i].addr
    BY <2>1 DEF Unique
  <2>3. f[l[o].addr] = LeaseIn(l)[l[o].addr]
    BY <1>2, <1>3, <2>1, <2>2
  <2>4. QED
    BY <2>1, <2>3, LeaseValues
<1>5. ASSUME NEW a \in Addr \ AddrsOf(s) PROVE f[a] = NotListed
  <2>1. CASE a = l[i].addr
    BY <1>3, <2>1
  <2>2. CASE a # l[i].addr
    <3>1. ASSUME NEW k \in 1..Len(l), l[k].addr = a PROVE FALSE
      <4> DEFINE n == IF k < i THEN k ELSE k - 1
      <4>1. k # i
        BY <2>2, <3>1
      <4>2. n \in 1..Len(s) /\ s[n] = l[k]
        BY <1>1, <1>2, <4>1
      <4> HIDE DEF n
      <4>3. QED
        BY <1>2, <3>1, <4>2 DEF AddrsOf
    <3>2. a \notin AddrsOf(l)
      BY <1>2, <3>1 DEF AddrsOf
    <3>3. QED
      BY <1>3, <2>2, <3>2, LeaseValues
  <2>3. QED
    BY <2>1, <2>2
<1>6. LeaseIn(s) = f
  <2>1. Unique(s)
    BY DEF s
  <2>2. QED
    BY <1>1, <1>3, <1>4, <1>5, <2>1, LeaseIsThat
<1>7. QED
  BY <1>6 DEF s, f

(* push_back() grants one to an address that has none. *)
LEMMA LeaseAdded ==
  ASSUME NEW l \in Seq(Handshake), Unique(l), NEW e \in Handshake,
         e.addr \notin AddrsOf(l), Unique(Append(l, e))
  PROVE  LeaseIn(Append(l, e)) = [LeaseIn(l) EXCEPT ![e.addr] = e.ts]
<1> DEFINE s == Append(l, e)
           f == [LeaseIn(l) EXCEPT ![e.addr] = e.ts]
<1>1. /\ s \in Seq(Handshake)
      /\ Len(s) = Len(l) + 1
      /\ \A k \in 1..(Len(l) + 1) : s[k] = IF k <= Len(l) THEN l[k] ELSE e
  BY AppendElements
<1>2. /\ Len(l) \in Nat /\ DOMAIN l = 1..Len(l) /\ DOMAIN s = 1..Len(s)
      /\ \A k \in 1..Len(l) : l[k].addr \in Addr
      /\ e.addr \in Addr
  <2>1. \A k \in 1..Len(l) : l[k] \in Handshake
    BY ElementOfSeq
  <2>2. QED
    BY <1>1, <2>1, LenProperties DEF Handshake
<1>3. /\ f = [a \in Addr |-> f[a]]
      /\ f[e.addr] = e.ts
      /\ \A a \in Addr : a # e.addr => f[a] = LeaseIn(l)[a]
  BY <1>2, LeaseValues
<1> HIDE DEF s, f
<1>4. ASSUME NEW k \in 1..Len(s) PROVE f[s[k].addr] = s[k].ts
  <2>1. CASE k <= Len(l)
    <3>1. k \in 1..Len(l) /\ s[k] = l[k]
      BY <1>1, <1>2, <2>1
    <3>2. l[k].addr # e.addr
      BY <1>2, <3>1 DEF AddrsOf
    <3>3. QED
      BY <1>2, <1>3, <3>1, <3>2, LeaseValues
  <2>2. CASE ~(k <= Len(l))
    BY <1>1, <1>2, <1>3, <2>2
  <2>3. QED
    BY <2>1, <2>2
<1>5. ASSUME NEW a \in Addr \ AddrsOf(s) PROVE f[a] = NotListed
  <2>1. ASSUME NEW k \in 1..Len(s) PROVE s[k].addr # a
    BY <1>2 DEF AddrsOf
  <2>2. s[Len(l) + 1] = e /\ Len(l) + 1 \in 1..Len(s)
    BY <1>1, <1>2
  <2>3. a # e.addr
    BY <2>1, <2>2
  <2>4. ASSUME NEW k \in 1..Len(l) PROVE l[k].addr # a
    <3>1. k \in 1..Len(s) /\ s[k] = l[k]
      BY <1>1, <1>2
    <3>2. QED
      BY <2>1, <3>1
  <2>5. a \notin AddrsOf(l)
    BY <1>2, <2>4 DEF AddrsOf
  <2>6. QED
    BY <1>3, <2>3, <2>5, LeaseValues
<1>6. LeaseIn(s) = f
  <2>1. Unique(s)
    BY DEF s
  <2>2. QED
    BY <1>1, <1>3, <1>4, <1>5, <2>1, LeaseIsThat
<1>7. QED
  BY <1>6 DEF s, f

(* SetTimestamp() renews one. *)
LEMMA LeaseRenewed ==
  ASSUME NEW l \in Seq(Handshake), Unique(l), NEW j \in 1..Len(l), now \in Nat,
         Unique([l EXCEPT ![j] = [@ EXCEPT !.ts = now]])
  PROVE  LeaseIn([l EXCEPT ![j] = [@ EXCEPT !.ts = now]])
           = [LeaseIn(l) EXCEPT ![l[j].addr] = now]
<1> DEFINE s == [l EXCEPT ![j] = [@ EXCEPT !.ts = now]]
           f == [LeaseIn(l) EXCEPT ![l[j].addr] = now]
<1>1. l[j] \in Handshake
  BY ElementOfSeq
<1>2. /\ [l[j] EXCEPT !.ts = now] \in Handshake
      /\ [l[j] EXCEPT !.ts = now].ts = now
      /\ [l[j] EXCEPT !.ts = now].addr = l[j].addr
  BY <1>1 DEF Handshake
<1>3. /\ s \in Seq(Handshake)
      /\ Len(s) = Len(l)
      /\ \A k \in 1..Len(l) : s[k] = IF k = j THEN [l[j] EXCEPT !.ts = now] ELSE l[k]
  BY <1>2, ExceptSeq
<1>4. /\ DOMAIN l = 1..Len(l) /\ DOMAIN s = 1..Len(s)
      /\ \A k \in 1..Len(l) : l[k].addr \in Addr
  <2>1. \A k \in 1..Len(l) : l[k] \in Handshake
    BY ElementOfSeq
  <2>2. QED
    BY <1>3, <2>1, LenProperties DEF Handshake
<1>5. /\ f = [a \in Addr |-> f[a]]
      /\ f[l[j].addr] = now
      /\ \A a \in Addr : a # l[j].addr => f[a] = LeaseIn(l)[a]
  BY <1>4, LeaseValues
<1> HIDE DEF s, f
<1>6. ASSUME NEW k \in 1..Len(s) PROVE f[s[k].addr] = s[k].ts
  <2>1. CASE k = j
    BY <1>2, <1>3, <1>5, <2>1
  <2>2. CASE k # j
    <3>1. k \in 1..Len(l) /\ s[k] = l[k]
      BY <1>3, <2>2
    <3>2. l[k].addr # l[j].addr
      BY <2>2, <3>1 DEF Unique
    <3>3. QED
      BY <1>4, <1>5, <3>1, <3>2, LeaseValues
  <2>3. QED
    BY <2>1, <2>2
<1>7. ASSUME NEW a \in Addr \ AddrsOf(s) PROVE f[a] = NotListed
  <2>1. ASSUME NEW k \in 1..Len(l) PROVE l[k].addr # a
    <3>1. k \in 1..Len(s) /\ s[k].addr # a
      BY <1>3, <1>4 DEF AddrsOf
    <3>2. s[k].addr = l[k].addr
      BY <1>2, <1>3
    <3>3. QED
      BY <3>1, <3>2
  <2>2. a \notin AddrsOf(l)
    BY <1>4, <2>1 DEF AddrsOf
  <2>3. QED
    BY <1>5, <2>1, <2>2, LeaseValues
<1>8. LeaseIn(s) = f
  <2>1. Unique(s)
    BY DEF s
  <2>2. QED
    BY <1>3, <1>5, <1>6, <1>7, <2>1, LeaseIsThat
<1>9. QED
  BY <1>8 DEF s, f

(* What a step does to an active list c and the pending list p behind it,  *)
(* when it handles datagram d.                                             *)

Keeps(c, p) == Same(c) /\ Same(p) /\ now' = now

Issues(c, p, d) ==
  /\ \E h \in HandshakeValue :
       lists'[p] = Append(lists[p], Entry(SenderAddr(d), h, now))
  /\ Same(c) /\ now' = now

Redeems(c, p, d) ==
  /\ \E i \in FindByHS(lists[p], d.arg) : lists'[p] = RemoveAt(lists[p], i)
  /\ \/ /\ SenderAddr(d) \notin AddrsOf(lists[c])
        /\ lists'[c] = Append(lists[c], Entry(SenderAddr(d), 0, now))
     \/ \E j \in 1..Len(lists[c]) :
          /\ lists[c][j].addr = SenderAddr(d)
          /\ lists'[c] = [lists[c] EXCEPT ![j] = [@ EXCEPT !.ts = now]]
  /\ now' = now

Refuses(c, p, d) == FindByHS(lists[p], d.arg) = {} /\ Keeps(c, p)

Withdraws(c, p, d) ==
  /\ \/ SenderAddr(d) \notin AddrsOf(lists[c]) /\ Same(c)
     \/ \E i \in 1..Len(lists[c]) :
          lists[c][i].addr = SenderAddr(d) /\ lists'[c] = RemoveAt(lists[c], i)
  /\ Same(p) /\ now' = now

(* And when it handles none. *)

Waits(c, p) == Same(c) /\ Same(p) /\ now' \in {now, now + 1}

Ends(c, p) ==
  /\ \E i \in 1..Len(lists[c]) :
       Stale(lists[c][i]) /\ lists'[c] = RemoveAt(lists[c], i)
  /\ Same(p) /\ now' = now

Voids(c, p) ==
  /\ \E i \in 1..Len(lists[p]) :
       Stale(lists[p][i]) /\ lists'[p] = RemoveAt(lists[p], i)
  /\ Same(c) /\ now' = now

MovesUnasked(c, p) == Waits(c, p) \/ Ends(c, p) \/ Voids(c, p)

\* The two directories.
Directories == {<<"SERVER_LIST", "SERVER_HANDSHAKE_LIST">>,
                <<"CLIENT_LIST", "CLIENT_HANDSHAKE_LIST">>}

(* The lists of a directory are its own. *)
LEMMA DirectoryLists ==
  ASSUME NEW k \in Directories, NEW m \in Directories
  PROVE  /\ k[1] \in ActiveList /\ k[2] \in HandshakeList
         /\ k[1] \in ListType /\ k[2] \in ListType
         /\ k[1] # m[2]
         /\ m = k \/ (m[1] # k[1] /\ m[2] # k[2])
<1> DEFINE A == <<"SERVER_LIST", "SERVER_HANDSHAKE_LIST">>
           B == <<"CLIENT_LIST", "CLIENT_HANDSHAKE_LIST">>
<1>1. /\ A[1] = "SERVER_LIST" /\ A[2] = "SERVER_HANDSHAKE_LIST"
      /\ B[1] = "CLIENT_LIST" /\ B[2] = "CLIENT_HANDSHAKE_LIST"
  OBVIOUS
<1>2. k \in {A, B} /\ m \in {A, B}
  BY DEF Directories
<1> HIDE DEF A, B
<1>3. k[1] \in ActiveList /\ k[2] \in HandshakeList
  BY <1>1, <1>2 DEF ActiveList, HandshakeList
<1>4. k[1] # m[2]
  BY <1>1, <1>2
<1>5. m = k \/ (m[1] # k[1] /\ m[2] # k[2])
  BY <1>1, <1>2
<1>6. QED
  BY <1>3, <1>4, <1>5 DEF ListType

(* A KEEPALIVE issues a ticket of one directory and leaves the other.      *)
LEMMA IssueMoves ==
  ASSUME TypeOK, NEW d \in Datagrams, now' = now,
         NEW k \in Directories, NEW m \in Directories, IssueHandshake(k[2], d)
  PROVE  /\ m = k => Issues(m[1], m[2], d)
         /\ m # k => Keeps(m[1], m[2])
<1>1. PICK h \in HandshakeValue :
        lists' = [lists EXCEPT ![k[2]] = Append(@, Entry(SenderAddr(d), h, now))]
  BY DEF IssueHandshake
<1>2. m[1] \in ListType /\ m[2] \in ListType /\ k[2] \in ListType /\ m[1] # k[2]
  BY DirectoryLists
<1>3. Same(m[1])
  BY <1>1, <1>2 DEF Same, TypeOK
<1>4. CASE m = k
  <2>1. lists'[k[2]] = Append(lists[k[2]], Entry(SenderAddr(d), h, now))
    BY <1>1, <1>2 DEF TypeOK
  <2>2. QED
    BY <1>3, <1>4, <2>1 DEF Issues
<1>5. CASE m # k
  <2>1. m[2] # k[2]
    BY <1>5, DirectoryLists
  <2>2. Same(m[2])
    BY <1>1, <1>2, <2>1 DEF Same, TypeOK
  <2>3. QED
    BY <1>3, <1>5, <2>2 DEF Keeps
<1>6. QED
  BY <1>4, <1>5

(* A SHAKE redeems a ticket of the directory it is for, or is refused.     *)
LEMMA ShakeMoves ==
  ASSUME TypeOK, NEW d \in Datagrams, now' = now,
         NEW k \in Directories, NEW m \in Directories,
         \/ BogusShake(k[2], d)
         \/ RenewActive(k[2], k[1], d)
         \/ EnlistActive(k[2], k[1], d)
  PROVE  /\ m = k => Redeems(m[1], m[2], d) \/ Refuses(m[1], m[2], d)
         /\ m # k => Keeps(m[1], m[2])
<1> DEFINE c == k[1]
           p == k[2]
<1>1. /\ c \in ListType /\ p \in ListType /\ c # p
      /\ m[1] \in ListType /\ m[2] \in ListType /\ m[1] # p /\ m[2] # c
      /\ m = k \/ (m[1] # c /\ m[2] # p)
  BY DirectoryLists
<1>2. k[1] = c /\ k[2] = p
  OBVIOUS
<1>3. \/ BogusShake(p, d) \/ RenewActive(p, c, d) \/ EnlistActive(p, c, d)
  OBVIOUS
<1> HIDE DEF c, p
<1>4. lists[p] \in Seq(Handshake) /\ lists[c] \in Seq(Handshake)
  BY <1>1 DEF TypeOK
<1>5. CASE BogusShake(p, d)
  BY <1>2, <1>5 DEF BogusShake, Refuses, Keeps, Same
<1>6. CASE RenewActive(p, c, d)
  <2>1. PICK i \in FindByHS(lists[p], d.arg), j \in FindByAddr(lists[c], SenderAddr(d)) :
          lists' = [lists EXCEPT ![p] = RemoveAt(@, i), ![c][j].ts = now]
    BY <1>6 DEF RenewActive
  <2>2. j \in 1..Len(lists[c]) /\ lists[c][j].addr = SenderAddr(d)
    BY <1>4, FindProperties
  <2>3. lists'[p] = RemoveAt(lists[p], i)
    BY <1>1, <2>1 DEF TypeOK
  <2>4. lists'[c] = [lists[c] EXCEPT ![j] = [@ EXCEPT !.ts = now]]
    BY <1>1, <2>1 DEF TypeOK
  <2>5. Redeems(c, p, d)
    BY <2>2, <2>3, <2>4 DEF Redeems
  <2>6. m # k => Same(m[1]) /\ Same(m[2])
    BY <1>1, <2>1 DEF TypeOK, Same
  <2>7. QED
    BY <1>2, <2>5, <2>6 DEF Keeps
<1>7. CASE EnlistActive(p, c, d)
  <2>1. PICK i \in FindByHS(lists[p], d.arg) :
          lists' = [lists EXCEPT ![p] = RemoveAt(@, i),
                                 ![c] = Append(@, Entry(SenderAddr(d), 0, now))]
    BY <1>7 DEF EnlistActive
  <2>2. SenderAddr(d) \notin AddrsOf(lists[c])
    BY <1>4, <1>7, FindProperties DEF EnlistActive
  <2>3. lists'[p] = RemoveAt(lists[p], i)
    BY <1>1, <2>1 DEF TypeOK
  <2>4. lists'[c] = Append(lists[c], Entry(SenderAddr(d), 0, now))
    BY <1>1, <2>1 DEF TypeOK
  <2>5. Redeems(c, p, d)
    BY <2>2, <2>3, <2>4 DEF Redeems
  <2>6. m # k => Same(m[1]) /\ Same(m[2])
    BY <1>1, <2>1 DEF TypeOK, Same
  <2>7. QED
    BY <1>2, <2>5, <2>6 DEF Keeps
<1>8. QED
  BY <1>3, <1>5, <1>6, <1>7

(* A TERMINATE ends the lease of its sender, if that is a listed server.   *)
LEMMA TerminateMoves ==
  ASSUME TypeOK, NEW d \in Datagrams, HandleTerminate(d), now' = now,
         NEW m \in Directories
  PROVE  /\ m[1] = "SERVER_LIST" => Withdraws(m[1], m[2], d)
         /\ m[1] # "SERVER_LIST" => Keeps(m[1], m[2])
<1> DEFINE w == "SERVER_LIST"
           a == SenderAddr(d)
<1>1. w \in ListType /\ m[1] \in ListType /\ m[2] \in ListType /\ m[2] # w
  <2>1. m[2] \in HandshakeList /\ m[1] \in ListType /\ m[2] \in ListType
    BY DirectoryLists
  <2>2. QED
    BY <2>1 DEF HandshakeList, ListType, ActiveList
<1>2. lists[w] \in Seq(Handshake)
  BY <1>1 DEF TypeOK
<1>3. CASE FindByAddr(lists[w], a) = {} /\ UNCHANGED lists
  <2>1. a \notin AddrsOf(lists[w])
    BY <1>2, <1>3, FindProperties
  <2>2. QED
    BY <1>3, <2>1 DEF Withdraws, Keeps, Same
<1>4. CASE \E i \in FindByAddr(lists[w], a) :
             lists' = [lists EXCEPT ![w] = RemoveAt(@, i)]
  <2>1. PICK i \in FindByAddr(lists[w], a) :
          lists' = [lists EXCEPT ![w] = RemoveAt(@, i)]
    BY <1>4
  <2>2. i \in 1..Len(lists[w]) /\ lists[w][i].addr = a
    BY <1>2, FindProperties
  <2>3. lists'[w] = RemoveAt(lists[w], i) /\ Same(m[2])
    BY <1>1, <2>1 DEF TypeOK, Same
  <2>4. m[1] # w => Same(m[1])
    BY <1>1, <2>1 DEF TypeOK, Same
  <2>5. QED
    BY <2>2, <2>3, <2>4 DEF Withdraws, Keeps
<1>5. QED
  BY <1>3, <1>4 DEF HandleTerminate

(* What a datagram does to the servers' directory.                         *)
LEMMA ReceiveMovesServers ==
  ASSUME TypeOK, NEW d \in Datagrams, Receive(d),
         NEW m \in Directories, m[1] = "SERVER_LIST"
  PROVE  \/ d.type = "SERVERKEEPALIVE" /\ Issues(m[1], m[2], d)
         \/ d.type = "SERVERSHAKE" /\ (Redeems(m[1], m[2], d) \/ Refuses(m[1], m[2], d))
         \/ d.type = "TERMINATE" /\ Withdraws(m[1], m[2], d)
         \/ /\ d.type \notin {"SERVERKEEPALIVE", "SERVERSHAKE", "TERMINATE"}
            /\ Keeps(m[1], m[2])
<1> DEFINE S == <<"SERVER_LIST", "SERVER_HANDSHAKE_LIST">>
           C == <<"CLIENT_LIST", "CLIENT_HANDSHAKE_LIST">>
<1>1. /\ S[1] = "SERVER_LIST" /\ S[2] = "SERVER_HANDSHAKE_LIST"
      /\ C[1] = "CLIENT_LIST" /\ C[2] = "CLIENT_HANDSHAKE_LIST"
      /\ S \in Directories /\ C \in Directories
  BY DEF Directories
<1>2. m \in {S, C}
  BY DEF Directories
<1> HIDE DEF S, C
<1>3. m = S /\ m # C
  BY <1>1, <1>2
<1>4. now' = now
  BY DEF Receive
<1>5. CASE HandleServerKeepalive(d)
  <2>1. IssueHandshake(S[2], d) /\ d.type = "SERVERKEEPALIVE"
    BY <1>1, <1>5 DEF HandleServerKeepalive
  <2>2. Issues(m[1], m[2], d)
    BY <1>1, <1>3, <1>4, <2>1, IssueMoves
  <2>3. QED
    BY <2>1, <2>2
<1>6. CASE HandleClientKeepalive(d)
  <2>1. IssueHandshake(C[2], d) /\ d.type = "CLIENTKEEPALIVE"
    BY <1>1, <1>6 DEF HandleClientKeepalive
  <2>2. Keeps(m[1], m[2])
    BY <1>1, <1>3, <1>4, <2>1, IssueMoves
  <2>3. QED
    BY <2>1, <2>2
<1>7. CASE HandleServerShake(d)
  <2>1. /\ d.type = "SERVERSHAKE"
        /\ \/ BogusShake(S[2], d) \/ RenewActive(S[2], S[1], d) \/ EnlistActive(S[2], S[1], d)
    BY <1>1, <1>7 DEF HandleServerShake
  <2>2. Redeems(m[1], m[2], d) \/ Refuses(m[1], m[2], d)
    BY <1>1, <1>3, <1>4, <2>1, ShakeMoves
  <2>3. QED
    BY <2>1, <2>2
<1>8. CASE HandleClientShake(d)
  <2>1. /\ d.type = "CLIENTSHAKE"
        /\ \/ BogusShake(C[2], d) \/ RenewActive(C[2], C[1], d) \/ EnlistActive(C[2], C[1], d)
    BY <1>1, <1>8 DEF HandleClientShake
  <2>2. Keeps(m[1], m[2])
    BY <1>1, <1>3, <1>4, <2>1, ShakeMoves
  <2>3. QED
    BY <2>1, <2>2
<1>9. CASE HandleTerminate(d)
  <2>1. Withdraws(m[1], m[2], d)
    BY <1>4, <1>9, TerminateMoves
  <2>2. QED
    BY <1>9, <2>1 DEF HandleTerminate
<1>10. CASE HandleListRequest(d) \/ Ignore(d)
  BY <1>4, <1>10 DEF HandleListRequest, Ignore, Keeps, Same
<1>11. QED
  BY <1>5, <1>6, <1>7, <1>8, <1>9, <1>10 DEF Receive

(* And to the clients'.                                                    *)
LEMMA ReceiveMovesClients ==
  ASSUME TypeOK, NEW d \in Datagrams, Receive(d),
         NEW m \in Directories, m[1] = "CLIENT_LIST"
  PROVE  \/ d.type = "CLIENTKEEPALIVE" /\ Issues(m[1], m[2], d)
         \/ d.type = "CLIENTSHAKE" /\ (Redeems(m[1], m[2], d) \/ Refuses(m[1], m[2], d))
         \/ /\ d.type \notin {"CLIENTKEEPALIVE", "CLIENTSHAKE"}
            /\ Keeps(m[1], m[2])
<1> DEFINE S == <<"SERVER_LIST", "SERVER_HANDSHAKE_LIST">>
           C == <<"CLIENT_LIST", "CLIENT_HANDSHAKE_LIST">>
<1>1. /\ S[1] = "SERVER_LIST" /\ S[2] = "SERVER_HANDSHAKE_LIST"
      /\ C[1] = "CLIENT_LIST" /\ C[2] = "CLIENT_HANDSHAKE_LIST"
      /\ S \in Directories /\ C \in Directories
  BY DEF Directories
<1>2. m \in {S, C}
  BY DEF Directories
<1> HIDE DEF S, C
<1>3. m = C /\ m # S
  BY <1>1, <1>2
<1>4. now' = now
  BY DEF Receive
<1>5. CASE HandleServerKeepalive(d)
  <2>1. IssueHandshake(S[2], d) /\ d.type = "SERVERKEEPALIVE"
    BY <1>1, <1>5 DEF HandleServerKeepalive
  <2>2. Keeps(m[1], m[2])
    BY <1>1, <1>3, <1>4, <2>1, IssueMoves
  <2>3. QED
    BY <2>1, <2>2
<1>6. CASE HandleClientKeepalive(d)
  <2>1. IssueHandshake(C[2], d) /\ d.type = "CLIENTKEEPALIVE"
    BY <1>1, <1>6 DEF HandleClientKeepalive
  <2>2. Issues(m[1], m[2], d)
    BY <1>1, <1>3, <1>4, <2>1, IssueMoves
  <2>3. QED
    BY <2>1, <2>2
<1>7. CASE HandleServerShake(d)
  <2>1. /\ d.type = "SERVERSHAKE"
        /\ \/ BogusShake(S[2], d) \/ RenewActive(S[2], S[1], d) \/ EnlistActive(S[2], S[1], d)
    BY <1>1, <1>7 DEF HandleServerShake
  <2>2. Keeps(m[1], m[2])
    BY <1>1, <1>3, <1>4, <2>1, ShakeMoves
  <2>3. QED
    BY <2>1, <2>2
<1>8. CASE HandleClientShake(d)
  <2>1. /\ d.type = "CLIENTSHAKE"
        /\ \/ BogusShake(C[2], d) \/ RenewActive(C[2], C[1], d) \/ EnlistActive(C[2], C[1], d)
    BY <1>1, <1>8 DEF HandleClientShake
  <2>2. Redeems(m[1], m[2], d) \/ Refuses(m[1], m[2], d)
    BY <1>1, <1>3, <1>4, <2>1, ShakeMoves
  <2>3. QED
    BY <2>1, <2>2
<1>9. CASE HandleTerminate(d)
  <2>1. Keeps(m[1], m[2])
    BY <1>4, <1>9, TerminateMoves
  <2>2. QED
    BY <1>9, <2>1 DEF HandleTerminate
<1>10. CASE HandleListRequest(d) \/ Ignore(d)
  BY <1>4, <1>10 DEF HandleListRequest, Ignore, Keeps, Same
<1>11. QED
  BY <1>5, <1>6, <1>7, <1>8, <1>9, <1>10 DEF Receive

(* The Reaper ends a lease or voids a ticket, when it is stale. *)
LEMMA EraseLeadMoves ==
  ASSUME TypeOK, lead <= Len(Reaped), Stale(Reaped[lead]), EraseLead, now' = now,
         NEW m \in Directories
  PROVE  MovesUnasked(m[1], m[2])
<1> DEFINE w == ReapOrder[which]
<1>1. w \in ListType /\ m[1] \in ListType /\ m[2] \in ListType /\ m[1] # m[2]
  BY ReapOrderProperties, DirectoryLists DEF TypeOK
<1>2. lead \in 1..Len(lists[w]) /\ Stale(lists[w][lead])
  BY <1>1, LenProperties DEF TypeOK, Reaped
<1>3. lists'[w] = RemoveAt(lists[w], lead) /\ \A v \in ListType \ {w} : Same(v)
  BY <1>1 DEF EraseLead, TypeOK, Same
<1> HIDE DEF w
<1>4. CASE m[1] = w
  BY <1>1, <1>2, <1>3, <1>4 DEF MovesUnasked, Ends
<1>5. CASE m[2] = w
  BY <1>1, <1>2, <1>3, <1>5 DEF MovesUnasked, Voids
<1>6. CASE m[1] # w /\ m[2] # w
  BY <1>1, <1>3, <1>6 DEF MovesUnasked, Waits
<1>7. QED
  BY <1>4, <1>5, <1>6

(* Without a datagram the metaserver moves each of its directories so. *)
LEMMA UnaskedMoves ==
  ASSUME Inv, Unasked, NEW m \in Directories
  PROVE  MovesUnasked(m[1], m[2])
<1>1. TypeOK /\ AtLead
  BY DEF Inv
<1>2. CASE Tick
  BY <1>2 DEF Tick, MovesUnasked, Waits, Same
<1>3. CASE Quiet /\ ~Tick
  <2>1. now' = now
    BY <1>3 DEF Quiet, Initialize, RegisterAlarm, FirstAlarm, CheckQuit, CheckAlarm, Block,
       ReapHook, ReapKeep, NextReapList, ReaperDone,
       AlarmSignal, InterruptSignal, DatagramArrives
  <2>2. QED
    BY <1>3, <2>1, QuietSame DEF MovesUnasked, Waits, Same
<1>4. CASE ReapErase
  BY <1>1, <1>4, EraseLeadMoves DEF ReapErase
<1>5. CASE HookReturns
  <2>1. now' = now
    BY <1>5 DEF HookReturns
  <2>2. CASE pc = "systemReap"
    BY <1>1, <1>5, <2>1, <2>2, EraseLeadMoves DEF HookReturns, AtLead
  <2>3. CASE pc # "systemReap"
    BY <1>5, <2>1, <2>3 DEF HookReturns, MovesUnasked, Waits, Same
  <2>4. QED
    BY <2>2, <2>3
<1>6. QED
  BY <1>2, <1>3, <1>4, <1>5 DEF Unasked, Kernel, Reaper, Quiet

-----------------------------------------------------------------------------
(* Those moves are steps of module Directory. *)

(* The leases change with the list: a redemption grants or renews the      *)
(* sender's lease, a withdrawal ends it, and the end of an entry is the    *)
(* end of a stale one.                                                     *)
LEMMA LeaseMoves ==
  ASSUME Inv, Inv', NEW c \in ActiveList, NEW p \in HandshakeList
  PROVE  /\ \A d \in Datagrams :
              /\ Redeems(c, p, d) =>
                   LeaseIn(lists'[c]) = [LeaseIn(lists[c]) EXCEPT ![SenderAddr(d)] = now]
              /\ Withdraws(c, p, d) =>
                   LeaseIn(lists'[c]) = [LeaseIn(lists[c]) EXCEPT ![SenderAddr(d)] = NotListed]
         /\ Ends(c, p) =>
              \E a \in Addr :
                /\ LeaseIn(lists[c])[a] # NotListed
                /\ LeaseIn(lists'[c]) = [LeaseIn(lists[c]) EXCEPT ![a] = NotListed]
                /\ now > LeaseIn(lists[c])[a] + REAP_INTERVAL
<1> DEFINE l == lists[c]
<1>1. c \in ListType /\ now \in Nat
  BY DEF ListType, Inv, TypeOK
<1>2. l \in Seq(Handshake) /\ Unique(l) /\ Unique(lists'[c])
  <2>1. l \in Seq(Handshake) /\ lists'[c] \in Seq(Handshake)
    BY <1>1 DEF Inv, TypeOK
  <2>2. DOMAIN l = 1..Len(l) /\ DOMAIN lists'[c] = 1..Len(lists'[c])
    BY <2>1, LenProperties
  <2>3. QED
    BY <2>1, <2>2 DEF Inv, UniqueActive, Unique
<1>3. \A i \in 1..Len(l) : l[i].addr \in Addr /\ l[i].ts \in Nat
  <2>1. \A i \in 1..Len(l) : l[i] \in Handshake
    BY <1>2, ElementOfSeq
  <2>2. QED
    BY <2>1 DEF Handshake
<1>4. l = lists[c]
  OBVIOUS
<1> HIDE DEF l
<1>5. ASSUME NEW d \in Datagrams, Redeems(c, p, d)
      PROVE  LeaseIn(lists'[c]) = [LeaseIn(l) EXCEPT ![SenderAddr(d)] = now]
  <2> DEFINE a == SenderAddr(d)
  <2>1. CASE \E j \in 1..Len(l) :
               l[j].addr = a /\ lists'[c] = [l EXCEPT ![j] = [@ EXCEPT !.ts = now]]
    BY <1>1, <1>2, <2>1, LeaseRenewed
  <2>2. CASE a \notin AddrsOf(l) /\ lists'[c] = Append(l, Entry(a, 0, now))
    <3> DEFINE e == Entry(a, 0, now)
    <3>1. a \in Addr
      BY MetaserverAssumption DEF SenderAddr, Datagram
    <3>2. e \in Handshake /\ e.addr = a /\ e.ts = now
      BY <1>1, <3>1 DEF Entry, Handshake
    <3>3. lists'[c] = Append(l, e)
      BY <2>2
    <3> HIDE DEF e
    <3>4. QED
      BY <1>2, <2>2, <3>2, <3>3, LeaseAdded
  <2>3. QED
    BY <1>4, <1>5, <2>1, <2>2 DEF Redeems
<1>6. ASSUME NEW d \in Datagrams, Withdraws(c, p, d)
      PROVE  LeaseIn(lists'[c]) = [LeaseIn(l) EXCEPT ![SenderAddr(d)] = NotListed]
  <2> DEFINE a == SenderAddr(d)
             f == LeaseIn(l)
  <2>1. CASE \E i \in 1..Len(l) : l[i].addr = a /\ lists'[c] = RemoveAt(l, i)
    BY <1>2, <2>1, LeaseErased
  <2>2. CASE a \notin AddrsOf(l) /\ Same(c)
    <3>1. a \in Addr
      BY MetaserverAssumption DEF SenderAddr, Datagram
    <3>2. f = [x \in Addr |-> f[x]] /\ f[a] = NotListed
      BY <1>2, <2>2, <3>1, LeaseValues
    <3>3. LeaseIn(lists'[c]) = f
      BY <1>4, <2>2 DEF Same
    <3> HIDE DEF f, a
    <3>4. f = [f EXCEPT ![a] = NotListed]
      BY <3>1, <3>2
    <3>5. QED
      BY <3>3, <3>4 DEF f, a
  <2>3. QED
    BY <1>4, <1>6, <2>1, <2>2 DEF Withdraws
<1>7. ASSUME Ends(c, p)
      PROVE  \E a \in Addr :
               /\ LeaseIn(l)[a] # NotListed
               /\ LeaseIn(lists'[c]) = [LeaseIn(l) EXCEPT ![a] = NotListed]
               /\ now > LeaseIn(l)[a] + REAP_INTERVAL
  <2>1. PICK i \in 1..Len(l) : Stale(l[i]) /\ lists'[c] = RemoveAt(l, i)
    BY <1>4, <1>7 DEF Ends
  <2>2. LeaseIn(lists'[c]) = [LeaseIn(l) EXCEPT ![l[i].addr] = NotListed]
    BY <1>2, <2>1, LeaseErased
  <2>3. LeaseIn(l)[l[i].addr] = l[i].ts
    BY <1>2, LeaseValues
  <2>4. QED
    BY <1>3, <2>1, <2>2, <2>3, NotListedAssumption DEF Stale
<1>8. QED
  BY <1>4, <1>5, <1>6, <1>7

(* The request that a datagram is. *)
LEMMA RequestOf ==
  ASSUME NEW asks, NEW d \in Datagrams
  PROVE  /\ Request(asks, d).kind = IF d.type \in DOMAIN asks THEN asks[d.type] ELSE "other"
         /\ Request(asks, d).addr = SenderAddr(d)
         /\ Request(asks, d).value = d.arg
<1>1. d.type \in MsgType
  BY MetaserverAssumption DEF Datagram
<1>2. d.type # "NOTHING"
  BY <1>1 DEF MsgType
<1>3. d # Nothing
  BY <1>2 DEF Nothing
<1>4. QED
  BY <1>3 DEF Request

(* A step is one of the servers' directory. *)
LEMMA NextIsServersNext ==
  ASSUME Inv, Inv', [ObservedNext]_observedVars
  PROVE  [Servers!DirNext]_(Servers!dirVars)
<1> DEFINE c == "SERVER_LIST"
           p == "SERVER_HANDSHAKE_LIST"
           m == <<c, p>>
           r == AskedOfServers
<1>1. m \in Directories /\ m[1] = c /\ m[2] = p
  BY DEF Directories
<1> HIDE DEF m
<1>2. c \in ActiveList /\ p \in HandshakeList /\ p \in ListType
  BY DEF ActiveList, HandshakeList, ListType
<1>3. Lease(c) = LeaseIn(lists[c]) /\ Lease(c)' = LeaseIn(lists'[c])
  BY DEF Lease, LeaseIn
<1>4. DOMAIN lists[p] = 1..Len(lists[p])
  BY <1>2, LenProperties DEF Inv, TypeOK
<1>5. \A i : RemoveAt(lists[p], i) = Servers!RemoveAt(lists[p], i)
  BY DEF RemoveAt, Servers!RemoveAt
<1>6. \A h : Servers!Bearing(h) = FindByHS(lists[p], h)
  BY DEF Servers!Bearing, FindByHS
<1>7. ASSUME NEW d \in Datagrams, Receive(d), asked' = d
      PROVE  Servers!DirNext
  <2>1. /\ r'.kind = IF d.type \in DOMAIN AsksServers THEN AsksServers[d.type] ELSE "other"
        /\ r'.addr = SenderAddr(d) /\ r'.value = d.arg
    BY <1>7, RequestOf DEF AskedOfServers
  <2>2. \/ d.type = "SERVERKEEPALIVE" /\ Issues(c, p, d)
        \/ d.type = "SERVERSHAKE" /\ (Redeems(c, p, d) \/ Refuses(c, p, d))
        \/ d.type = "TERMINATE" /\ Withdraws(c, p, d)
        \/ /\ d.type \notin {"SERVERKEEPALIVE", "SERVERSHAKE", "TERMINATE"}
           /\ Keeps(c, p)
    BY <1>1, <1>7, ReceiveMovesServers DEF Inv
  <2>3. CASE d.type = "SERVERKEEPALIVE" /\ Issues(c, p, d)
    <3>1. r'.kind = "ticket"
      BY <2>1, <2>3 DEF AsksServers
    <3>2. Servers!Issue
      BY <1>3, <2>1, <2>3, <3>1 DEF Issues, Same, Entry, Servers!Issue
    <3>3. QED
      BY <3>2 DEF Servers!DirNext
  <2>4. CASE d.type = "SERVERSHAKE" /\ Redeems(c, p, d)
    <3>1. r'.kind = "redeem"
      BY <2>1, <2>4 DEF AsksServers
    <3>2. LeaseIn(lists'[c]) = [LeaseIn(lists[c]) EXCEPT ![SenderAddr(d)] = now]
      BY <1>2, <2>4, LeaseMoves
    <3>3. Servers!Redeem
      BY <1>3, <1>5, <1>6, <2>1, <2>4, <3>1, <3>2 DEF Redeems, Servers!Redeem
    <3>4. QED
      BY <3>3 DEF Servers!DirNext
  <2>5. CASE d.type = "SERVERSHAKE" /\ Refuses(c, p, d)
    <3>1. r'.kind = "redeem"
      BY <2>1, <2>5 DEF AsksServers
    <3>2. Servers!Refuse
      BY <1>3, <1>6, <2>1, <2>5, <3>1
      DEF Refuses, Keeps, Same, Servers!Refuse, Servers!Unchanged
    <3>3. QED
      BY <3>2 DEF Servers!DirNext
  <2>6. CASE d.type = "TERMINATE" /\ Withdraws(c, p, d)
    <3>1. r'.kind = "withdraw"
      BY <2>1, <2>6 DEF AsksServers
    <3>2. LeaseIn(lists'[c]) = [LeaseIn(lists[c]) EXCEPT ![SenderAddr(d)] = NotListed]
      BY <1>2, <2>6, LeaseMoves
    <3>3. Servers!Withdraw
      BY <1>3, <2>1, <2>6, <3>1, <3>2
      DEF Withdraws, Same, Servers!Withdraw, Servers!EndLease
    <3>4. QED
      BY <3>3 DEF Servers!DirNext
  <2>7. CASE /\ d.type \notin {"SERVERKEEPALIVE", "SERVERSHAKE", "TERMINATE"}
             /\ Keeps(c, p)
    <3>1. r'.kind = "other"
      BY <2>1, <2>7 DEF AsksServers
    <3>2. Servers!Disregard
      BY <1>3, <2>7, <3>1 DEF Keeps, Same, Servers!Disregard, Servers!Unchanged
    <3>3. QED
      BY <3>2 DEF Servers!DirNext
  <2>8. QED
    BY <2>2, <2>3, <2>4, <2>5, <2>6, <2>7
<1>8. ASSUME Unasked, asked' = Nothing
      PROVE  Servers!DirNext
  <2>1. r'.kind = "none"
    BY <1>8 DEF AskedOfServers, Request
  <2>2. MovesUnasked(c, p)
    BY <1>1, <1>8, UnaskedMoves
  <2>3. CASE Waits(c, p)
    BY <1>3, <2>1, <2>3
    DEF Waits, Same, Servers!Pass, Servers!Unchanged, Servers!Unasked, Servers!DirNext
  <2>4. CASE Ends(c, p)
    <3>1. PICK a \in Addr :
            /\ LeaseIn(lists[c])[a] # NotListed
            /\ LeaseIn(lists'[c]) = [LeaseIn(lists[c]) EXCEPT ![a] = NotListed]
            /\ now > LeaseIn(lists[c])[a] + REAP_INTERVAL
      BY <1>2, <2>4, LeaseMoves
    <3>2. Servers!Expire(a)
      BY <1>3, <2>4, <3>1 DEF Ends, Same, Servers!Expire, Servers!EndLease, Servers!Old
    <3>3. QED
      BY <2>1, <3>2 DEF Servers!Unasked, Servers!DirNext
  <2>5. CASE Voids(c, p)
    <3>1. Servers!Void
      BY <1>3, <1>4, <1>5, <2>5 DEF Voids, Same, Stale, Servers!Void, Servers!Old
    <3>2. QED
      BY <2>1, <3>1 DEF Servers!Unasked, Servers!DirNext
  <2>6. QED
    BY <2>2, <2>3, <2>4, <2>5 DEF MovesUnasked
<1>9. CASE UNCHANGED observedVars
  <2>1. UNCHANGED <<lists, now, asked>>
    BY <1>9 DEF observedVars, vars, dataVars
  <2>2. Lease(c)' = Lease(c) /\ r' = r
    BY <1>3, <2>1 DEF AskedOfServers
  <2>3. QED
    BY <2>1, <2>2 DEF Servers!dirVars
<1>10. QED
  BY <1>7, <1>8, <1>9 DEF ObservedNext

(* And one of the clients'. *)
LEMMA NextIsClientsNext ==
  ASSUME Inv, Inv', [ObservedNext]_observedVars
  PROVE  [Clients!DirNext]_(Clients!dirVars)
<1> DEFINE c == "CLIENT_LIST"
           p == "CLIENT_HANDSHAKE_LIST"
           m == <<c, p>>
           r == AskedOfClients
<1>1. m \in Directories /\ m[1] = c /\ m[2] = p
  BY DEF Directories
<1> HIDE DEF m
<1>2. c \in ActiveList /\ p \in HandshakeList /\ p \in ListType
  BY DEF ActiveList, HandshakeList, ListType
<1>3. Lease(c) = LeaseIn(lists[c]) /\ Lease(c)' = LeaseIn(lists'[c])
  BY DEF Lease, LeaseIn
<1>4. DOMAIN lists[p] = 1..Len(lists[p])
  BY <1>2, LenProperties DEF Inv, TypeOK
<1>5. \A i : RemoveAt(lists[p], i) = Clients!RemoveAt(lists[p], i)
  BY DEF RemoveAt, Clients!RemoveAt
<1>6. \A h : Clients!Bearing(h) = FindByHS(lists[p], h)
  BY DEF Clients!Bearing, FindByHS
<1>7. ASSUME NEW d \in Datagrams, Receive(d), asked' = d
      PROVE  Clients!DirNext
  <2>1. /\ r'.kind = IF d.type \in DOMAIN AsksClients THEN AsksClients[d.type] ELSE "other"
        /\ r'.addr = SenderAddr(d) /\ r'.value = d.arg
    BY <1>7, RequestOf DEF AskedOfClients
  <2>2. \/ d.type = "CLIENTKEEPALIVE" /\ Issues(c, p, d)
        \/ d.type = "CLIENTSHAKE" /\ (Redeems(c, p, d) \/ Refuses(c, p, d))
        \/ /\ d.type \notin {"CLIENTKEEPALIVE", "CLIENTSHAKE"}
           /\ Keeps(c, p)
    BY <1>1, <1>7, ReceiveMovesClients DEF Inv
  <2>3. CASE d.type = "CLIENTKEEPALIVE" /\ Issues(c, p, d)
    <3>1. r'.kind = "ticket"
      BY <2>1, <2>3 DEF AsksClients
    <3>2. Clients!Issue
      BY <1>3, <2>1, <2>3, <3>1 DEF Issues, Same, Entry, Clients!Issue
    <3>3. QED
      BY <3>2 DEF Clients!DirNext
  <2>4. CASE d.type = "CLIENTSHAKE" /\ Redeems(c, p, d)
    <3>1. r'.kind = "redeem"
      BY <2>1, <2>4 DEF AsksClients
    <3>2. LeaseIn(lists'[c]) = [LeaseIn(lists[c]) EXCEPT ![SenderAddr(d)] = now]
      BY <1>2, <2>4, LeaseMoves
    <3>3. Clients!Redeem
      BY <1>3, <1>5, <1>6, <2>1, <2>4, <3>1, <3>2 DEF Redeems, Clients!Redeem
    <3>4. QED
      BY <3>3 DEF Clients!DirNext
  <2>5. CASE d.type = "CLIENTSHAKE" /\ Refuses(c, p, d)
    <3>1. r'.kind = "redeem"
      BY <2>1, <2>5 DEF AsksClients
    <3>2. Clients!Refuse
      BY <1>3, <1>6, <2>1, <2>5, <3>1
      DEF Refuses, Keeps, Same, Clients!Refuse, Clients!Unchanged
    <3>3. QED
      BY <3>2 DEF Clients!DirNext
  <2>6. CASE /\ d.type \notin {"CLIENTKEEPALIVE", "CLIENTSHAKE"}
             /\ Keeps(c, p)
    <3>1. r'.kind = "other"
      BY <2>1, <2>6 DEF AsksClients
    <3>2. Clients!Disregard
      BY <1>3, <2>6, <3>1 DEF Keeps, Same, Clients!Disregard, Clients!Unchanged
    <3>3. QED
      BY <3>2 DEF Clients!DirNext
  <2>7. QED
    BY <2>2, <2>3, <2>4, <2>5, <2>6
<1>8. ASSUME Unasked, asked' = Nothing
      PROVE  Clients!DirNext
  <2>1. r'.kind = "none"
    BY <1>8 DEF AskedOfClients, Request
  <2>2. MovesUnasked(c, p)
    BY <1>1, <1>8, UnaskedMoves
  <2>3. CASE Waits(c, p)
    BY <1>3, <2>1, <2>3
    DEF Waits, Same, Clients!Pass, Clients!Unchanged, Clients!Unasked, Clients!DirNext
  <2>4. CASE Ends(c, p)
    <3>1. PICK a \in Addr :
            /\ LeaseIn(lists[c])[a] # NotListed
            /\ LeaseIn(lists'[c]) = [LeaseIn(lists[c]) EXCEPT ![a] = NotListed]
            /\ now > LeaseIn(lists[c])[a] + REAP_INTERVAL
      BY <1>2, <2>4, LeaseMoves
    <3>2. Clients!Expire(a)
      BY <1>3, <2>4, <3>1 DEF Ends, Same, Clients!Expire, Clients!EndLease, Clients!Old
    <3>3. QED
      BY <2>1, <3>2 DEF Clients!Unasked, Clients!DirNext
  <2>5. CASE Voids(c, p)
    <3>1. Clients!Void
      BY <1>3, <1>4, <1>5, <2>5 DEF Voids, Same, Stale, Clients!Void, Clients!Old
    <3>2. QED
      BY <2>1, <3>1 DEF Clients!Unasked, Clients!DirNext
  <2>6. QED
    BY <2>2, <2>3, <2>4, <2>5 DEF MovesUnasked
<1>9. CASE UNCHANGED observedVars
  <2>1. UNCHANGED <<lists, now, asked>>
    BY <1>9 DEF observedVars, vars, dataVars
  <2>2. Lease(c)' = Lease(c) /\ r' = r
    BY <1>3, <2>1 DEF AskedOfClients
  <2>3. QED
    BY <2>1, <2>2 DEF Clients!dirVars
<1>10. QED
  BY <1>7, <1>8, <1>9 DEF ObservedNext

(* Observing which datagram a step handles takes nothing away. *)
LEMMA ObservedIsSpec == ObservedSpec => Spec
<1>1. [ObservedNext]_observedVars => [Next]_vars
  BY DEF ObservedNext, Unasked, observedVars, Next, Process
<1>2. QED
  BY <1>1, PTL DEF ObservedSpec, ObservedInit, Spec

(* No lease at the start, and nothing asked. *)
LEMMA InitLease ==
  ASSUME Init, asked = Nothing, NEW c \in ActiveList
  PROVE  /\ Lease(c) = [a \in Addr |-> NotListed]
         /\ AskedOfServers.kind = "none" /\ AskedOfClients.kind = "none"
<1>1. lists[c] = <<>>
  BY DEF Init, ListType
<1>2. AddrsOf(lists[c]) = {}
  BY <1>1 DEF AddrsOf
<1>3. QED
  BY <1>2 DEF Lease, AskedOfServers, AskedOfClients, Request

(***************************************************************************)
(* The servers' directory: whatever datagrams come, in whatever order,     *)
(* and however the Reaper and the command come between, a SERVERSHAKE      *)
(* lists or renews its own sender and uses up the oldest pending handshake *)
(* with the value it shows, or changes nothing when there is none; and a   *)
(* server leaves the list by a TERMINATE from its own address or when its  *)
(* last renewal is more than an interval ago, and in no other way.         *)
(***************************************************************************)
THEOREM ServersAreADirectory == ObservedSpec => ServersImplemented
<1>1. Init /\ asked = Nothing => Servers!DirInit
  <2> SUFFICES ASSUME Init, asked = Nothing PROVE Servers!DirInit
    OBVIOUS
  <2>1. Lease("SERVER_LIST") = [a \in Addr |-> NotListed]
        /\ AskedOfServers.kind = "none"
    BY InitLease DEF ActiveList
  <2>2. lists["SERVER_HANDSHAKE_LIST"] = <<>> /\ now = 0
    BY DEF Init, ListType, HandshakeList
  <2>3. QED
    BY <2>1, <2>2 DEF Servers!DirInit
<1>2. Inv /\ Inv' /\ [ObservedNext]_observedVars => [Servers!DirNext]_(Servers!dirVars)
  BY NextIsServersNext
<1>3. ObservedSpec => []Inv
  BY ObservedIsSpec, Invariance, PTL
<1>4. QED
  BY <1>1, <1>2, <1>3, PTL DEF ObservedSpec, ObservedInit, ServersImplemented, Servers!DirSpec

(***************************************************************************)
(* The clients' directory, where a listing ends only by its age: neither a *)
(* TERMINATE nor any other datagram ends it.                               *)
(***************************************************************************)
THEOREM ClientsAreADirectory == ObservedSpec => ClientsImplemented
<1>1. Init /\ asked = Nothing => Clients!DirInit
  <2> SUFFICES ASSUME Init, asked = Nothing PROVE Clients!DirInit
    OBVIOUS
  <2>1. Lease("CLIENT_LIST") = [a \in Addr |-> NotListed]
        /\ AskedOfClients.kind = "none"
    BY InitLease DEF ActiveList
  <2>2. lists["CLIENT_HANDSHAKE_LIST"] = <<>> /\ now = 0
    BY DEF Init, ListType, HandshakeList
  <2>3. QED
    BY <2>1, <2>2 DEF Clients!DirInit
<1>2. Inv /\ Inv' /\ [ObservedNext]_observedVars => [Clients!DirNext]_(Clients!dirVars)
  BY NextIsClientsNext
<1>3. ObservedSpec => []Inv
  BY ObservedIsSpec, Invariance, PTL
<1>4. QED
  BY <1>1, <1>2, <1>3, PTL DEF ObservedSpec, ObservedInit, ClientsImplemented, Clients!DirSpec
=============================================================================
