-------------------------- MODULE AnsweringProofs --------------------------
(***************************************************************************)
(* Proofs about the answering loop and its two halves, for buffers of any  *)
(* size, any list of servers and any datagrams: that what earlier ones     *)
(* left in mesg neither terminates a server nor moves a client's position  *)
(* (module Receiver); that a LISTRESP always fits its buffer and that what *)
(* the client unpacks from it is an answer of module ListRequest (module   *)
(* ListResponse); that it answers the client's own request (Answering).    *)
(***************************************************************************)
EXTENDS Answering, SequenceTheorems, TLAPS

(***************************************************************************)
(*                     What Process() makes of mesg                        *)
(***************************************************************************)

ReceivedTypeOK ==
  /\ mesg \in [1..MAXLINE -> Byte]
  /\ got \in Seq(Byte)

ReceiverInv == ReceivedTypeOK /\ ActsOnOwnType /\ ArgumentIsOwn

-----------------------------------------------------------------------------
(* Bytes, words and copies of a datagram. *)

(* htonl makes bytes. *)
LEMMA HostToNetBytes ==
  ASSUME NEW w \in Word
  PROVE  \A k \in 1..4 : HostToNet(w)[k] \in Byte
<1>1. w \in Nat /\ w \div 65536 < 65536
  BY DEF Word
<1>2. /\ w \div 16777216 \in Byte /\ (w \div 65536) % 256 \in Byte
      /\ (w \div 256) % 256 \in Byte /\ w % 256 \in Byte
  BY <1>1 DEF Byte
<1>3. QED
  BY <1>2 DEF HostToNet

(* Packed words are bytes. *)
LEMMA ImageBytes ==
  ASSUME NEW n \in Nat, NEW w \in [1..n -> Word], NEW k \in 1..(WordSize * n)
  PROVE  Image(w)[k] \in Byte
<1>1. Len(w) = n
  OBVIOUS
<1>2. ((k - 1) \div 4) + 1 \in 1..n /\ ((k - 1) % 4) + 1 \in 1..4
  BY DEF WordSize
<1>3. w[((k - 1) \div 4) + 1] \in Word
  BY <1>2
<1>4. Image(w)[k] = HostToNet(w[((k - 1) \div 4) + 1])[((k - 1) % 4) + 1]
  BY <1>1 DEF Image, WordSize
<1>5. QED
  BY <1>2, <1>3, <1>4, HostToNetBytes

(* A word whose last byte is missing, and therefore 0, is no type. *)
LEMMA ShortWordIsNoType ==
  ASSUME NEW b1 \in Byte, NEW b2 \in Byte, NEW b3 \in Byte
  PROVE  LET w == NetToHost(<<b1, b2, b3, 0>>)
         IN  ~(NMT_NULL < w /\ w < NMT_LAST)
BY DEF NetToHost, Byte, NMT_NULL, NMT_LAST

(* The second NetMsg of a datagram without a type is not good. *)
LEMMA NotWholeNotGood ==
  ASSUME NEW d \in Seq(Byte), NEW m \in [1..MAXLINE -> Byte],
         \A k \in 1..MAXLINE : k <= Len(d) => m[k] = d[k],
         NEW n \in Nat, n = IF Len(d) < MAXLINE THEN Len(d) ELSE MAXLINE,
         ~(WordSize <= Len(d) /\ Len(d) < MAX_MSG_LENGTH)
  PROVE  ~Good(Copied(m, n))
<1> DEFINE b == Copied(m, n)
<1>1. /\ MAX_MSG_LENGTH \in Nat /\ MAX_MSG_LENGTH >= 16
      /\ MAXLINE \in Nat /\ MAXLINE >= MAX_MSG_LENGTH /\ Len(d) \in Nat
  BY WireAssumption, ReceiverAssumption DEF WordSize
<1>2. \A k \in 1..4 : b[k] = IF n < MAX_MSG_LENGTH /\ k <= n THEN m[k] ELSE 0
  <2>1. CASE n < MAX_MSG_LENGTH
    <3> DEFINE front == [k \in 1..n |-> m[k]]
    <3>1. Len(front) = n
      OBVIOUS
    <3>2. b = Put(Blank, 0, front)
      BY <2>1 DEF Copied
    <3>3. TAKE k \in 1..4
    <3>4. k \in 1..MAX_MSG_LENGTH
      BY <1>1
    <3>5. Put(Blank, 0, front)[k] =
            IF k > 0 /\ k <= 0 + n THEN front[k - 0] ELSE Blank[k]
      BY <3>1, <3>4 DEF Put
    <3>6. Blank[k] = 0
      BY <3>4 DEF Blank
    <3>7. QED
      BY <2>1, <3>2, <3>5, <3>6
  <2>2. CASE ~(n < MAX_MSG_LENGTH)
    BY <1>1, <2>2 DEF Copied, Blank
  <2>3. QED
    BY <2>1, <2>2
<1>3. n < 4 \/ ~(n < MAX_MSG_LENGTH)
  BY <1>1 DEF WordSize
<1>4. /\ b[4] = 0
      /\ \A k \in 1..3 : b[k] \in Byte
  <2>1. \A k \in 1..4 : m[k] \in Byte /\ 0 \in Byte
    BY <1>1 DEF Byte
  <2> HIDE DEF b
  <2>2. b[4] = 0
    BY <1>2, <1>3
  <2>3. \A k \in 1..3 : b[k] \in Byte
    BY <1>2, <2>1
  <2>4. QED
    BY <2>2, <2>3
<1>5. WordAt(b, 0) = NetToHost(<<b[1], b[2], b[3], 0>>)
  BY <1>4 DEF WordAt, NetToHost, WordSize
<1>6. QED
  BY <1>4, <1>5, ShortWordIsNoType DEF Good

(* The second NetMsg of a datagram with a type holds the datagram's bytes. *)
LEMMA WholeIsCopied ==
  ASSUME NEW d \in Seq(Byte), NEW m \in [1..MAXLINE -> Byte],
         \A k \in 1..MAXLINE : k <= Len(d) => m[k] = d[k],
         WordSize <= Len(d), Len(d) < MAX_MSG_LENGTH
  PROVE  /\ Copied(m, Len(d)) = Put(Blank, 0, d)
         /\ WordAt(Put(Blank, 0, d), 0) = WordAt(d, 0)
         /\ WordAt(m, 0) = WordAt(d, 0)
<1>1. /\ MAX_MSG_LENGTH \in Nat /\ MAX_MSG_LENGTH >= 16
      /\ MAXLINE \in Nat /\ MAXLINE >= MAX_MSG_LENGTH
      /\ Len(d) \in Nat /\ 4 <= Len(d)
  BY WireAssumption, ReceiverAssumption DEF WordSize
<1> DEFINE front == [k \in 1..Len(d) |-> m[k]]
<1>2. Len(front) = Len(d) /\ \A k \in 1..Len(d) : front[k] = d[k]
  BY <1>1
<1>3. Put(Blank, 0, front) = Put(Blank, 0, d)
  BY <1>1, <1>2 DEF Put
<1>4. \A k \in 1..4 : Put(Blank, 0, d)[k] = d[k] /\ m[k] = d[k]
  BY <1>1 DEF Put
<1>5. [k \in 1..4 |-> Put(Blank, 0, d)[0 + k]] = [k \in 1..4 |-> d[0 + k]]
  BY <1>4
<1>6. [k \in 1..4 |-> m[0 + k]] = [k \in 1..4 |-> d[0 + k]]
  BY <1>4
<1>7. QED
  BY <1>1, <1>3, <1>5, <1>6 DEF Copied, WordAt, WordSize

-----------------------------------------------------------------------------
(* The receiver's invariant. *)

(* What uninitialised memory holds is bytes, and no handler has run. *)
LEMMA ReceiverInitInv == ReceiverInit => ReceiverInv
<1> SUFFICES ASSUME ReceiverInit PROVE ReceiverInv
  OBVIOUS
<1>1. PICK w \in [1..((MAXLINE \div WordSize) + 1) -> Garbage] :
        mesg = [k \in 1..MAXLINE |-> Image(w)[k]]
  BY DEF ReceiverInit
<1>2. MAXLINE \in Nat /\ Garbage \subseteq Word
  BY WireAssumption, ReceiverAssumption
<1> DEFINE n == (MAXLINE \div 4) + 1
<1>3. n \in Nat /\ MAXLINE <= 4 * n
  BY <1>2
<1>4. w \in [1..n -> Word]
  BY <1>1, <1>2 DEF WordSize
<1>5. \A k \in 1..MAXLINE : Image(w)[k] \in Byte
  <2>1. TAKE k \in 1..MAXLINE
  <2> HIDE DEF n
  <2>2. k \in 1..(WordSize * n)
    BY <1>2, <1>3 DEF WordSize
  <2>3. QED
    BY <1>3, <1>4, <2>2, ImageBytes
<1>6. ReceivedTypeOK
  BY <1>1, <1>5 DEF ReceiverInit, ReceivedTypeOK
<1>7. ActsOnOwnType /\ ArgumentIsOwn
  BY DEF ReceiverInit, ActsOnOwnType, ArgumentIsOwn, Checked, Handshaking,
     NMT_NULL, NMT_TERMINATE, NMT_LISTREQ, NMT_SERVERSHAKE, NMT_CLIENTSHAKE
<1>8. QED
  BY <1>6, <1>7 DEF ReceiverInv

(* Receiving a datagram keeps the invariant. *)
LEMMA ReceiveKeepsInv ==
  ASSUME ReceiverInv, NEW d \in Sendable, Receive(d)
  PROVE  ReceiverInv'
<1> DEFINE n == IF Len(d) < MAXLINE THEN Len(d) ELSE MAXLINE
           b == Copied(mesg', n)
<1>1. /\ d \in Seq(Byte) /\ MAXLINE \in Nat /\ Len(d) \in Nat /\ n \in Nat
      /\ MAX_MSG_LENGTH \in Nat /\ MAXLINE >= MAX_MSG_LENGTH
  BY WireAssumption, ReceiverAssumption
<1>2. /\ got' = d
      /\ mesg' \in [1..MAXLINE -> Byte]
      /\ \A k \in 1..MAXLINE : k <= Len(d) => mesg'[k] = d[k]
  <2>1. mesg \in [1..MAXLINE -> Byte] /\ \A k \in 1..Len(d) : d[k] \in Byte
    BY <1>1 DEF ReceiverInv, ReceivedTypeOK
  <2>2. mesg' = [k \in 1..MAXLINE |-> IF k <= Len(d) THEN d[k] ELSE mesg[k]] /\ got' = d
    BY DEF Receive, Received
  <2>3. QED
    BY <1>1, <2>1, <2>2
<1>3. PICK type \in Types(mesg', n) :
        \/ DispatchKeepalive(type) \/ DispatchShake(type, b)
        \/ DispatchTerminate(type, b) \/ DispatchListRequest(type, b)
        \/ Drop(type, b)
  BY DEF Receive
<1>4. ReceivedTypeOK'
  BY <1>1, <1>2 DEF ReceivedTypeOK
<1>5. CASE WordSize <= Len(d) /\ Len(d) < MAX_MSG_LENGTH
  <2>1. n = Len(d) /\ n < MAX_MSG_LENGTH
    BY <1>1, <1>5
  <2>2. /\ b = Put(Blank, 0, d)
        /\ WordAt(b, 0) = WordAt(d, 0)
        /\ WordAt(mesg', 0) = WordAt(d, 0)
    BY <1>1, <1>2, <1>5, <2>1, WholeIsCopied
  <2>3. type = WordAt(d, 0)
    BY <2>1, <2>2 DEF Types
  <2> HIDE DEF b, n
  <2>4. ActsOnOwnType'
    BY <1>2, <1>3, <1>5, <2>3 DEF ActsOnOwnType, Whole, DispatchKeepalive,
       DispatchShake, DispatchTerminate, DispatchListRequest, Drop
  <2>5. Arguments(b, type) = {WordAt(b, WordSize)}
    BY <2>2, <2>3 DEF Arguments
  <2>6. ArgumentIsOwn'
    <3>1. CASE DispatchShake(type, b) \/ DispatchListRequest(type, b)
      <4>1. arg' = WordAt(b, WordSize)
        BY <2>5, <3>1 DEF DispatchShake, DispatchListRequest
      <4>2. WordAt(b, WordSize) = WordAt(Padded, WordSize)'
        BY <1>2, <2>2 DEF Padded
      <4>3. QED
        BY <4>1, <4>2 DEF ArgumentIsOwn
    <3>2. CASE DispatchKeepalive(type) \/ DispatchTerminate(type, b) \/ Drop(type, b)
      <4>1. ran' \notin Handshaking \cup {NMT_LISTREQ}
        BY <3>2 DEF DispatchKeepalive, DispatchTerminate, Drop, Handshaking,
           Keepalives, NMT_NULL, NMT_SERVERKEEPALIVE, NMT_CLIENTKEEPALIVE,
           NMT_SERVERSHAKE, NMT_CLIENTSHAKE, NMT_TERMINATE, NMT_LISTREQ
      <4>2. QED
        BY <4>1 DEF ArgumentIsOwn
    <3>3. QED
      BY <1>3, <3>1, <3>2
  <2>7. QED
    BY <1>4, <2>4, <2>6 DEF ReceiverInv
<1>6. CASE ~(WordSize <= Len(d) /\ Len(d) < MAX_MSG_LENGTH)
  <2>1. ~Good(b)
    BY <1>1, <1>2, <1>6, NotWholeNotGood
  <2> HIDE DEF b, n
  <2>2. ~Whole'
    BY <1>2, <1>6 DEF Whole
  <2>3. ran' \notin Checked
    BY <1>3, <2>1 DEF DispatchKeepalive, DispatchShake, DispatchTerminate,
       DispatchListRequest, Drop, Checked, Handshaking, Keepalives, NMT_NULL,
       NMT_SERVERKEEPALIVE, NMT_CLIENTKEEPALIVE, NMT_SERVERSHAKE,
       NMT_CLIENTSHAKE, NMT_TERMINATE, NMT_LISTREQ
  <2>4. QED
    BY <1>4, <2>2, <2>3 DEF ReceiverInv, ActsOnOwnType, ArgumentIsOwn
<1>7. QED
  BY <1>5, <1>6

(* Every step keeps the invariant. *)
LEMMA ReceiverNextInv ==
  ASSUME ReceiverInv, [ReceiverNext]_recvVars
  PROVE  ReceiverInv'
<1>1. CASE ReceiverNext
  BY <1>1, ReceiveKeepsInv DEF ReceiverNext
<1>2. CASE UNCHANGED recvVars
  BY <1>2 DEF recvVars, ReceiverInv, ReceivedTypeOK, ActsOnOwnType, ArgumentIsOwn,
     Whole, Padded
<1>3. QED
  BY <1>1, <1>2

-----------------------------------------------------------------------------
(* The theorems about the receiver. *)

(* Whatever earlier datagrams left behind, a datagram that has a type runs *)
(* its own handler or none, and one that has none runs neither             *)
(* HandleTerminate nor HandleListRequest.                                  *)
THEOREM OnlyOwnTypeActs == ReceiverSpec => []ActsOnOwnType
<1>1. ReceiverInv => ActsOnOwnType
  BY DEF ReceiverInv
<1>2. QED
  BY <1>1, ReceiverInitInv, ReceiverNextInv, PTL DEF ReceiverSpec

(* The handshake of a SHAKE and the position of a LISTREQ are made of the  *)
(* datagram's own bytes and zeros.                                         *)
THEOREM ArgumentsAreOwn == ReceiverSpec => []ArgumentIsOwn
<1>1. ReceiverInv => ArgumentIsOwn
  BY DEF ReceiverInv
<1>2. QED
  BY <1>1, ReceiverInitInv, ReceiverNextInv, PTL DEF ReceiverSpec

(***************************************************************************)
(*                    What HandleListRequest answers                       *)
(***************************************************************************)

(* The invariant of HandleListRequest, while it runs. *)

ResponseTypeOK ==
  /\ pc \in {"advance", "SetTotalServers", "AddServer", "sendto", "sent"}
  /\ servers \in Seq(Address)
  /\ Len(servers) <= MaxServers
  /\ from \in Nat
  /\ mList \in Seq(Address)
  /\ Len(mList) <= mMax
  /\ mPacked \in BOOLEAN
  /\ buffer \in BOOLEAN

\* However the arguments of sendto are evaluated, the message is packed once.
PackedOnce ==
  /\ mLength = IF mPacked THEN (3 + Len(mList)) * WordSize ELSE 0
  /\ pc \notin {"sendto", "sent"} => ~mPacked /\ ~buffer /\ length = {}
  /\ buffer \/ length # {} => mPacked
  /\ length \subseteq {mLength}
  /\ mPacked => \A k \in 1..mLength : mBuffer[k] = Packed[k]
  /\ pc = "sent" => mPacked /\ datagram = Packed

\* The message holds the addresses from position s to the iterator.
FilledFrom(s) ==
  /\ i = s + Len(mList)
  /\ i <= Len(servers) + 1
  /\ \A k \in 1..Len(mList) : mList[k] = servers[s + k - 1]
  /\ s > Len(servers) => mTotal = 0 /\ pc \in {"sendto", "sent"}
  /\ s <= Len(servers) /\ pc # "SetTotalServers" => mTotal = Len(servers)
  /\ pc \in {"sendto", "sent"} => i > Len(servers) \/ Len(mList) = mMax

Filling ==
  IF pc = "advance" THEN mList = <<>> /\ mTotal = 0
  ELSE \E s \in Answer!StartPositions(Len(servers), from) : FilledFrom(s)

ResponseInv == ResponseTypeOK /\ PackedOnce /\ Filling

-----------------------------------------------------------------------------
(* Lemmas. *)

(* As many addresses as AddServer takes leave the message smaller than its *)
(* buffer.                                                                 *)
LEMMA MaxFits == mMax \in Nat \ {0} /\ (3 + mMax) * WordSize < MAX_MSG_LENGTH
<1>1. MAX_MSG_LENGTH \in Nat /\ MAX_MSG_LENGTH >= 16 /\ MAX_MSG_LENGTH % 4 # 0
  BY WireAssumption, ListResponseAssumption DEF WordSize
<1>2. CASE DEBUG
  BY <1>1, <1>2, ListResponseAssumption DEF mMax, WordSize
<1>3. CASE ~DEBUG
  BY <1>1, <1>3 DEF mMax, WordSize
<1>4. QED
  BY <1>2, <1>3

(* ntohl undoes htonl. *)
LEMMA WordRoundTrip ==
  ASSUME NEW w \in Word
  PROVE  NetToHost(HostToNet(w)) = w
BY DEF Word, NetToHost, HostToNet

(* What is unpacked behind j words is the next one packed. *)
LEMMA ImageWord ==
  ASSUME NEW words \in Seq(Word), NEW j \in Nat, j < Len(words)
  PROVE  WordAt(Image(words), j * WordSize) = words[j + 1]
<1>1. Len(words) \in Nat /\ words[j + 1] \in Word
  BY LenProperties, ElementOfSeq
<1>2. ASSUME NEW k \in 1..4
      PROVE  Image(words)[j * 4 + k] = HostToNet(words[j + 1])[k]
  <2>1. j * 4 + k \in 1..(4 * Len(words))
    BY <1>1
  <2>2. (j * 4 + k - 1) \div 4 = j /\ (j * 4 + k - 1) % 4 = k - 1
    OBVIOUS
  <2>3. Image(words)[j * 4 + k] =
          HostToNet(words[((j * 4 + k - 1) \div 4) + 1])[((j * 4 + k - 1) % 4) + 1]
    BY <2>1 DEF Image, WordSize
  <2>4. k - 1 + 1 = k
    OBVIOUS
  <2>5. QED
    BY <2>2, <2>3, <2>4
<1>3. WordAt(Image(words), j * 4) = NetToHost(HostToNet(words[j + 1]))
  BY <1>2 DEF WordAt, NetToHost, WordSize
<1>4. QED
  BY <1>1, <1>3, WordRoundTrip DEF WordSize

(* The iterator starts at an address or at end(). *)
LEMMA StartInRange ==
  ASSUME NEW n \in Nat, NEW f \in Nat, NEW s \in Answer!StartPositions(n, f)
  PROVE  s \in 1..(n + 1)
BY DEF Answer!StartPositions

(* The words of a message. *)
LEMMA MessageWords ==
  ASSUME NEW t \in Word, NEW l \in Seq(Address), Len(l) \in Word
  PROVE  LET words == <<NMT_LISTRESP, t, Len(l)>> \o l IN
           /\ words \in Seq(Word)
           /\ Len(words) = 3 + Len(l)
           /\ words[1] = NMT_LISTRESP /\ words[2] = t /\ words[3] = Len(l)
           /\ \A k \in 1..Len(l) : words[3 + k] = l[k]
<1>1. l \in Seq(Word) /\ Len(l) \in Nat
  BY ListResponseAssumption, SeqMonotonic, LenProperties
<1> DEFINE head == <<NMT_LISTRESP, t, Len(l)>>
<1>2. NMT_LISTRESP \in Word
  BY DEF NMT_LISTRESP, Word
<1>3. /\ head \in Seq(Word) /\ Len(head) = 3
      /\ head[1] = NMT_LISTRESP /\ head[2] = t /\ head[3] = Len(l)
  BY <1>2
<1> HIDE DEF head
<1>4. /\ head \o l \in Seq(Word)
      /\ Len(head \o l) = 3 + Len(l)
      /\ \A k \in 1..(3 + Len(l)) :
           (head \o l)[k] = IF k <= 3 THEN head[k] ELSE l[k - 3]
  <2>1. /\ head \o l \in Seq(Word)
        /\ Len(head \o l) = Len(head) + Len(l)
        /\ \A k \in 1..(Len(head) + Len(l)) :
             (head \o l)[k] = IF k <= Len(head) THEN head[k] ELSE l[k - Len(head)]
    BY <1>1, <1>3, ConcatProperties
  <2>2. QED
    BY <1>3, <2>1
<1>5. /\ (head \o l)[1] = head[1] /\ (head \o l)[2] = head[2]
      /\ (head \o l)[3] = head[3]
  BY <1>1, <1>4
<1>6. \A k \in 1..Len(l) : (head \o l)[3 + k] = l[k]
  <2>1. TAKE k \in 1..Len(l)
  <2>2. 3 + k \in 1..(3 + Len(l)) /\ ~(3 + k <= 3) /\ 3 + k - 3 = k
    BY <1>1
  <2>3. QED
    BY <1>4, <2>2
<1>7. QED
  BY <1>3, <1>4, <1>5, <1>6 DEF head

(* The length of a packed message. *)
LEMMA PackedLength ==
  ASSUME mList \in Seq(Address)
  PROVE  /\ Len(Packed) = (3 + Len(mList)) * WordSize
         /\ Packed = [k \in 1..((3 + Len(mList)) * WordSize) |-> Packed[k]]
<1> DEFINE words == <<NMT_LISTRESP, mTotal, Len(mList)>> \o mList
<1>1. Len(words) = 3 + Len(mList) /\ Len(mList) \in Nat
  BY LenProperties
<1>2. /\ DOMAIN Packed = 1..(4 * Len(words))
      /\ Packed = [k \in 1..(4 * Len(words)) |-> Packed[k]]
  BY DEF Packed, Image, WordSize
<1>3. 4 * Len(words) = (3 + Len(mList)) * 4 /\ 4 * Len(words) \in Nat
  BY <1>1
<1>4. Len(Packed) = 4 * Len(words)
  <2>1. Len([k \in 1..(4 * Len(words)) |-> Packed[k]]) = 4 * Len(words)
    BY <1>3
  <2>2. QED
    BY <1>2, <2>1
<1>5. QED
  BY <1>2, <1>3, <1>4 DEF WordSize

-----------------------------------------------------------------------------
(* Each action keeps the invariant. *)

(* HandleListRequest is called: the response is empty. *)
LEMMA CallStartsInv ==
  ASSUME Locals, pc' = "advance", from' \in Nat,
         servers' \in Seq(Address), Len(servers') <= MaxServers
  PROVE  ResponseInv'
<1>1. ResponseTypeOK'
  <2>1. mList' = <<>> /\ mList' \in Seq(Address) /\ Len(mList') = 0 /\ mMax \in Nat
    BY MaxFits DEF Locals
  <2>2. Len(mList') <= mMax
    BY <2>1
  <2>3. QED
    BY <2>1, <2>2 DEF Locals, ResponseTypeOK
<1>2. PackedOnce' /\ Filling'
  BY DEF Locals, PackedOnce, Filling
<1>3. QED
  BY <1>1, <1>2 DEF ResponseInv

(* The iterator is advanced. *)
LEMMA AdvanceKeepsInv ==
  ASSUME ResponseInv, AdvanceIterator
  PROVE  ResponseInv'
<1> USE DEF ResponseInv, AdvanceIterator
<1>1. /\ servers' = servers /\ from' = from /\ mTotal' = mTotal /\ mList' = mList
      /\ mBuffer' = mBuffer /\ mLength' = mLength /\ mPacked' = mPacked
  BY DEF listVars, message
<1>2. /\ mList = <<>> /\ mTotal = 0 /\ Len(mList) = 0
      /\ Len(servers) \in Nat /\ from \in Nat
  BY LenProperties DEF Filling, ResponseTypeOK
<1>3. PICK s \in Answer!StartPositions(Len(servers), from) : i' = s
  OBVIOUS
<1>4. s \in 1..(Len(servers) + 1)
  BY <1>2, StartInRange
<1>5. ResponseTypeOK'
  BY <1>1 DEF ResponseTypeOK
<1>6. PackedOnce'
  BY <1>1 DEF PackedOnce, Packed
<1>7. FilledFrom(s)'
  <2>1. CASE s > Len(servers)
    BY <1>1, <1>2, <1>3, <1>4, <2>1 DEF FilledFrom
  <2>2. CASE ~(s > Len(servers))
    BY <1>1, <1>2, <1>3, <1>4, <2>2 DEF FilledFrom
  <2>3. QED
    BY <2>1, <2>2
<1>8. Filling'
  BY <1>1, <1>7 DEF Filling
<1>9. QED
  BY <1>5, <1>6, <1>8

(* The total is set. *)
LEMMA SetTotalKeepsInv ==
  ASSUME ResponseInv, SetTotalServers
  PROVE  ResponseInv'
<1> USE DEF ResponseInv, SetTotalServers
<1>1. servers' = servers /\ from' = from
  BY DEF listVars
<1>2. ResponseTypeOK'
  BY <1>1 DEF ResponseTypeOK
<1>3. PackedOnce'
  BY DEF PackedOnce
<1>4. PICK s \in Answer!StartPositions(Len(servers), from) : FilledFrom(s)
  BY DEF Filling
<1>5. FilledFrom(s)'
  BY <1>1, <1>4 DEF FilledFrom
<1>6. Filling'
  BY <1>1, <1>5 DEF Filling
<1>7. QED
  BY <1>2, <1>3, <1>6

(* An address is added. *)
LEMMA AddKeepsInv ==
  ASSUME ResponseInv, AddServer
  PROVE  ResponseInv'
<1> USE DEF ResponseInv, AddServer
<1>1. servers' = servers /\ from' = from
  BY DEF listVars
<1>2. PICK s \in Answer!StartPositions(Len(servers), from) : FilledFrom(s)
  BY DEF Filling
<1>3. /\ Len(servers) \in Nat /\ Len(mList) \in Nat /\ from \in Nat /\ mMax \in Nat
      /\ servers \in Seq(Address) /\ mList \in Seq(Address)
  BY LenProperties, MaxFits DEF ResponseTypeOK
<1>4. s \in 1..(Len(servers) + 1)
  BY <1>2, <1>3, StartInRange
<1>5. i = s + Len(mList) /\ i \in 1..Len(servers)
  BY <1>2, <1>3, <1>4 DEF FilledFrom
<1>6. servers[i] \in Address
  BY <1>3, <1>5, ElementOfSeq
<1>7. /\ mList' \in Seq(Address)
      /\ Len(mList') = Len(mList) + 1
      /\ \A k \in 1..(Len(mList) + 1) :
           mList'[k] = IF k <= Len(mList) THEN mList[k] ELSE servers[i]
  BY <1>3, <1>6
<1>8. ResponseTypeOK'
  <2>1. Len(mList') <= mMax
    BY <1>3, <1>7
  <2>2. pc' = pc /\ mPacked' = FALSE /\ buffer' = buffer
    OBVIOUS
  <2>3. QED
    BY <1>1, <1>7, <2>1, <2>2 DEF ResponseTypeOK
<1>9. PackedOnce'
  BY DEF PackedOnce
<1>10. FilledFrom(s)'
  <2>1. ASSUME NEW k \in 1..Len(mList') PROVE mList'[k] = servers'[s + k - 1]
    <3>1. CASE k <= Len(mList)
      <4>1. k \in 1..Len(mList) /\ mList'[k] = mList[k]
        BY <1>3, <1>7, <3>1
      <4>2. mList[k] = servers[s + k - 1]
        BY <1>2, <4>1 DEF FilledFrom
      <4>3. QED
        BY <1>1, <4>1, <4>2
    <3>2. CASE ~(k <= Len(mList))
      <4>1. k = Len(mList) + 1
        BY <1>3, <1>7, <3>2
      <4>2. mList'[k] = servers[i] /\ i = s + k - 1
        <5>1. i = s + Len(mList) /\ Len(mList) \in Nat /\ s \in Nat
          BY <1>3, <1>4, <1>5
        <5>2. QED
          BY <1>7, <4>1, <5>1
      <4>3. QED
        BY <1>1, <4>2
    <3>3. QED
      BY <3>1, <3>2
  <2>2. i' = s + Len(mList')
    <3> DEFINE m == Len(mList)
               n == Len(mList')
    <3>1. i' = i + 1 /\ i = s + m /\ n = m + 1 /\ m \in Nat /\ s \in Nat
      BY <1>3, <1>4, <1>5, <1>7
    <3> HIDE DEF m, n
    <3>2. i' = s + n
      BY <3>1
    <3>3. QED
      BY <3>2 DEF n
  <2>3. i' <= Len(servers') + 1
    BY <1>1, <1>3, <1>5
  <2>4. /\ pc' = pc /\ pc \notin {"sendto", "sent"}
        /\ s <= Len(servers') => mTotal' = Len(servers')
        /\ s <= Len(servers')
    BY <1>1, <1>2, <1>3, <1>4, <1>5 DEF FilledFrom
  <2>5. QED
    BY <1>1, <1>3, <1>4, <2>1, <2>2, <2>3, <2>4 DEF FilledFrom
<1>11. Filling'
  BY <1>1, <1>10 DEF Filling
<1>12. QED
  BY <1>8, <1>9, <1>11

(* The list is at its end, or the response full. *)
LEMMA FilledKeepsInv ==
  ASSUME ResponseInv, Filled
  PROVE  ResponseInv'
<1> USE DEF ResponseInv, Filled
<1>1. /\ servers' = servers /\ from' = from /\ mTotal' = mTotal /\ mList' = mList
      /\ mBuffer' = mBuffer /\ mLength' = mLength /\ mPacked' = mPacked
  BY DEF listVars, message
<1>2. ResponseTypeOK'
  BY <1>1 DEF ResponseTypeOK
<1>3. PackedOnce'
  BY <1>1 DEF PackedOnce, Packed
<1>4. PICK s \in Answer!StartPositions(Len(servers), from) : FilledFrom(s)
  BY DEF Filling
<1>5. i > Len(servers) \/ Len(mList) = mMax
  BY LenProperties, MaxFits DEF ResponseTypeOK
<1>6. FilledFrom(s)'
  BY <1>1, <1>4, <1>5 DEF FilledFrom
<1>7. Filling'
  BY <1>1, <1>6 DEF Filling
<1>8. QED
  BY <1>2, <1>3, <1>7

(* Either argument of sendto finds the message packed, or packs it. *)
LEMMA PackOnce ==
  ASSUME ResponseInv, Pack, mList' = mList, mTotal' = mTotal
  PROVE  /\ mPacked' = TRUE
         /\ mLength' = (3 + Len(mList')) * WordSize
         /\ mPacked => mLength' = mLength
         /\ Packed' = Packed
         /\ \A k \in 1..mLength' : mBuffer'[k] = Packed[k]
<1> USE DEF ResponseInv, Pack
<1>1. Packed' = Packed
  BY DEF Packed
<1>2. CASE mPacked
  BY <1>1, <1>2 DEF PackedOnce
<1>3. CASE ~mPacked
  <2>1. /\ mLength = 0
        /\ Len(Packed) = (3 + Len(mList)) * WordSize
        /\ Len(mList) \in Nat
    BY <1>3, PackedLength, LenProperties DEF PackedOnce, ResponseTypeOK
  <2>2. mLength' = (3 + Len(mList)) * WordSize
    BY <1>3, <2>1 DEF WordSize
  <2>3. mLength' <= MAX_MSG_LENGTH
    BY <2>1, <2>2, MaxFits, WireAssumption DEF ResponseTypeOK, WordSize
  <2>4. \A k \in 1..mLength' : mBuffer'[k] = Packed[k]
    <3>1. TAKE k \in 1..mLength'
    <3>2. k \in 1..MAX_MSG_LENGTH /\ k > 0 /\ k <= 0 + Len(Packed) /\ k - 0 = k
      BY <2>1, <2>2, <2>3, WireAssumption DEF WordSize
    <3>3. QED
      BY <1>3, <2>1, <3>2 DEF Put
  <2>5. QED
    BY <1>1, <1>3, <2>2, <2>4
<1>4. QED
  BY <1>2, <1>3 DEF ResponseTypeOK

(* The arguments are evaluated. *)
LEMMA ArgumentKeepsInv ==
  ASSUME ResponseInv, GetPackedBuffer \/ GetPackedBufferLength
  PROVE  ResponseInv'
<1> USE DEF ResponseInv, GetPackedBuffer, GetPackedBufferLength
<1>1. /\ Pack /\ pc = "sendto" /\ pc' = pc
      /\ servers' = servers /\ from' = from /\ i' = i
      /\ mTotal' = mTotal /\ mList' = mList
  BY DEF listVars
<1>2. /\ mPacked' = TRUE
      /\ mLength' = (3 + Len(mList')) * WordSize
      /\ mPacked => mLength' = mLength
      /\ Packed' = Packed
      /\ \A k \in 1..mLength' : mBuffer'[k] = Packed[k]
  BY <1>1, PackOnce
<1>3. ResponseTypeOK'
  BY <1>1, <1>2 DEF ResponseTypeOK
<1>4. length' \subseteq {mLength'}
  BY <1>1, <1>2 DEF PackedOnce
<1>5. PackedOnce'
  BY <1>1, <1>2, <1>4 DEF PackedOnce
<1>6. Filling'
  BY <1>1 DEF Filling, FilledFrom
<1>7. QED
  BY <1>3, <1>5, <1>6

(* The datagram is sent. *)
LEMMA SendtoKeepsInv ==
  ASSUME ResponseInv, Sendto
  PROVE  ResponseInv'
<1> USE DEF ResponseInv, Sendto
<1>1. /\ servers' = servers /\ from' = from /\ i' = i
      /\ mTotal' = mTotal /\ mList' = mList
      /\ mBuffer' = mBuffer /\ mLength' = mLength /\ mPacked' = mPacked
  BY DEF listVars, message
<1>2. ResponseTypeOK'
  BY <1>1 DEF ResponseTypeOK
<1>3. mPacked /\ mLength = (3 + Len(mList)) * WordSize /\ Packed' = Packed
  BY <1>1 DEF PackedOnce, Packed
<1>4. datagram' = Packed
  <2>1. datagram' = [k \in 1..mLength |-> mBuffer[k]]
    BY DEF PackedOnce
  <2>2. datagram' = [k \in 1..mLength |-> Packed[k]]
    BY <1>3, <2>1 DEF PackedOnce
  <2>3. QED
    BY <1>3, <2>2, PackedLength DEF ResponseTypeOK
<1>5. PackedOnce'
  BY <1>1, <1>3, <1>4 DEF PackedOnce
<1>6. Filling'
  BY <1>1 DEF Filling, FilledFrom
<1>7. QED
  BY <1>2, <1>5, <1>6

(* Every step of HandleListRequest keeps the invariant. *)
LEMMA ResponseNextInv ==
  ASSUME ResponseInv, [ResponseNext]_respVars
  PROVE  ResponseInv'
<1>1. CASE ResponseNext
  BY <1>1, AdvanceKeepsInv, SetTotalKeepsInv, AddKeepsInv, FilledKeepsInv,
     ArgumentKeepsInv, SendtoKeepsInv DEF ResponseNext
<1>2. CASE UNCHANGED respVars
  BY <1>2 DEF respVars, listVars, message, ResponseInv, ResponseTypeOK, PackedOnce,
     Packed, Filling, FilledFrom
<1>3. QED
  BY <1>1, <1>2

-----------------------------------------------------------------------------
(* What the invariant implies. *)

(* The addresses that were added are the block of module ListRequest.      *)
LEMMA AddedIsBlock ==
  ASSUME ResponseTypeOK, NEW s \in 1..(Len(servers) + 1), FilledFrom(s),
         pc = "sent"
  PROVE  mList = Answer!ListBlock(servers, s)
<1> DEFINE last == IF Len(servers) < s + mMax - 1 THEN Len(servers) ELSE s + mMax - 1
<1>1. /\ servers \in Seq(Address) /\ mList \in Seq(Address)
      /\ Len(servers) \in Nat /\ Len(mList) \in Nat /\ mMax \in Nat \ {0}
      /\ Len(mList) <= mMax /\ s \in Nat
  BY LenProperties, MaxFits DEF ResponseTypeOK
<1>2. Answer!ListBlock(servers, s) = SubSeq(servers, s, last)
  BY DEF Answer!ListBlock
<1>3. last = s + Len(mList) - 1
  <2> DEFINE n == Len(servers)
             m == Len(mList)
  <2>1. i = s + m /\ i <= n + 1 /\ (i > n \/ m = mMax)
    BY DEF FilledFrom
  <2>2. n \in Nat /\ m \in Nat /\ m <= mMax /\ mMax \in Nat /\ s \in Nat
    BY <1>1
  <2> HIDE DEF n, m
  <2>3. (IF n < s + mMax - 1 THEN n ELSE s + mMax - 1) = s + m - 1
    BY <2>1, <2>2
  <2>4. QED
    BY <2>3 DEF n, m
<1>4. last \in Int /\ \A k \in s..last : servers[k] \in Address
  BY <1>1, ElementOfSeq
<1> HIDE DEF last
<1>5. /\ SubSeq(servers, s, last) \in Seq(Address)
      /\ Len(SubSeq(servers, s, last)) = IF s <= last THEN last - s + 1 ELSE 0
      /\ \A k \in 1..(last - s + 1) : SubSeq(servers, s, last)[k] = servers[s + k - 1]
  BY <1>1, <1>4, SubSeqProperties
<1>6. /\ Len(SubSeq(servers, s, last)) = Len(mList)
      /\ \A k \in 1..Len(mList) : mList[k] = SubSeq(servers, s, last)[k]
  BY <1>1, <1>3, <1>5 DEF FilledFrom
<1>7. QED
  BY <1>1, <1>2, <1>5, <1>6, SeqEqual

(* The client unpacks what was packed. *)
LEMMA UnpacksMessage ==
  ASSUME ResponseTypeOK, PackedOnce, pc = "sent", mTotal \in Word, Len(mList) \in Word
  PROVE  /\ WordAt(datagram, 0) = NMT_LISTRESP
         /\ Unpacked = [total |-> mTotal, servers |-> mList]
         /\ Len(datagram) = (3 + Len(mList)) * WordSize
<1> DEFINE words == <<NMT_LISTRESP, mTotal, Len(mList)>> \o mList
<1>1. mList \in Seq(Address) /\ Len(mList) \in Nat
  BY LenProperties DEF ResponseTypeOK
<1>2. datagram = Image(words) /\ Len(datagram) = (3 + Len(mList)) * WordSize
  BY <1>1, PackedLength DEF PackedOnce, Packed
<1>3. /\ words \in Seq(Word)
      /\ Len(words) = 3 + Len(mList)
      /\ words[1] = NMT_LISTRESP /\ words[2] = mTotal /\ words[3] = Len(mList)
      /\ \A k \in 1..Len(mList) : words[3 + k] = mList[k]
  BY <1>1, MessageWords
<1> HIDE DEF words
<1>4. WordAt(datagram, 0 * WordSize) = words[0 + 1]
  BY <1>1, <1>2, <1>3, ImageWord
<1>5. WordAt(datagram, 1 * WordSize) = words[1 + 1]
  BY <1>1, <1>2, <1>3, ImageWord
<1>6. WordAt(datagram, 2 * WordSize) = words[2 + 1]
  BY <1>1, <1>2, <1>3, ImageWord
<1>7. \A k \in 1..Len(mList) : WordAt(datagram, (2 + k) * WordSize) = mList[k]
  <2>1. TAKE k \in 1..Len(mList)
  <2>2. 2 + k \in Nat /\ 2 + k < Len(words) /\ (2 + k) + 1 = 3 + k
    BY <1>1, <1>3
  <2>3. WordAt(datagram, (2 + k) * WordSize) = words[(2 + k) + 1]
    BY <1>2, <1>3, <2>2, ImageWord
  <2>4. QED
    BY <1>3, <2>2, <2>3
<1>8. [k \in 1..Len(mList) |-> WordAt(datagram, (2 + k) * WordSize)] = mList
  <2>1. mList = [k \in 1..Len(mList) |-> mList[k]]
    BY <1>1
  <2>2. QED
    BY <1>7, <2>1
<1>9. WordAt(datagram, 0) = NMT_LISTRESP /\ WordAt(datagram, WordSize) = mTotal
  BY <1>3, <1>4, <1>5 DEF WordSize
<1>10. WordAt(datagram, 2 * WordSize) = Len(mList)
  BY <1>3, <1>6
<1>11. QED
  BY <1>2, <1>8, <1>9, <1>10 DEF Unpacked

(* The invariant's part about the packed message implies that it fits. *)
LEMMA InvFits == ResponseInv => ResponseFits
<1> SUFFICES ASSUME ResponseInv PROVE ResponseFits
  OBVIOUS
<1>1. Len(mList) \in Nat /\ Len(mList) <= mMax
  BY LenProperties DEF ResponseInv, ResponseTypeOK
<1>2. mLength = IF mPacked THEN (3 + Len(mList)) * 4 ELSE 0
  BY DEF ResponseInv, PackedOnce, WordSize
<1>3. mMax \in Nat /\ (3 + mMax) * 4 < MAX_MSG_LENGTH /\ MAX_MSG_LENGTH \in Nat
      /\ MAX_MSG_LENGTH >= 16
  BY MaxFits, WireAssumption DEF WordSize
<1>4. QED
  BY <1>1, <1>2, <1>3 DEF ResponseFits

(* ... and that the client unpacks an answer. *)
LEMMA InvAnswers == ResponseInv => ClientUnpacksAnswer
<1> SUFFICES ASSUME ResponseInv, pc = "sent" PROVE ClientUnpacksAnswer
  BY DEF ClientUnpacksAnswer
<1>1. PICK s \in Answer!StartPositions(Len(servers), from) : FilledFrom(s)
  BY DEF ResponseInv, Filling
<1>2. /\ Len(servers) \in Nat /\ Len(mList) \in Nat /\ from \in Nat
      /\ Len(servers) <= MaxServers /\ mList \in Seq(Address)
  BY LenProperties DEF ResponseInv, ResponseTypeOK
<1>3. s \in 1..(Len(servers) + 1)
  BY <1>1, <1>2, StartInRange
<1>4. mTotal = IF s > Len(servers) THEN 0 ELSE Len(servers)
  BY <1>1, <1>2, <1>3 DEF FilledFrom
<1>5. Len(mList) <= Len(servers)
  BY <1>1, <1>2, <1>3 DEF FilledFrom
<1>6. mTotal \in Word /\ Len(mList) \in Word
  <2>1. MaxServers \in Nat /\ MaxServers \div 65536 < 65536
    BY ListResponseAssumption DEF Word
  <2>2. \A n \in 0..MaxServers : n \in Word
    BY <2>1 DEF Word
  <2>3. QED
    BY <1>2, <1>4, <1>5, <2>1, <2>2
<1>7. mList = Answer!ListBlock(servers, s)
  BY <1>1, <1>3, AddedIsBlock DEF ResponseInv
<1>8. /\ WordAt(datagram, 0) = NMT_LISTRESP
      /\ Unpacked = [total |-> mTotal, servers |-> mList]
      /\ Len(datagram) = (3 + Len(mList)) * WordSize
  BY <1>6, UnpacksMessage DEF ResponseInv
<1>9. Unpacked \in Answer!ListResponses(servers, from)
  BY <1>1, <1>4, <1>7, <1>8 DEF Answer!ListResponses
<1>10. QED
  BY <1>8, <1>9 DEF ClientUnpacksAnswer

-----------------------------------------------------------------------------
(* The loop. *)

\* HandleListRequest runs for the position in the datagram received last.
AskedFor ==
  /\ Whole /\ WordAt(got, 0) = NMT_LISTREQ
  /\ from = WordAt(Padded, WordSize)

Listing == servers \in Seq(Address) /\ Len(servers) <= MaxServers

AnsweringInv ==
  /\ ReceiverInv
  /\ Listing
  /\ IF pc = "recvfrom" THEN mLength = 0 ELSE ResponseInv /\ AskedFor

(* Any list of servers is one. *)
LEMMA ListsAreLists ==
  ASSUME NEW l \in Lists
  PROVE  l \in Seq(Address) /\ Len(l) <= MaxServers
<1>1. PICK n \in 0..MaxServers : l \in [1..n -> Address]
  BY DEF Lists
<1>2. l \in Seq(Address) /\ Len(l) = n /\ n <= MaxServers
  BY <1>1, ListResponseAssumption DEF Word
<1>3. QED
  BY <1>2

(* ntohl makes a number. *)
LEMMA NumberIsNat ==
  ASSUME NEW b1 \in Nat, NEW b2 \in Nat, NEW b3 \in Nat, NEW b4 \in Nat
  PROVE  NetToHost(<<b1, b2, b3, b4>>) \in Nat
BY SMT DEF NetToHost

(* A position is a number. *)
LEMMA PositionIsNat ==
  ASSUME NEW d \in Seq(Byte)
  PROVE  WordAt(Put(Blank, 0, d), WordSize) \in Nat
<1>1. MAX_MSG_LENGTH \in Nat /\ MAX_MSG_LENGTH >= 16 /\ Len(d) \in Nat
  BY WireAssumption, LenProperties DEF WordSize
<1>2. \A k \in 5..8 : Put(Blank, 0, d)[k] = IF k <= Len(d) THEN d[k] ELSE 0
  BY <1>1 DEF Put, Blank
<1>3. \A k \in 5..8 : Put(Blank, 0, d)[k] \in Nat
  <2>1. TAKE k \in 5..8
  <2>2. CASE k <= Len(d)
    <3>1. k \in 1..Len(d)
      BY <1>1, <2>2
    <3>2. d[k] \in Byte
      BY <3>1, ElementOfSeq
    <3>3. Byte \subseteq Nat
      BY DEF Byte
    <3>4. QED
      BY <1>2, <2>2, <3>2, <3>3
  <2>3. CASE ~(k <= Len(d))
    BY <1>2, <2>3
  <2>4. QED
    BY <2>2, <2>3
<1> DEFINE b == Put(Blank, 0, d)
<1>4. b[5] \in Nat /\ b[6] \in Nat /\ b[7] \in Nat /\ b[8] \in Nat
  BY <1>3
<1> HIDE DEF b
<1>5. WordAt(b, WordSize) = NetToHost(<<b[5], b[6], b[7], b[8]>>)
  BY SMT DEF WordAt, NetToHost, WordSize
<1>6. NetToHost(<<b[5], b[6], b[7], b[8]>>) \in Nat
  BY <1>4, NumberIsNat
<1>7. WordAt(b, WordSize) \in Nat
  BY <1>5, <1>6
<1>8. QED
  BY <1>7 DEF b

(* HandleListRequest is called for a datagram that has its type, with its  *)
(* position.                                                               *)
LEMMA OwnPosition ==
  ASSUME ReceiverInv', ran' = NMT_LISTREQ
  PROVE  /\ Whole' /\ WordAt(got', 0) = NMT_LISTREQ
         /\ arg' = WordAt(Padded', WordSize) /\ arg' \in Nat
<1>1. NMT_LISTREQ \in Checked /\ NMT_LISTREQ # NMT_NULL
  BY DEF Checked, NMT_LISTREQ, NMT_NULL
<1>2. Whole' /\ WordAt(got', 0) = NMT_LISTREQ
  BY <1>1 DEF ReceiverInv, ActsOnOwnType
<1>3. arg' = WordAt(Padded', WordSize)
  BY <1>2 DEF ReceiverInv, ArgumentIsOwn
<1>4. WordAt(Padded', WordSize) \in Nat
  BY PositionIsNat DEF Padded, ReceiverInv, ReceivedTypeOK
<1>5. QED
  BY <1>2, <1>3, <1>4

(* The loop has received nothing. *)
LEMMA AnsweringInitInv == AnsweringInit => AnsweringInv
<1> SUFFICES ASSUME AnsweringInit PROVE AnsweringInv
  OBVIOUS
<1>1. ReceiverInv
  BY ReceiverInitInv DEF AnsweringInit
<1>2. Listing /\ pc = "recvfrom" /\ mLength = 0
  BY ListsAreLists DEF AnsweringInit, ResponseInit, Listing
<1>3. QED
  BY <1>1, <1>2 DEF AnsweringInv

(* A datagram is received, and HandleListRequest called if it asks for it. *)
LEMMA ProcessKeepsInv ==
  ASSUME AnsweringInv, NEW d \in Sendable, Process(d)
  PROVE  AnsweringInv'
<1>1. ReceiverInv'
  BY ReceiveKeepsInv DEF Process, AnsweringInv
<1>2. Listing'
  BY DEF Process, AnsweringInv, Listing
<1>3. CASE ran' = NMT_LISTREQ
  <2>1. pc' = "advance" /\ from' = arg' /\ Locals
    BY <1>3 DEF Process
  <2>2. AskedFor' /\ from' \in Nat
    BY <1>1, <1>3, <2>1, OwnPosition DEF AskedFor
  <2>3. ResponseInv'
    BY <1>2, <2>1, <2>2, CallStartsInv DEF Listing
  <2>4. QED
    BY <1>1, <1>2, <2>1, <2>2, <2>3 DEF AnsweringInv
<1>4. CASE ran' # NMT_LISTREQ
  BY <1>1, <1>2, <1>4 DEF Process, Locals, AnsweringInv
<1>5. QED
  BY <1>3, <1>4

(* HandleListRequest makes a step. *)
LEMMA HandleKeepsInv ==
  ASSUME AnsweringInv, HandleListRequest
  PROVE  AnsweringInv'
<1>1. UNCHANGED recvVars /\ ResponseNext
  BY DEF HandleListRequest
<1>2. pc # "recvfrom" /\ pc' # "recvfrom" /\ servers' = servers /\ from' = from
  BY <1>1 DEF ResponseNext, AdvanceIterator, SetTotalServers, AddServer, Filled,
     GetPackedBuffer, GetPackedBufferLength, Sendto, listVars
<1>3. ReceiverInv'
  BY <1>1, ReceiverNextInv DEF AnsweringInv
<1>4. ResponseInv'
  BY <1>1, <1>2, ResponseNextInv DEF AnsweringInv
<1>5. Listing' /\ AskedFor'
  BY <1>1, <1>2 DEF AnsweringInv, Listing, AskedFor, Whole, Padded, recvVars
<1>6. QED
  BY <1>2, <1>3, <1>4, <1>5 DEF AnsweringInv

(* Every step keeps the invariant. *)
LEMMA AnsweringNextInv ==
  ASSUME AnsweringInv, [AnsweringNext]_answeringVars
  PROVE  AnsweringInv'
<1>1. CASE ListChanges
  <2>1. ReceiverInv'
    BY <1>1, ReceiverNextInv DEF ListChanges, AnsweringInv
  <2>2. Listing'
    BY <1>1, ListsAreLists DEF ListChanges, Listing
  <2>3. QED
    BY <1>1, <2>1, <2>2 DEF ListChanges, message, AnsweringInv
<1>2. CASE UNCHANGED answeringVars
  <2>1. UNCHANGED recvVars /\ UNCHANGED respVars
    BY <1>2 DEF answeringVars
  <2>2. ReceiverInv'
    BY <2>1, ReceiverNextInv DEF AnsweringInv
  <2>3. Listing' /\ pc' = pc /\ mLength' = mLength /\ (AskedFor => AskedFor')
    BY <2>1 DEF AnsweringInv, Listing, AskedFor, Whole, Padded, recvVars, respVars,
       listVars, message
  <2>4. pc # "recvfrom" => ResponseInv'
    BY <2>1, ResponseNextInv DEF AnsweringInv
  <2>5. QED
    BY <2>2, <2>3, <2>4 DEF AnsweringInv
<1>3. QED
  BY <1>1, <1>2, ProcessKeepsInv, HandleKeepsInv DEF AnsweringNext

(* The invariant holds in every state. *)
LEMMA AnsweringInvariance == AnsweringSpec => []AnsweringInv
<1>1. QED
  BY AnsweringInitInv, AnsweringNextInv, PTL DEF AnsweringSpec

-----------------------------------------------------------------------------
(* The theorems. *)

(* Whatever HandleListRequest and the other handlers do between two        *)
(* datagrams, the loop receives as module Receiver does: its theorems hold *)
(* of the loop.                                                            *)
THEOREM LoopReceives == AnsweringSpec => ReceiverSpec
<1>1. AnsweringInit => ReceiverInit
  BY DEF AnsweringInit
<1>2. [AnsweringNext]_answeringVars => [ReceiverNext]_recvVars
  BY DEF AnsweringNext, Process, HandleListRequest, ListChanges, ReceiverNext, answeringVars
<1>3. QED
  BY <1>1, <1>2, PTL DEF AnsweringSpec, ReceiverSpec

(* A LISTRESP is never packed beyond its buffer, and is short enough for a *)
(* receiver to copy, for any buffer that is not a whole number of words.   *)
THEOREM ResponseAlwaysFits == AnsweringSpec => []ResponseFits
<1>1. AnsweringInv => ResponseFits
  BY InvFits, WireAssumption DEF AnsweringInv, ResponseFits, WordSize
<1>2. QED
  BY <1>1, AnsweringInvariance, PTL

(* From list to client: the statements of HandleListRequest, the packing   *)
(* and the unpacking implement the answers of module ListRequest.          *)
THEOREM ClientIsAnswered == AnsweringSpec => []ClientUnpacksAnswer
<1>1. AnsweringInv => ClientUnpacksAnswer
  BY InvAnswers DEF AnsweringInv, ClientUnpacksAnswer
<1>2. QED
  BY <1>1, AnsweringInvariance, PTL

(* From datagram to datagram: an answer is sent for a LISTREQ only, and    *)
(* starts at the position that this LISTREQ asked for.                     *)
THEOREM AnswerIsToRequest == AnsweringSpec => []AnswersItsRequest
<1>1. AnsweringInv => AnswersItsRequest
  BY InvAnswers DEF AnsweringInv, AskedFor, AnswersItsRequest, ClientUnpacksAnswer
<1>2. QED
  BY <1>1, AnsweringInvariance, PTL
=============================================================================
