---------------------------- MODULE ListResponse ----------------------------
(***************************************************************************)
(* HandleListRequest statement by statement: it advances the iterator,     *)
(* fills a ListResponseMsg until AddServer refuses, packs it and sends it. *)
(* Both arguments of sendto may pack the message, and C++ leaves open      *)
(* which is evaluated first.  The test client then unpacks the datagram.   *)
(***************************************************************************)
EXTENDS Wire

CONSTANTS
  DEBUG,        \* a DEBUG build
  Address,      \* the addresses of servers, as words
  MaxServers    \* bound: servers on the list

(* 570 is not a multiple of the word size: the largest response is smaller *)
(* than the buffer, which the receiver requires.                           *)
ASSUME ListResponseAssumption ==
  /\ DEBUG \in BOOLEAN
  /\ DEBUG => MAX_MSG_LENGTH > 8 * WordSize
  /\ MAX_MSG_LENGTH % WordSize # 0
  /\ Address \subseteq Word
  /\ MaxServers \in Word

VARIABLES
  pc,           \* the statement that comes next, and outside of it "recvfrom"
  servers,      \* the addresses on mActiveServers
  from,         \* the position asked for
  i,            \* the iterator, as a position
  mTotal, mList,
  mBuffer, mLength, mPacked,
  buffer,       \* GetPackedBuffer() has been called
  length,       \* what GetPackedBufferLength() returned, if it has been called
  datagram      \* what sendto sent

listVars == <<servers, from>>
message  == <<mTotal, mList, mBuffer, mLength, mPacked>>
respVars == <<pc, listVars, i, message, buffer, length, datagram>>

\* Mutant: the word that counts the addresses is forgotten.
mMaxNoCount ==
  IF DEBUG THEN 5 ELSE (MAX_MSG_LENGTH - 2 * WordSize) \div WordSize

mMax == IF DEBUG THEN 5 ELSE (MAX_MSG_LENGTH - 3 * WordSize) \div WordSize

Answer == INSTANCE ListRequest

Lists == UNION {[1..n -> Address] : n \in 0..MaxServers}

ResponseInit ==
  /\ pc = "recvfrom"
  /\ servers \in Lists
  /\ from = 0 /\ i = 1
  /\ mTotal = 0 /\ mList = <<>>
  /\ mBuffer = Blank /\ mLength = 0 /\ mPacked = FALSE
  /\ buffer = FALSE /\ length = {}
  /\ datagram = <<>>

\* The locals of HandleListRequest, constructed whenever it is called.
Locals ==
  /\ i' = 1
  /\ mTotal' = 0 /\ mList' = <<>>
  /\ mBuffer' = Blank /\ mLength' = 0 /\ mPacked' = FALSE
  /\ buffer' = FALSE /\ length' = {}
  /\ datagram' = <<>>

-----------------------------------------------------------------------------
(* Filling the response. *)

AdvanceIterator ==
  /\ pc = "advance"
  /\ i' \in Answer!StartPositions(Len(servers), from)
  /\ IF i' > Len(servers) THEN pc' = "sendto" ELSE pc' = "SetTotalServers"
  /\ UNCHANGED <<listVars, message, buffer, length, datagram>>

SetTotalServers ==
  /\ pc = "SetTotalServers"
  /\ mTotal' = Len(servers)
  /\ pc' = "AddServer"
  /\ UNCHANGED <<listVars, i, mList, mBuffer, mLength, mPacked, buffer, length, datagram>>

AddServer ==
  /\ pc = "AddServer"
  /\ i <= Len(servers) /\ Len(mList) < mMax
  /\ mList' = Append(mList, servers[i])
  /\ mPacked' = FALSE
  /\ i' = i + 1
  /\ UNCHANGED <<pc, listVars, mTotal, mBuffer, mLength, buffer, length, datagram>>

\* The list is at its end, or the response is full.
Filled ==
  /\ pc = "AddServer"
  /\ i > Len(servers) \/ Len(mList) >= mMax
  /\ pc' = "sendto"
  /\ UNCHANGED <<listVars, i, message, buffer, length, datagram>>

-----------------------------------------------------------------------------
(* The arguments of sendto. *)

\* What Pack() appends at mLength.
Packed == Image(<<NMT_LISTRESP, mTotal, Len(mList)>> \o mList)

\* Mutant: Pack() does not say that the message is packed, as in the
\* classes that the metaserver only receives.
PackAgain ==
  IF mPacked THEN UNCHANGED <<mBuffer, mLength, mPacked>>
  ELSE /\ mBuffer' = Put(mBuffer, mLength, Packed)
       /\ mLength' = mLength + Len(Packed)
       /\ UNCHANGED mPacked

Pack ==
  IF mPacked THEN UNCHANGED <<mBuffer, mLength, mPacked>>
  ELSE /\ mBuffer' = Put(mBuffer, mLength, Packed)
       /\ mLength' = mLength + Len(Packed)
       /\ mPacked' = TRUE

GetPackedBuffer ==
  /\ pc = "sendto" /\ ~buffer
  /\ Pack
  /\ buffer' = TRUE
  /\ UNCHANGED <<pc, listVars, i, mTotal, mList, length, datagram>>

GetPackedBufferLength ==
  /\ pc = "sendto" /\ length = {}
  /\ Pack
  /\ length' = {mLength'}
  /\ UNCHANGED <<pc, listVars, i, mTotal, mList, buffer, datagram>>

Sendto ==
  /\ pc = "sendto" /\ buffer
  /\ \E n \in length : datagram' = [k \in 1..n |-> mBuffer[k]]
  /\ pc' = "sent"
  /\ UNCHANGED <<listVars, i, message, buffer, length>>

ResponseNext ==
  \/ AdvanceIterator \/ SetTotalServers \/ AddServer \/ Filled
  \/ GetPackedBuffer \/ GetPackedBufferLength \/ Sendto

-----------------------------------------------------------------------------
(* The test client. *)

Unpacked ==
  [total   |-> WordAt(datagram, WordSize),
   servers |-> [k \in 1..WordAt(datagram, 2 * WordSize) |->
                  WordAt(datagram, (2 + k) * WordSize)]]

-----------------------------------------------------------------------------
(* Properties. *)

(***************************************************************************)
(* Nothing is packed beyond the buffer, and the message is strictly        *)
(* shorter than it: a receiver drops one of MAX_MSG_LENGTH bytes.          *)
(***************************************************************************)
ResponseFits == mLength < MAX_MSG_LENGTH

(***************************************************************************)
(* Whichever argument of sendto is evaluated first, the datagram is one    *)
(* LISTRESP and not a byte more, and what the client unpacks from it is an *)
(* answer of module ListRequest: the stated total, and the addresses from  *)
(* the position on, as many as fit.                                        *)
(***************************************************************************)
ClientUnpacksAnswer ==
  pc = "sent" =>
    /\ WordAt(datagram, 0) = NMT_LISTRESP
    /\ Unpacked \in Answer!ListResponses(servers, from)
    /\ Len(datagram) = (3 + Len(Unpacked.servers)) * WordSize
=============================================================================
