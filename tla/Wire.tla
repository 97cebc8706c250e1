-------------------------------- MODULE Wire --------------------------------
(***************************************************************************)
(* What class NetMsg and the test client's pack_uint32() put into a        *)
(* datagram and take out of it: 32-bit words in network byte order.        *)
(* A C array of n bytes is a function from 1..n; a place in it counts the  *)
(* bytes before, as mLength and mPlace do.                                 *)
(***************************************************************************)
EXTENDS Naturals, Sequences

CONSTANT MAX_MSG_LENGTH   \* the size of mBuffer

WordSize == 4

\* A message is at least a type, two words and one address.
ASSUME WireAssumption == MAX_MSG_LENGTH \in Nat /\ MAX_MSG_LENGTH >= 4 * WordSize

Byte == 0..255

\* 32 bits
Word == {w \in Nat : w \div 65536 < 65536}

\* enum NetMsgType
NMT_NULL            == 0
NMT_SERVERKEEPALIVE == 1
NMT_CLIENTKEEPALIVE == 2
NMT_HANDSHAKE       == 3
NMT_SERVERSHAKE     == 4
NMT_CLIENTSHAKE     == 5
NMT_TERMINATE       == 6
NMT_LISTREQ         == 7
NMT_LISTRESP        == 8
NMT_PROTO_ERANGE    == 9
NMT_LAST            == 10

\* htonl and memcpy
HostToNet(w) ==
  <<w \div 16777216, (w \div 65536) % 256, (w \div 256) % 256, w % 256>>

\* memcpy and ntohl
NetToHost(b) == 16777216 * b[1] + 65536 * b[2] + 256 * b[3] + b[4]

\* The bytes of words packed one behind the other.
Image(words) ==
  [i \in 1..(WordSize * Len(words)) |->
     HostToNet(words[((i - 1) \div WordSize) + 1])[((i - 1) % WordSize) + 1]]

\* The word unpacked at a place.
WordAt(bytes, place) == NetToHost([k \in 1..WordSize |-> bytes[place + k]])

\* memset(mBuffer, 0, MAX_MSG_LENGTH)
Blank == [i \in 1..MAX_MSG_LENGTH |-> 0]

\* memcpy(buffer + place, bytes, Len(bytes)), of which only what falls into the
\* buffer is kept.
Put(buffer, place, bytes) ==
  [i \in 1..MAX_MSG_LENGTH |->
     IF i > place /\ i <= place + Len(bytes) THEN bytes[i - place] ELSE buffer[i]]
=============================================================================
