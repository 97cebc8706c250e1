------------------------------ MODULE Receiver ------------------------------
(***************************************************************************)
(* How Process() decodes a datagram.  One array, mesg, receives them all,  *)
(* so that behind a short datagram stands what earlier ones left.  A first *)
(* NetMsg reads only the type, from mesg; a second one, of the class for   *)
(* this type, copies as many bytes as were received and reads the type     *)
(* again, and then its argument.  Neither copies a datagram that fills the *)
(* buffer.                                                                 *)
(***************************************************************************)
EXTENDS Wire

CONSTANTS
  MAXLINE,      \* the size of mesg
  Sendable,     \* the datagrams the network may deliver
  Garbage       \* words that uninitialised memory may hold

ASSUME ReceiverAssumption ==
  /\ MAXLINE \in Nat /\ MAXLINE >= MAX_MSG_LENGTH
  /\ Sendable \subseteq Seq(Byte)
  /\ Garbage \subseteq Word /\ Garbage # {}

VARIABLES
  mesg,
  ran,      \* the type whose handler ran last; NMT_NULL when none did
  arg,      \* the argument it was given
  got       \* the datagram that recvfrom returned

recvVars == <<mesg, ran, arg, got>>

Handshaking == {NMT_SERVERSHAKE, NMT_CLIENTSHAKE}
Keepalives  == {NMT_SERVERKEEPALIVE, NMT_CLIENTKEEPALIVE}
Checked     == {NMT_TERMINATE, NMT_LISTREQ}

ReceiverInit ==
  /\ \E w \in [1..((MAXLINE \div WordSize) + 1) -> Garbage] :
       mesg = [k \in 1..MAXLINE |-> Image(w)[k]]
  /\ ran = NMT_NULL /\ arg = 0 /\ got = <<>>

-----------------------------------------------------------------------------

\* What recvfrom leaves in mesg: a datagram that is too long is cut off.
Received(d) == [k \in 1..MAXLINE |-> IF k <= Len(d) THEN d[k] ELSE mesg[k]]

\* The type the first NetMsg reads.  Its mBuffer is not initialised.
Types(m, n) == IF n < MAX_MSG_LENGTH THEN {WordAt(m, 0)} ELSE Garbage

\* Mutant: the whole buffer is copied, whatever was received.
CopiedWhole(m, n) == [k \in 1..MAX_MSG_LENGTH |-> m[k]]

\* The mBuffer of the second one.
Copied(m, n) ==
  IF n < MAX_MSG_LENGTH THEN Put(Blank, 0, [k \in 1..n |-> m[k]]) ELSE Blank

\* Mutant: a message is good whatever its type.
GoodAnyway(b) == TRUE

Good(b) == NMT_NULL < WordAt(b, 0) /\ WordAt(b, 0) < NMT_LAST

\* Its argument, which is not initialised unless the type is verified.
Arguments(b, type) == IF WordAt(b, 0) = type THEN {WordAt(b, WordSize)} ELSE Garbage

\* The KEEPALIVE handlers run on the type that the first NetMsg read.
DispatchKeepalive(type) ==
  /\ type \in Keepalives
  /\ ran' = type /\ arg' = 0

\* A SHAKE is not checked again.
DispatchShake(type, b) ==
  /\ type \in Handshaking
  /\ ran' = type /\ arg' \in Arguments(b, type)

DispatchTerminate(type, b) ==
  /\ type = NMT_TERMINATE /\ Good(b)
  /\ ran' = type /\ arg' = 0

DispatchListRequest(type, b) ==
  /\ type = NMT_LISTREQ /\ Good(b)
  /\ ran' = type /\ arg' \in Arguments(b, type)

Drop(type, b) ==
  /\ \/ type \in Checked /\ ~Good(b)
     \/ type \notin Keepalives \cup Handshaking \cup Checked
  /\ ran' = NMT_NULL /\ arg' = 0

Receive(d) ==
  /\ mesg' = Received(d)
  /\ got' = d
  /\ LET n == IF Len(d) < MAXLINE THEN Len(d) ELSE MAXLINE
         b == Copied(mesg', n)
     IN  \E type \in Types(mesg', n) :
           \/ DispatchKeepalive(type) \/ DispatchShake(type, b)
           \/ DispatchTerminate(type, b) \/ DispatchListRequest(type, b)
           \/ Drop(type, b)

ReceiverNext == \E d \in Sendable : Receive(d)

ReceiverSpec == ReceiverInit /\ [][ReceiverNext]_recvVars

-----------------------------------------------------------------------------
(* Properties. *)

\* The datagram has a type of its own, and is not too long.
Whole == WordSize <= Len(got) /\ Len(got) < MAX_MSG_LENGTH

\* Its bytes, and zeros behind them.
Padded == Put(Blank, 0, got)

(***************************************************************************)
(* The handler that runs is the one for the type in the datagram, and for  *)
(* a datagram without one, whatever the earlier ones left in mesg, neither *)
(* a TERMINATE nor a LISTREQ is ever carried out.                          *)
(***************************************************************************)
ActsOnOwnType ==
  IF Whole THEN ran \in {NMT_NULL, WordAt(got, 0)} ELSE ran \notin Checked

(***************************************************************************)
(* The position of a LISTREQ, and the handshake of a SHAKE that has its    *)
(* type, come from the datagram itself: when it is too short for them,     *)
(* zeros complete it, never bytes of an earlier datagram.                  *)
(***************************************************************************)
ArgumentIsOwn ==
  Whole /\ ran \in Handshaking \cup {NMT_LISTREQ} => arg = WordAt(Padded, WordSize)
=============================================================================
