----------------------------- MODULE Answering -----------------------------
(***************************************************************************)
(* Modules Receiver and ListResponse as parts of one loop: Process()       *)
(* decodes a datagram and, for a LISTREQ, calls HandleListRequest with the *)
(* message it decoded; when the answer is sent, or for any other datagram, *)
(* it receives the next one into the same array.                           *)
(*                                                                         *)
(* What the other handlers do to the list of servers is module             *)
(* Metaserver's matter: here it may change whenever the loop receives.     *)
(***************************************************************************)
EXTENDS Receiver, ListResponse

AnsweringInit == ReceiverInit /\ ResponseInit

\* One iteration of the loop, up to the call of HandleListRequest.
Process(d) ==
  /\ pc \in {"recvfrom", "sent"}
  /\ Receive(d)
  /\ IF ran' = NMT_LISTREQ THEN pc' = "advance" /\ from' = arg'
     ELSE pc' = "recvfrom" /\ from' = 0
  /\ Locals
  /\ UNCHANGED servers

HandleListRequest == ResponseNext /\ UNCHANGED recvVars

\* Servers were listed, terminated or reaped.
ListChanges ==
  /\ pc = "recvfrom"
  /\ servers' \in Lists
  /\ UNCHANGED <<recvVars, pc, from, i, message, buffer, length, datagram>>

AnsweringNext ==
  (\E d \in Sendable : Process(d)) \/ HandleListRequest \/ ListChanges

answeringVars == <<recvVars, respVars>>

AnsweringSpec == AnsweringInit /\ [][AnsweringNext]_answeringVars

-----------------------------------------------------------------------------
(* Properties. *)

(***************************************************************************)
(* An answer is sent for a LISTREQ only, and what the client unpacks from  *)
(* it starts at the position its own datagram asked for: neither what      *)
(* earlier datagrams left in mesg nor an earlier answer gets into it.      *)
(***************************************************************************)
AnswersItsRequest ==
  pc = "sent" =>
    /\ Whole /\ WordAt(got, 0) = NMT_LISTREQ
    /\ Unpacked \in Answer!ListResponses(servers, WordAt(Padded, WordSize))
=============================================================================
