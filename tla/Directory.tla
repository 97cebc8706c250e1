----------------------------- MODULE Directory -----------------------------
(***************************************************************************)
(* What the metaserver promises about one of its two directories, the      *)
(* active servers or the active clients, leaving out how they are kept:    *)
(* iterators, sweeps, signals, commands and the order of the entries.      *)
(*                                                                         *)
(* A directory holds leases, at most one for an address, and changes on    *)
(* request.  Who asks for a ticket gets one.  Who shows the value of a     *)
(* ticket, whoever it was issued to, uses up the oldest that carries it    *)
(* and takes out or renews a lease of its own address; a value that no     *)
(* ticket carries changes nothing.  Who withdraws ends its own lease, and  *)
(* no other.  Unasked, the directory ends what has gone stale and nothing  *)
(* else.                                                                   *)
(***************************************************************************)
EXTENDS Naturals, Sequences, SequencesExt

CONSTANTS
  Addr,          \* who can be listed
  TicketValue,   \* what a ticket can carry
  NotListed,     \* the lease of an address that has none
  StaleAfter     \* the age beyond which a lease or a ticket may end

VARIABLES
  lease,    \* when each address was last listed or renewed
  tickets,  \* the tickets issued and neither redeemed nor void, oldest first
  clock,
  request   \* what the latest step was asked: its kind ("ticket", "redeem",
            \* "withdraw", "other"; "none" if it was not asked) and, unless
            \* that is "none", the addr that asks and the value it shows

dirVars == <<lease, tickets, clock, request>>

DirInit ==
  /\ lease = [a \in Addr |-> NotListed]
  /\ tickets = <<>>
  /\ clock = 0
  /\ request.kind = "none"

Old(time) == clock > time + StaleAfter

\* The oldest ticket with a value, as the set of its position.
Bearing(h) ==
  {i \in 1..Len(tickets) : tickets[i].hs = h /\ \A j \in 1..(i-1) : tickets[j].hs # h}

Unchanged == UNCHANGED <<lease, tickets, clock>>

Issue ==
  /\ request'.kind = "ticket"
  /\ \E h \in TicketValue :
       tickets' = Append(tickets, [addr |-> request'.addr, hs |-> h, ts |-> clock])
  /\ UNCHANGED <<lease, clock>>

Redeem ==
  /\ request'.kind = "redeem"
  /\ \E i \in Bearing(request'.value) : tickets' = RemoveAt(tickets, i)
  /\ lease' = [lease EXCEPT ![request'.addr] = clock]
  /\ UNCHANGED clock

Refuse ==
  /\ request'.kind = "redeem"
  /\ Bearing(request'.value) = {}
  /\ Unchanged

EndLease(a) ==
  /\ lease' = [lease EXCEPT ![a] = NotListed]
  /\ UNCHANGED <<tickets, clock>>

Withdraw == request'.kind = "withdraw" /\ EndLease(request'.addr)

Disregard == request'.kind = "other" /\ Unchanged

Expire(a) == lease[a] # NotListed /\ Old(lease[a]) /\ EndLease(a)

Void ==
  /\ \E i \in DOMAIN tickets : Old(tickets[i].ts) /\ tickets' = RemoveAt(tickets, i)
  /\ UNCHANGED <<lease, clock>>

Pass == clock' = clock + 1 /\ UNCHANGED <<lease, tickets>>

Unasked ==
  /\ request'.kind = "none"
  /\ (\E a \in Addr : Expire(a)) \/ Void \/ Pass \/ Unchanged

DirNext == Issue \/ Redeem \/ Refuse \/ Withdraw \/ Disregard \/ Unasked

DirSpec == DirInit /\ [][DirNext]_dirVars
=============================================================================
