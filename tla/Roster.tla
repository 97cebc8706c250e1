------------------------------- MODULE Roster -------------------------------
(***************************************************************************)
(* What a client that pages through the server list may rely on: a list    *)
(* without repetitions that servers join at the end and leave from         *)
(* anywhere, and that nothing else changes.                                *)
(***************************************************************************)
EXTENDS Naturals, Sequences, SequencesExt

CONSTANT Addr   \* who can be listed

VARIABLE roster   \* the addresses listed, longest first

OnRoster(a) == \E i \in 1..Len(roster) : roster[i] = a

RosterInit == roster = <<>>

Join(a) == ~OnRoster(a) /\ roster' = Append(roster, a)

Leave(i) == roster' = RemoveAt(roster, i)

RosterNext == (\E a \in Addr : Join(a)) \/ (\E i \in 1..Len(roster) : Leave(i))

RosterSpec == RosterInit /\ [][RosterNext]_roster
=============================================================================
