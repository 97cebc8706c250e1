---------------------------- MODULE ListRequest ----------------------------
(***************************************************************************)
(* How HandleListRequest answers a client that asks for the active servers *)
(* from a position on.  Modules Metaserver and Paging both use it.         *)
(***************************************************************************)
EXTENDS Naturals, Sequences

CONSTANT mMax   \* addresses one LISTRESP can hold

ASSUME ListRequestAssumption == mMax \in Nat \ {0}

\* Mutant: the iterator is advanced once too often.
StartOneLate(n, from) == IF from < n THEN {from + 2} ELSE 1..(n + 1)

\* Where the list iterator of a list with n servers stands after being
\* advanced from times: a position, or n + 1 for end().  Advancing it beyond
\* end() is undefined; it then stands anywhere on the list's ring of nodes.
StartPositions(n, from) == IF from <= n THEN {from + 1} ELSE 1..(n + 1)

\* The servers from position i on, as many as AddServer takes.
ListBlock(servers, i) ==
  SubSeq(servers, i,
         IF Len(servers) < i + mMax - 1 THEN Len(servers) ELSE i + mMax - 1)

\* Mutant: the response always states how many servers are listed.
ListResponsesTotal(servers, from) ==
  {[total |-> Len(servers), servers |-> ListBlock(servers, i)] :
     i \in StartPositions(Len(servers), from)}

\* The answers to a request for the servers from a position on.  At end() the
\* response says 0 of 0, even when servers are listed.
ListResponses(servers, from) ==
  {[total   |-> IF i > Len(servers) THEN 0 ELSE Len(servers),
    servers |-> ListBlock(servers, i)] : i \in StartPositions(Len(servers), from)}
=============================================================================
