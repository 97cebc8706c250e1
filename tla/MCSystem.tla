------------------------------ MODULE MCSystem ------------------------------
(***************************************************************************)
(* Small instances of System for TLC: one or two game servers, each on its *)
(* own host.                                                               *)
(***************************************************************************)
EXTENDS System

MCOne     == {"a:1"}
MCOneAddr == {"a"}
MCOneHost == [e \in MCOne |-> "a"]

MCTwo     == {"a:1", "b:1"}
MCTwoAddr == {"a", "b"}
MCTwoHost == [e \in MCTwo |-> IF e = "b:1" THEN "b" ELSE "a"]

MCDatagrams == ServerDatagrams
=============================================================================
