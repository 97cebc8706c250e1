---------------------------- MODULE MCAnswering ----------------------------
(***************************************************************************)
(* An instance of module Answering: prefixes of messages with a small and  *)
(* a large argument, whole or cut off within a word, and datagrams that    *)
(* fill the buffer or exceed it.                                           *)
(***************************************************************************)
EXTENDS Answering

SomeTypes == {NMT_SERVERKEEPALIVE, NMT_CLIENTSHAKE, NMT_TERMINATE, NMT_LISTREQ, NMT_LISTRESP}

Messages == {Image(<<t, a>>) : t \in SomeTypes, a \in {1, 16909060}}

MCSendable ==
  {SubSeq(m, 1, n) : m \in Messages, n \in {0, 3, 4, 5, 8}}
    \cup {Image(<<NMT_LISTREQ, 1, 5, 6, 7, 8>>) \o <<9, 10>>,
          Image(<<NMT_TERMINATE, 1, 5, 6, 7, 8, 9>>)}

MCGarbage == {NMT_TERMINATE, NMT_SERVERSHAKE}
=============================================================================
