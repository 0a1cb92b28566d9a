------------------------------- MODULE MCGraph -------------------------------
(* A small instance of the knowledge graph for TLC: the model may give a   *)
(* complete answer, one whose relation names an id that is no entity, ones *)
(* with entities that lack ids, and one without entities.                  *)
EXTENDS Graph, TLC

CONSTANTS c1, c2, memo, note, ea, eb, ed

NodeOf == memo :> note
Rel(from, to) == Edge(from, to, "uses")

AllAnswers ==
  {[entities |-> <<ea, eb>>, relations |-> <<Rel(ea, eb)>>],
   [entities |-> <<NoId, eb>>, relations |-> <<Rel(eb, ed), Rel(ed, NoId)>>],
   [entities |-> <<NoId>>, relations |-> <<Rel(ed, ea)>>],
   [entities |-> <<>>, relations |-> <<Rel(ea, ed)>>]}

ClientSymmetry == Permutations(Clients)
=============================================================================
