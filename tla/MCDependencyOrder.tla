------------------------- MODULE MCDependencyOrder -------------------------
(* Every dependency relation of four nodes over two ranks, and files that  *)
(* are malformed: a node that needs itself, an unknown name, a repetition. *)
EXTENDS DependencyOrder, TLC

Relations == [Nodes -> SUBSET Nodes]
Irreflexive == {r \in Relations : \A n \in Nodes : n \notin r[n]}
OneRank == [n \in Nodes |-> 1]
File(needs, repeats) == [rank |-> OneRank, needs |-> needs, repeats |-> repeats]

MCInputs ==
  [rank : [Nodes -> {1, 2}], needs : Irreflexive, repeats : {{}}]
    \cup {File(<<{}, {1}, {}, {}>>, {2}), File(<<{}, {2}, {}, {}>>, {}),
          File(<<{}, {Unknown}, {}, {}>>, {})}
=============================================================================
