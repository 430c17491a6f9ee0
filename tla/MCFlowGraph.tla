---------------------------- MODULE MCFlowGraph ----------------------------
(* Small graphs for TLC. *)
EXTENDS FlowGraph, TLC

\* Stored edges: the field max_cycles is missing.
StoredEdges == [from : NodeIds, to : NodeIds, maxCycles : {0}, feedback : BOOLEAN]
MinusToTwo  == {-1, 2}
Pointers    == Permutations(EdgeIds)
=============================================================================
