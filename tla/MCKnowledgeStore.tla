-------------------------- MODULE MCKnowledgeStore --------------------------
(***************************************************************************)
(* A small instance of the knowledge base: entities are alike, and so are  *)
(* deletions.                                                              *)
(***************************************************************************)
EXTENDS KnowledgeStore, TLC

Alike == Permutations(Entities) \union Permutations(Deletions)
=============================================================================
