----------------------------- MODULE MCFlowStore -----------------------------
(* A small store for TLC. *)
EXTENDS FlowStore, TLC

\* A chain of two nodes.
Chain == [nodes |-> {"a", "b"}, entry |-> "a", edges |-> {<<"a", "b">>}, parsable |-> TRUE]

\* The same with edges that cannot be parsed: unsound until the second node is deleted.
Garbled == [Chain EXCEPT !.parsable = FALSE]

Requested == {Chain, Garbled}

\* Columns, values and requests are alike.
Alike == Permutations(Fields) \union Permutations(Values) \union Permutations(Updates)
=============================================================================
