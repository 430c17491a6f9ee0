------------------------------- MODULE MCChat -------------------------------
(* A small instance of chat for TLC. *)
EXTENDS Chat, TLC

\* Two flows.  Their descriptions, which are messages too, share a key.
Described == {<<"bills", "pay">>, <<"hello", "greet">>}

Key == [t \in Texts |-> 1]

Similarity == [p \in Texts \X Texts |-> IF p[1] = p[2] THEN 10 ELSE 3]
=============================================================================
