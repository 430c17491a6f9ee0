--------------------------- MODULE MCNodeExecution ---------------------------
(* A small instance of the execution of nodes for TLC. *)
EXTENDS NodeExecution, TLC

Answer == {"good", "bad"}
Data   == Answer \union {"nil"}

Checks == (Executions \X {"input", "output"}) \union Others

\* "strict" wants a good value, "loose" any map, "broken" is no schema.
Kept == {<<"strict", "good">>} \union ({"loose"} \X Data)

\* A node without contracts, and before and after an edit of both.
Edited == {[input |-> "none",   output |-> "none"],
           [input |-> "loose",  output |-> "strict"],
           [input |-> "broken", output |-> "loose"]}
=============================================================================
