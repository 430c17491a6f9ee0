------------------------- MODULE MCFlowOrchestrator -------------------------
(* Small flows for TLC. *)
EXTENDS FlowOrchestrator, TLC

Always(from, to, max) ==
    [from |-> from, to |-> to, maxCycles |-> max, conditional |-> FALSE]
If(from, to, max) ==
    [from |-> from, to |-> to, maxCycles |-> max, conditional |-> TRUE]

\* A draft and its review, which may send the draft back.
LoopNodes == {"draft", "review"}
LoopEdges == <<Always("draft", "review", 2), If("review", "draft", 1)>>

\* Two branches, one of which forks again; branches may meet at "c".
NestedNodes == {"a", "b", "c", "d"}
NestedEdges == <<If("a", "b", 1), If("a", "c", 1),
                 Always("b", "d", 1), If("b", "c", 1)>>

\* Two branches side by side.
ForkNodes == {"a", "b", "c"}
ForkEdges == <<Always("a", "b", 1), Always("a", "c", 1)>>

\* An approval, then two branches that meet again.
ApprovalNodes == {"a", "b", "c", "d"}
MeetingEdges == <<If("a", "b", 1), Always("a", "c", 1), Always("b", "c", 1),
                  Always("c", "d", 1)>>

\* Requests are alike.
Alike == Permutations(Requests)

TwoRetries  == [n \in Nodes |-> 2]
NoFailures  == {}
ReviewFails  == {<<"review", "script">>, <<"draft", "input">>}
NestedFails  == {<<"c", "script">>}
=============================================================================
