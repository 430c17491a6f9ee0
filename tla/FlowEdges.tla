----------------------------- MODULE FlowEdges -----------------------------
(***************************************************************************)
(* The edges of a flow graph and how a run follows them                    *)
(* (internal/core/graph.go: Edge, GetNextNodes, GetEdge).  The edges are a *)
(* sequence, as in the code: where two edges join the same pair of nodes,  *)
(* their order decides.  What a node's script returned is abstracted to    *)
(* "holds", the set of conditional edges whose condition it satisfies.     *)
(***************************************************************************)
EXTENDS Integers, Sequences

EdgeSet(nodes, maxCycles) ==
    [from : nodes, to : nodes, maxCycles : maxCycles, conditional : BOOLEAN]

\* An edge is followed if it has no condition or if its condition holds.
Followed(edges, i, node, holds) ==
    edges[i].from = node /\ (edges[i].conditional => i \in holds)

\* The conditional edges that leave a node.
ConditionalFrom(edges, node) ==
    {i \in DOMAIN edges : edges[i].from = node /\ edges[i].conditional}

\* The edges followed from node.  The code lists the target of each, in the order
\* of the edges; an edge is named by its place in that order.
GetNextNodes(edges, node, holds) == {i \in DOMAIN edges : Followed(edges, i, node, holds)}

\* The first edge between two nodes; the caller has seen that there is one.
GetEdge(edges, from, to) ==
    LET between == {i \in DOMAIN edges : edges[i].from = from /\ edges[i].to = to}
    IN  edges[CHOOSE i \in between : \A j \in between : i <= j]
=============================================================================
