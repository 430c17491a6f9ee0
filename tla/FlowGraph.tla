------------------------------ MODULE FlowGraph ------------------------------
(***************************************************************************)
(* Building, validating and layering a flow graph                          *)
(* (internal/core/graph.go), whether it is built with the methods of       *)
(* FlowGraph or filled with what the database holds (loadFlowGraph of      *)
(* internal/adi/handler.go, which checks nothing).                         *)
(*                                                                         *)
(* Validate and TopologicalLayers are loops under the read lock: each      *)
(* round of a loop is a step, and methods that take the write lock wait    *)
(* for the end.  SetEntryNode writes under the read lock, so it does not.  *)
(* Nothing here depends on the order of the edges, which are a map from    *)
(* the pointers the code keeps in a slice, nor on the order in which       *)
(* Validate's queue and Go's maps are walked: any order is explored.       *)
(***************************************************************************)
EXTENDS Integers, Sequences, FiniteSets

CONSTANTS
    NodeIds,    \* ids of nodes
    NoNode,     \* the empty id
    CycleArgs,  \* values of the max_cycles argument
    EdgeIds,    \* pointers to edges; a graph has no more edges
    Stored      \* the edges a stored flow may have

EdgeSet == [from : NodeIds, to : NodeIds, maxCycles : Int, feedback : BOOLEAN]

ASSUME GraphAssumption ==
    /\ NoNode \notin NodeIds
    /\ CycleArgs \subseteq Int
    /\ Stored \subseteq EdgeSet
    /\ IsFiniteSet(EdgeIds)

VARIABLES
    nodes,
    edges,
    entry,
    stored,     \* was the graph filled from the database?
    pc,         \* the loop under way, or the outcome of the last one
    start,      \* Validate: the entry node it has read
    visited,    \* Validate: nodes found
    queue,      \* Validate: nodes found whose edges are still to be followed
    inDegree,   \* TopologicalLayers: edges into each remaining node
    layers      \* TopologicalLayers: the layers so far

graph  == <<nodes, edges, stored>>
search == <<start, visited, queue>>
sort   == <<inDegree, layers>>
vars   == <<graph, entry, pc, search, sort>>

PCs == {"idle", "search", "valid", "invalid", "layers", "layered", "cyclic"}

\* No loop holds the read lock.
Unlocked == pc \notin {"search", "layers"}

NoDegrees == [n \in {} |-> 0]
NoEdges   == [id \in {} |-> 0]

\* No result of an earlier call is left.
Fresh ==
    /\ pc' = "idle"
    /\ start' = NoNode /\ visited' = {} /\ queue' = {}
    /\ inDegree' = NoDegrees /\ layers' = << >>

----------------------------------------------------------------------------
Init ==
    /\ nodes = {}
    /\ edges = NoEdges
    /\ entry = NoNode
    /\ stored = FALSE
    /\ pc = "idle"
    /\ start = NoNode /\ visited = {} /\ queue = {}
    /\ inDegree = NoDegrees /\ layers = << >>

(* Building *)

AddNode(n) ==
    /\ Unlocked /\ ~stored
    /\ n \notin nodes
    /\ nodes' = nodes \union {n}
    /\ Fresh
    /\ UNCHANGED <<edges, entry, stored>>

Keep(ids) == [i \in ids |-> edges[i]]

\* Mutant: the edges that lead to the node stay.
RemoveNodeKeepsIncoming(n) ==
    /\ Unlocked /\ ~stored
    /\ n \in nodes
    /\ nodes' = nodes \ {n}
    /\ edges' = Keep({i \in DOMAIN edges : edges[i].from # n})
    /\ entry' = IF entry = n THEN NoNode ELSE entry
    /\ Fresh
    /\ UNCHANGED stored

\* A node goes with its edges, and with its role as the entry.
RemoveNode(n) ==
    /\ Unlocked /\ ~stored
    /\ n \in nodes
    /\ nodes' = nodes \ {n}
    /\ edges' = Keep({i \in DOMAIN edges : edges[i].from # n /\ edges[i].to # n})
    /\ entry' = IF entry = n THEN NoNode ELSE entry
    /\ Fresh
    /\ UNCHANGED stored

Connect(from, to, max, isFeedback) ==
    /\ Unlocked /\ ~stored
    /\ from \in nodes /\ to \in nodes
    /\ \E id \in EdgeIds \ DOMAIN edges :
          edges' = [i \in DOMAIN edges \union {id} |->
                       IF i = id THEN [from |-> from, to |-> to, maxCycles |-> max,
                                       feedback |-> isFeedback]
                                 ELSE edges[i]]
    /\ Fresh
    /\ UNCHANGED <<nodes, entry, stored>>

AddEdge(from, to) == Connect(from, to, 3, FALSE)

AddFeedbackEdge(from, to, max) ==
    Connect(from, to, IF max <= 0 THEN 3 ELSE max, TRUE)

\* Not excluded by a loop that holds the read lock.
SetEntryNode(n) ==
    /\ ~stored
    /\ n \in nodes
    /\ entry' = n
    /\ UNCHANGED <<graph, pc, search, sort>>

\* loadFlowGraph: the nodes still linked to the flow, and its edges and entry as
\* they were stored.
Load ==
    /\ Unlocked /\ ~stored
    /\ nodes = {} /\ edges = NoEdges
    /\ nodes' \in SUBSET NodeIds
    /\ edges' \in UNION {[ids -> Stored] : ids \in SUBSET EdgeIds}
    /\ entry' \in NodeIds
    /\ stored' = TRUE
    /\ Fresh

----------------------------------------------------------------------------
(* Validate and findReachable *)

Intact == \A i \in DOMAIN edges : edges[i].from \in nodes /\ edges[i].to \in nodes

\* The checks before the search; the first that fails ends the call.
ValidateBegin ==
    /\ Unlocked
    /\ start' = entry
    /\ IF nodes # {} /\ entry \in nodes /\ Intact
       THEN pc' = "search" /\ visited' = {entry} /\ queue' = {entry}
       ELSE pc' = "invalid" /\ visited' = {} /\ queue' = {}
    /\ inDegree' = NoDegrees /\ layers' = << >>
    /\ UNCHANGED <<graph, entry>>

\* Mutant: feedback edges are not followed.
TargetsForward(n) == {edges[i].to : i \in {j \in DOMAIN edges : edges[j].from = n /\ ~edges[j].feedback}}

\* The nodes that edges from n lead to.
Targets(n) == {edges[i].to : i \in {j \in DOMAIN edges : edges[j].from = n}}

SearchStep(current) ==
    /\ pc = "search"
    /\ current \in queue
    /\ visited' = visited \union Targets(current)
    /\ queue' = (queue \ {current}) \union (Targets(current) \ visited)
    /\ UNCHANGED <<graph, entry, pc, start, sort>>

ValidateEnd ==
    /\ pc = "search"
    /\ queue = {}
    /\ pc' = IF nodes \subseteq visited THEN "valid" ELSE "invalid"
    /\ UNCHANGED <<graph, entry, search, sort>>

----------------------------------------------------------------------------
(* TopologicalLayers *)

\* The edges that count: those that are not feedback edges.
Forward == {i \in DOMAIN edges : ~edges[i].feedback}

\* Mutant: feedback edges are counted too.
IncomingAny(n, sources) ==
    Cardinality({i \in DOMAIN edges : edges[i].to = n /\ edges[i].from \in sources})

\* How many of them lead from one of the sources to n.
Incoming(n, sources) ==
    Cardinality({i \in Forward : edges[i].to = n /\ edges[i].from \in sources})

\* A target that is no node of the graph gets a degree, too.
LayersBegin ==
    /\ Unlocked
    /\ pc' = "layers"
    /\ inDegree' = [n \in nodes \union {edges[i].to : i \in Forward} |-> Incoming(n, NodeIds)]
    /\ layers' = << >>
    /\ start' = NoNode /\ visited' = {} /\ queue' = {}
    /\ UNCHANGED <<graph, entry>>

\* Mutant: nodes that wait for one more edge are taken as well.
LayerEarly == {n \in DOMAIN inDegree : inDegree[n] <= 1}

\* The nodes no remaining node leads to.
Layer == {n \in DOMAIN inDegree : inDegree[n] = 0}

\* Mutant: feedback edges are taken off their targets, too.
LayerStepAny ==
    /\ pc = "layers"
    /\ Layer # {}
    /\ layers' = Append(layers, Layer)
    /\ inDegree' = [n \in DOMAIN inDegree \ Layer |->
                       inDegree[n] - IncomingAny(n, Layer)]
    /\ UNCHANGED <<graph, entry, pc, search>>

\* They leave the map, and the edges from them are taken off their targets, which
\* are still there (KeysStayDeleted: else the code would make them a new key).
LayerStep ==
    /\ pc = "layers"
    /\ Layer # {}
    /\ layers' = Append(layers, Layer)
    /\ inDegree' = [n \in DOMAIN inDegree \ Layer |->
                       inDegree[n] - Incoming(n, Layer)]
    /\ UNCHANGED <<graph, entry, pc, search>>

LayersEnd ==
    /\ pc = "layers"
    /\ Layer = {}
    /\ pc' = IF DOMAIN inDegree = {} THEN "layered" ELSE "cyclic"
    /\ UNCHANGED <<graph, entry, search, sort>>

Next ==
    \/ \E n \in NodeIds : AddNode(n) \/ RemoveNode(n) \/ SetEntryNode(n)
    \/ \E from, to \in NodeIds : AddEdge(from, to)
    \/ \E from, to \in NodeIds, max \in CycleArgs : AddFeedbackEdge(from, to, max)
    \/ Load
    \/ ValidateBegin \/ ValidateEnd
    \/ \E n \in NodeIds : SearchStep(n)
    \/ LayersBegin \/ LayerStep \/ LayersEnd

Spec == Init /\ [][Next]_vars

----------------------------------------------------------------------------
(* What a graph promises *)

\* Every variable holds values of its type; no degree is below zero.
TypeOK ==
    /\ nodes \subseteq NodeIds
    /\ DOMAIN edges \subseteq EdgeIds
    /\ edges \in [DOMAIN edges -> EdgeSet]
    /\ entry \in NodeIds \union {NoNode}
    /\ stored \in BOOLEAN
    /\ pc \in PCs
    /\ start \in NodeIds \union {NoNode}
    /\ visited \subseteq NodeIds
    /\ queue \subseteq NodeIds
    /\ DOMAIN inDegree \subseteq NodeIds
    /\ \A n \in DOMAIN inDegree : inDegree[n] \in Nat
    /\ layers \in Seq(SUBSET NodeIds)

\* In a graph that is built with the methods of FlowGraph, in whatever order, no
\* edge ever dangles, the entry is a node or none, and every edge may be followed.
BuiltIntact ==
    ~stored => /\ Intact
               /\ entry \in nodes \union {NoNode}
               /\ \A i \in DOMAIN edges : edges[i].maxCycles > 0

\* What reachable means: in every set that holds n and the targets of its members.
Closed(S) == \A i \in DOMAIN edges : edges[i].from \in S => edges[i].to \in S
ReachableFrom(n) == {m \in NodeIds : \A S \in SUBSET NodeIds : n \in S /\ Closed(S) => m \in S}

\* What Validate is to accept, given the entry node it has read.
WellFormed(from) == nodes # {} /\ from \in nodes /\ Intact /\ nodes \subseteq ReachableFrom(from)

\* Validate accepts the graphs that are well formed, and no others.
ValidateIsExact ==
    /\ pc = "valid" => WellFormed(start)
    /\ pc = "invalid" => ~WellFormed(start)

\* A set of nodes each of which has an edge from the set: a cycle that does not go
\* through a feedback edge, and what can only be reached from it.
Knot(S) == S # {} /\ \A n \in S : \E i \in Forward : edges[i].to = n /\ edges[i].from \in S

\* TopologicalLayers fails if, and only if, the graph has a cycle without feedback
\* edges (graph.go:349), provided that no edge dangles; otherwise every node is in a
\* layer.
CyclicIsExact ==
    Intact => /\ pc = "cyclic" => Knot(DOMAIN inDegree)
              /\ pc = "layered" => \A S \in SUBSET nodes : ~Knot(S)
              /\ pc = "layered" => nodes \subseteq UNION {layers[k] : k \in DOMAIN layers}

\* Nodes of a layer can run in parallel, and no sooner: all edges into a layer come
\* from earlier ones, and each node but those of the first layer has an edge from
\* the layer before.
LayersRespectEdges ==
    Intact => \A k \in DOMAIN layers : \A n \in layers[k] :
        /\ n \in nodes
        /\ \A j \in DOMAIN layers : n \in layers[j] => j = k
        /\ \A i \in Forward : edges[i].to = n =>
               \E j \in DOMAIN layers : j < k /\ edges[i].from \in layers[j]
        /\ k > 1 => \E i \in Forward : edges[i].to = n /\ edges[i].from \in layers[k - 1]

\* A key that was deleted from the map of degrees is not made again by a decrement,
\* even if edges dangle: no edge leads from a layer to it or to an earlier one.
KeysStayDeleted ==
    pc = "layers" => \A i \in Forward :
        edges[i].from \in Layer => edges[i].to \in DOMAIN inDegree \ Layer
=============================================================================
