-------------------------- MODULE FlowGraph_proofs --------------------------
(***************************************************************************)
(* Proofs about flow graphs of any size: building keeps them intact,       *)
(* Validate and TopologicalLayers are exact.                               *)
(***************************************************************************)
EXTENDS FlowGraph, FiniteSetTheorems, TLAPS

----------------------------------------------------------------------------
(* Building *)

\* The types of what describes the graph, and of Validate's variables.
GraphTyped ==
    /\ nodes \subseteq NodeIds
    /\ DOMAIN edges \subseteq EdgeIds
    /\ edges \in [DOMAIN edges -> EdgeSet]
    /\ entry \in NodeIds \union {NoNode}
    /\ stored \in BOOLEAN
    /\ pc \in PCs
    /\ start \in NodeIds \union {NoNode}
    /\ visited \subseteq NodeIds
    /\ queue \subseteq NodeIds

\* What the edges of a typed graph are.
LEMMA EdgeTyped ==
  ASSUME GraphTyped, NEW i \in DOMAIN edges
  PROVE  edges[i].from \in NodeIds /\ edges[i].to \in NodeIds /\ edges[i].maxCycles \in Int
  BY DEF GraphTyped, EdgeSet

\* An edge that is added.
LEMMA ConnectTyped ==
  ASSUME GraphTyped, NEW from \in NodeIds, NEW to \in NodeIds, NEW max \in Int,
         NEW isFeedback \in BOOLEAN, Connect(from, to, max, isFeedback)
  PROVE  GraphTyped'
<1> DEFINE e == [from |-> from, to |-> to, maxCycles |-> max, feedback |-> isFeedback]
<1>1. e \in EdgeSet
  BY DEF EdgeSet
<1>2. PICK id \in EdgeIds \ DOMAIN edges :
        edges' = [i \in DOMAIN edges \union {id} |-> IF i = id THEN e ELSE edges[i]]
  BY DEF Connect
<1> HIDE DEF e
<1>3. DOMAIN edges' \subseteq EdgeIds /\ edges' \in [DOMAIN edges' -> EdgeSet]
  BY <1>1, <1>2 DEF GraphTyped
<1> QED
  BY <1>3 DEF GraphTyped, Connect, Fresh, PCs

LEMMA GraphTypedStep == GraphTyped /\ [Next]_vars => GraphTyped'
<1> SUFFICES ASSUME GraphTyped, [Next]_vars PROVE GraphTyped'
  OBVIOUS
<1>1. ASSUME NEW n \in NodeIds, AddNode(n) PROVE GraphTyped'
  BY <1>1 DEF GraphTyped, AddNode, Fresh, PCs
<1>2. ASSUME NEW n \in NodeIds, RemoveNode(n) PROVE GraphTyped'
  <2>1. DOMAIN edges' \subseteq EdgeIds /\ edges' \in [DOMAIN edges' -> EdgeSet]
    BY <1>2 DEF RemoveNode, Keep, GraphTyped
  <2> QED
    BY <1>2, <2>1 DEF GraphTyped, RemoveNode, Fresh, PCs
<1>3. ASSUME NEW n \in NodeIds, SetEntryNode(n) PROVE GraphTyped'
  BY <1>3 DEF GraphTyped, SetEntryNode, graph, search, sort
<1>4. ASSUME NEW from \in NodeIds, NEW to \in NodeIds, AddEdge(from, to) PROVE GraphTyped'
  <2>1. Connect(from, to, 3, FALSE)
    BY <1>4 DEF AddEdge
  <2>2. 3 \in Int /\ FALSE \in BOOLEAN
    OBVIOUS
  <2> QED
    BY <2>1, <2>2, ConnectTyped, Zenon
<1>5. ASSUME NEW from \in NodeIds, NEW to \in NodeIds, NEW max \in CycleArgs,
             AddFeedbackEdge(from, to, max)
      PROVE  GraphTyped'
  <2>1. (IF max <= 0 THEN 3 ELSE max) \in Int
    BY GraphAssumption
  <2>2. Connect(from, to, IF max <= 0 THEN 3 ELSE max, TRUE)
    BY <1>5 DEF AddFeedbackEdge
  <2>3. TRUE \in BOOLEAN
    OBVIOUS
  <2> QED
    BY <2>1, <2>2, <2>3, ConnectTyped, Zenon
<1>6. CASE Load
  <2>1. DOMAIN edges' \subseteq EdgeIds /\ edges' \in [DOMAIN edges' -> EdgeSet]
    BY <1>6, GraphAssumption DEF Load
  <2>2. stored' \in BOOLEAN
    BY ONLY <1>6 DEF Load
  <2> QED
    BY <1>6, <2>1, <2>2 DEF Load, GraphTyped, Fresh, PCs
<1>7. CASE ValidateBegin
  BY <1>7 DEF ValidateBegin, GraphTyped, graph, PCs
<1>8. CASE ValidateEnd
  BY <1>8 DEF ValidateEnd, GraphTyped, graph, search, sort, PCs
<1>9. ASSUME NEW n \in NodeIds, SearchStep(n) PROVE GraphTyped'
  <2>1. Targets(n) \subseteq NodeIds
    BY EdgeTyped DEF Targets
  <2> QED
    BY <1>9, <2>1 DEF SearchStep, GraphTyped, graph, sort, PCs
<1>10. CASE LayersBegin
  BY <1>10 DEF LayersBegin, GraphTyped, graph, PCs
<1>11. CASE LayerStep
  BY <1>11 DEF LayerStep, GraphTyped, graph, search
<1>12. CASE LayersEnd
  BY <1>12 DEF LayersEnd, GraphTyped, graph, search, sort, PCs
<1>13. CASE UNCHANGED vars
  BY <1>13 DEF vars, graph, search, sort, GraphTyped
<1> QED
  BY <1>1, <1>2, <1>3, <1>4, <1>5, <1>6, <1>7, <1>8, <1>9, <1>10, <1>11, <1>12, <1>13 DEF Next

LEMMA GraphTyping == Spec => []GraphTyped
<1>1. Init => GraphTyped
  BY DEF Init, GraphTyped, NoEdges, PCs
<1> QED
  BY <1>1, GraphTypedStep, PTL DEF Spec

\* Every step keeps a graph intact that was built with the methods of FlowGraph.
LEMMA BuiltStep == GraphTyped /\ BuiltIntact /\ [Next]_vars => BuiltIntact'
<1> SUFFICES ASSUME GraphTyped, BuiltIntact, [Next]_vars PROVE BuiltIntact'
  OBVIOUS
<1> USE DEF BuiltIntact, Intact
<1>1. ASSUME NEW n \in NodeIds, AddNode(n) PROVE BuiltIntact'
  BY <1>1 DEF AddNode
<1>2. ASSUME NEW n \in NodeIds, RemoveNode(n) PROVE BuiltIntact'
  BY <1>2 DEF RemoveNode, Keep
<1>3. ASSUME NEW n \in NodeIds, SetEntryNode(n) PROVE BuiltIntact'
  BY <1>3 DEF SetEntryNode, graph
<1>4. ASSUME NEW from, NEW to, NEW max \in Int, max > 0, NEW isFeedback,
             Connect(from, to, max, isFeedback)
      PROVE  BuiltIntact'
  BY <1>4 DEF Connect
<1>5. ASSUME NEW from, NEW to, AddEdge(from, to) PROVE BuiltIntact'
  <2>1. Connect(from, to, 3, FALSE)
    BY <1>5 DEF AddEdge
  <2>2. 3 \in Int /\ 3 > 0
    OBVIOUS
  <2> QED
    BY <1>4, <2>1, <2>2, Zenon
<1>6. ASSUME NEW from, NEW to, NEW max \in CycleArgs, AddFeedbackEdge(from, to, max)
      PROVE  BuiltIntact'
  <2> DEFINE limit == IF max <= 0 THEN 3 ELSE max
  <2>1. Connect(from, to, limit, TRUE)
    BY <1>6 DEF AddFeedbackEdge
  <2>2. limit \in Int /\ limit > 0
    BY GraphAssumption
  <2> HIDE DEF limit
  <2> QED
    BY <1>4, <2>1, <2>2, Zenon
<1>7. CASE Load
  BY <1>7 DEF Load
<1>8. CASE UNCHANGED <<graph, entry>>
  BY <1>8 DEF graph
<1>9. ASSUME NEW n \in NodeIds, SearchStep(n) PROVE BuiltIntact'
  BY <1>9, <1>8 DEF SearchStep
<1> QED
  BY <1>1, <1>2, <1>3, <1>5, <1>6, <1>7, <1>8, <1>9
     DEF Next, ValidateBegin, ValidateEnd, LayersBegin, LayerStep, LayersEnd, vars

\* A graph that is built with the methods of FlowGraph never has a dangling edge, an
\* entry that is not its node, or an edge that may not be followed.
THEOREM BuiltStaysIntact == Spec => []BuiltIntact
<1>1. Init => BuiltIntact
  BY DEF Init, BuiltIntact, Intact, NoEdges
<1> QED
  BY <1>1, BuiltStep, GraphTyping, PTL DEF Spec

----------------------------------------------------------------------------
(* Validate *)

\* The search: what it has found can be reached, and what it has followed leads
\* nowhere else.
Searching ==
    /\ nodes # {} /\ start \in nodes /\ Intact
    /\ start \in visited
    /\ queue \subseteq visited
    /\ \A i \in DOMAIN edges : edges[i].from \in visited \ queue => edges[i].to \in visited
    /\ \A S \in SUBSET NodeIds : start \in S /\ Closed(S) => visited \subseteq S

SearchInv ==
    /\ pc = "search"  => Searching
    /\ pc = "valid"   => Searching /\ nodes \subseteq visited
    /\ pc = "invalid" => ~WellFormed(start)

\* Where the search has ended, what it found is what can be reached.
LEMMA FoundIsReachable ==
  ASSUME GraphTyped, Searching
  PROVE  /\ visited \subseteq ReachableFrom(start)
         /\ queue = {} => ReachableFrom(start) \subseteq visited
<1>1. visited \subseteq ReachableFrom(start)
  BY DEF Searching, ReachableFrom, GraphTyped
<1>2. ASSUME queue = {} PROVE ReachableFrom(start) \subseteq visited
  <2>1. Closed(visited)
    BY <1>2 DEF Searching, Closed
  <2>2. visited \in SUBSET NodeIds /\ start \in visited
    BY DEF GraphTyped, Searching
  <2> QED
    BY <2>1, <2>2 DEF ReachableFrom
<1> QED
  BY <1>1, <1>2

\* Steps of which Validate takes no notice.
LEMMA SearchUntouched ==
  ASSUME SearchInv, UNCHANGED <<nodes, edges, pc, search>> PROVE SearchInv'
BY DEF SearchInv, Searching, WellFormed, ReachableFrom, Closed, Intact, search

LEMMA SearchStepKeeps ==
  ASSUME GraphTyped, SearchInv, NEW n \in NodeIds, SearchStep(n) PROVE SearchInv'
<1> USE DEF SearchStep, graph
<1>1. Searching /\ pc = "search" /\ pc' = "search" /\ n \in queue
  BY DEF SearchInv
<1>2. Searching'
  <2>1. (nodes # {} /\ start \in nodes /\ Intact)'
    BY <1>1 DEF Searching, Intact
  <2>2. (start \in visited /\ queue \subseteq visited)'
    BY <1>1 DEF Searching
  <2>3. ASSUME NEW i \in DOMAIN edges, edges[i].from \in visited' \ queue'
        PROVE  edges[i].to \in visited'
    <3>1. CASE edges[i].from = n
      BY <3>1 DEF Targets
    <3>2. CASE edges[i].from # n
      <4>1. edges[i].from \in visited \ queue
        BY <2>3, <3>2
      <4> QED
        BY <4>1, <1>1 DEF Searching
    <3> QED
      BY <3>1, <3>2
  <2>4. ASSUME NEW S \in SUBSET NodeIds, start \in S, Closed(S)
        PROVE  visited' \subseteq S
    <3>1. visited \subseteq S
      BY <1>1, <2>4 DEF Searching
    <3>2. Targets(n) \subseteq S
      BY <1>1, <2>4, <3>1 DEF Searching, Targets, Closed
    <3> QED
      BY <3>1, <3>2
  <2> QED
    BY <2>1, <2>2, <2>3, <2>4 DEF Searching, Closed
<1> QED
  BY <1>1, <1>2 DEF SearchInv

LEMMA SearchInvStep == GraphTyped /\ SearchInv /\ [Next]_vars => SearchInv'
<1> SUFFICES ASSUME GraphTyped, SearchInv, [Next]_vars PROVE SearchInv'
  OBVIOUS
<1>1. CASE pc' \in {"idle", "layers", "layered", "cyclic"}
  BY <1>1 DEF SearchInv
<1>2. ASSUME NEW n \in NodeIds, AddNode(n) \/ RemoveNode(n) PROVE SearchInv'
  BY <1>1, <1>2 DEF AddNode, RemoveNode, Fresh
<1>3. ASSUME NEW n \in NodeIds, SetEntryNode(n) PROVE SearchInv'
  BY <1>3, SearchUntouched DEF SetEntryNode, graph
<1>4. ASSUME NEW from, NEW to, NEW max, NEW isFeedback, Connect(from, to, max, isFeedback)
      PROVE  SearchInv'
  BY <1>1, <1>4 DEF Connect, Fresh
<1>5. CASE Load
  BY <1>1, <1>5 DEF Load, Fresh
<1>6. CASE ValidateBegin
  <2>1. CASE nodes # {} /\ entry \in nodes /\ Intact
    BY <1>6, <2>1
       DEF ValidateBegin, SearchInv, Searching, Intact, Closed, graph
  <2>2. CASE ~(nodes # {} /\ entry \in nodes /\ Intact)
    <3>1. pc' = "invalid" /\ start' = entry
      BY <1>6, <2>2 DEF ValidateBegin
    <3>2. ~WellFormed(start)'
      BY <1>6, <2>2, <3>1 DEF ValidateBegin, WellFormed, Intact, graph
    <3> QED
      BY <3>1, <3>2 DEF SearchInv
  <2> QED
    BY <2>1, <2>2
<1>7. ASSUME NEW n \in NodeIds, SearchStep(n) PROVE SearchInv'
  BY <1>7, SearchStepKeeps
<1>8. CASE ValidateEnd
  <2>1. Searching /\ queue = {}
    BY <1>8 DEF ValidateEnd, SearchInv
  <2>2. UNCHANGED <<nodes, edges, start, visited, queue>>
    BY <1>8 DEF ValidateEnd, graph, search
  <2>3. CASE nodes \subseteq visited
    <3>1. pc' = "valid"
      BY <1>8, <2>3 DEF ValidateEnd
    <3> QED
      BY <2>1, <2>2, <2>3, <3>1 DEF SearchInv, Searching, Intact, Closed
  <2>4. CASE ~(nodes \subseteq visited)
    <3>1. pc' = "invalid"
      BY <1>8, <2>4 DEF ValidateEnd
    <3>2. ~WellFormed(start)
      BY <2>1, <2>4, FoundIsReachable DEF WellFormed
    <3> QED
      BY <2>2, <3>1, <3>2 DEF SearchInv, WellFormed, ReachableFrom, Closed, Intact
  <2> QED
    BY <2>3, <2>4
<1>9. CASE LayersBegin \/ LayerStep \/ LayersEnd
  BY <1>1, <1>9 DEF LayersBegin, LayerStep, LayersEnd
<1>10. CASE UNCHANGED vars
  BY <1>10, SearchUntouched DEF vars, graph, search
<1> QED
  BY <1>2, <1>3, <1>4, <1>5, <1>6, <1>7, <1>8, <1>9, <1>10
     DEF Next, AddEdge, AddFeedbackEdge

\* Validate accepts a graph if, and only if, it has nodes, the entry node it read is one
\* of them, no edge dangles and every node can be reached from the entry.
THEOREM ValidateAcceptsExactly == Spec => []ValidateIsExact
<1>1. Init => SearchInv
  BY DEF Init, SearchInv
<1>2. GraphTyped /\ SearchInv => ValidateIsExact
  BY FoundIsReachable DEF SearchInv, ValidateIsExact, WellFormed, Searching
<1> QED
  BY <1>1, <1>2, SearchInvStep, GraphTyping, PTL DEF Spec

----------------------------------------------------------------------------
(* Degrees *)

\* The edges that Incoming counts.
Into(n, S) == {i \in Forward : edges[i].to = n /\ edges[i].from \in S}

LEMMA IncomingType ==
  ASSUME GraphTyped, NEW n, NEW S
  PROVE  /\ IsFiniteSet(Into(n, S))
         /\ Incoming(n, S) = Cardinality(Into(n, S))
         /\ Incoming(n, S) \in Nat
<1>1. Into(n, S) \subseteq EdgeIds
  BY DEF Into, Forward, GraphTyped
<1>2. IsFiniteSet(Into(n, S))
  BY <1>1, FS_Subset, GraphAssumption
<1> QED
  BY <1>2, FS_CardinalityType DEF Incoming, Into

\* No edge comes from S exactly if none is counted.
LEMMA IncomingZero ==
  ASSUME GraphTyped, NEW n, NEW S
  PROVE  Incoming(n, S) = 0 <=> \A i \in Forward : edges[i].to = n => edges[i].from \notin S
<1>1. Incoming(n, S) = 0 <=> Into(n, S) = {}
  BY IncomingType, FS_EmptySet
<1> QED
  BY <1>1 DEF Into

\* What comes from a part of S is taken off.
LEMMA IncomingSplit ==
  ASSUME GraphTyped, NEW n, NEW S, NEW L \in SUBSET S
  PROVE  Incoming(n, S \ L) = Incoming(n, S) - Incoming(n, L)
<1>1. /\ Into(n, S) \ Into(n, L) = Into(n, S \ L)
      /\ Into(n, S) \intersect Into(n, L) = Into(n, L)
  BY DEF Into
<1> QED
  <2>1. Cardinality(Into(n, S) \ Into(n, L)) =
          Cardinality(Into(n, S)) - Cardinality(Into(n, S) \intersect Into(n, L))
    BY IncomingType, FS_Difference, Zenon
  <2> QED
    BY <1>1, <2>1, IncomingType, Zenon

----------------------------------------------------------------------------
(* TopologicalLayers *)

Sorting == pc \in {"layers", "layered", "cyclic"}
Placed  == UNION {layers[k] : k \in DOMAIN layers}
Members == nodes \union {edges[i].to : i \in Forward}

\* Every member is placed or has a degree, which counts the edges from what is not placed.
Degrees ==
    /\ DOMAIN inDegree \union Placed = Members
    /\ DOMAIN inDegree \intersect Placed = {}
    /\ \A n \in DOMAIN inDegree : inDegree[n] = Incoming(n, NodeIds \ Placed)

\* No node is placed twice.
PlacedOnce ==
    \A k, j \in DOMAIN layers : \A n \in layers[k] : n \in layers[j] => j = k

\* All edges into a layer come from earlier ones.
Ordered ==
    \A k \in DOMAIN layers : \A n \in layers[k] : \A i \in Forward :
        edges[i].to = n => \E j \in DOMAIN layers : j < k /\ edges[i].from \in layers[j]

\* One of them comes from the layer before.
Prompt ==
    \A k \in DOMAIN layers : \A n \in layers[k] :
        k > 1 => \E i \in Forward : edges[i].to = n /\ edges[i].from \in layers[k - 1]

\* A node whose degree has become zero has an edge from the last layer.
LastLayerFrees ==
    layers # << >> => \A n \in DOMAIN inDegree : inDegree[n] = 0 =>
        \E i \in Forward : edges[i].to = n /\ edges[i].from \in layers[Len(layers)]

\* No node of a cycle is placed.
KnotsUnplaced == \A S \in SUBSET NodeIds : Knot(S) => S \intersect Placed = {}

LayersOk == Degrees /\ PlacedOnce /\ Ordered /\ Prompt /\ LastLayerFrees /\ KnotsUnplaced

LayersInv ==
    /\ layers \in Seq(SUBSET NodeIds)
    /\ ~Sorting => layers = << >> /\ inDegree = NoDegrees
    /\ Sorting => LayersOk
    /\ pc = "layered" => DOMAIN inDegree = {}
    /\ pc = "cyclic" => Layer = {} /\ DOMAIN inDegree # {}

LEMMA MembersAreNodeIds ==
  ASSUME GraphTyped PROVE Members \subseteq NodeIds
BY EdgeTyped DEF Members, Forward, GraphTyped

\* All edges into a member of the next layer come from placed ones.
LEMMA LayerIsFree ==
  ASSUME GraphTyped, Degrees, NEW n \in Layer, NEW i \in Forward, edges[i].to = n
  PROVE  edges[i].from \in Placed
<1>1. Incoming(n, NodeIds \ Placed) = 0
  BY DEF Layer, Degrees
<1>2. edges[i].from \notin NodeIds \ Placed
  BY <1>1, IncomingZero
<1>3. edges[i].from \in NodeIds
  BY EdgeTyped DEF Forward
<1> QED
  BY <1>2, <1>3

\* What changes neither the graph nor the layers.
LEMMA LayersUntouched ==
  ASSUME LayersOk, UNCHANGED <<nodes, edges, inDegree, layers>> PROVE LayersOk'
<1>1. /\ Forward' = Forward /\ Placed' = Placed /\ Members' = Members
      /\ nodes' = nodes /\ edges' = edges /\ inDegree' = inDegree /\ layers' = layers
  BY DEF Forward, Placed, Members
<1>2. \A n, S : Incoming(n, S)' = Incoming(n, S)
  BY <1>1 DEF Incoming
<1>3. Degrees'
  BY <1>1, <1>2 DEF LayersOk, Degrees
<1>4. PlacedOnce' /\ Ordered' /\ Prompt'
  BY <1>1 DEF LayersOk, PlacedOnce, Ordered, Prompt
<1>5. LastLayerFrees'
  BY <1>1 DEF LayersOk, LastLayerFrees
<1>6. KnotsUnplaced'
  BY <1>1 DEF LayersOk, KnotsUnplaced, Knot
<1> QED
  BY <1>3, <1>4, <1>5, <1>6 DEF LayersOk

\* Nor what loop is under way.
LEMMA LayersInvUntouched ==
  ASSUME LayersInv, UNCHANGED <<nodes, edges, pc, sort>> PROVE LayersInv'
<1>1. pc' = pc /\ layers' = layers /\ inDegree' = inDegree /\ (Sorting => LayersOk')
  BY LayersUntouched DEF LayersInv, sort
<1> QED
  BY <1>1 DEF LayersInv, Sorting, Layer

LEMMA LayersBeginOk ==
  ASSUME GraphTyped, LayersInv, LayersBegin PROVE LayersInv'
<1> USE DEF LayersBegin, graph
<1>1. pc' = "layers" /\ layers' = << >> /\ nodes' = nodes /\ edges' = edges
  OBVIOUS
<1>2. Placed' = {}
  BY <1>1 DEF Placed
<1>3. Members' = Members /\ Forward' = Forward
  BY <1>1 DEF Members, Forward
<1>4. \A n, S : Incoming(n, S)' = Incoming(n, S)
  BY <1>1, <1>3 DEF Incoming
<1>5. inDegree' = [n \in Members |-> Incoming(n, NodeIds)]
  BY DEF Members
<1>6. Degrees'
  <2>1. NodeIds \ Placed' = NodeIds
    BY <1>2
  <2> QED
    BY <1>2, <1>3, <1>4, <1>5, <2>1 DEF Degrees
<1>7. PlacedOnce' /\ Ordered' /\ Prompt' /\ LastLayerFrees' /\ KnotsUnplaced'
  BY <1>1, <1>2 DEF PlacedOnce, Ordered, Prompt, LastLayerFrees, KnotsUnplaced
<1> QED
  BY <1>1, <1>6, <1>7 DEF LayersInv, LayersOk, Sorting

LEMMA LayerStepOk ==
  ASSUME GraphTyped, LayersInv, LayerStep PROVE LayersInv'
<1> DEFINE L == Layer
<1>1. /\ pc = "layers" /\ pc' = "layers" /\ nodes' = nodes /\ edges' = edges
      /\ L # {} /\ layers' = Append(layers, L)
      /\ inDegree' = [n \in DOMAIN inDegree \ L |-> inDegree[n] - Incoming(n, L)]
  BY DEF LayerStep, graph
<1>2. /\ Degrees /\ PlacedOnce /\ Ordered /\ Prompt /\ LastLayerFrees /\ KnotsUnplaced
      /\ layers \in Seq(SUBSET NodeIds)
  BY <1>1 DEF LayersInv, LayersOk, Sorting
<1>3. L \subseteq DOMAIN inDegree /\ L \subseteq NodeIds \ Placed /\ L \in SUBSET NodeIds
  BY <1>2, MembersAreNodeIds DEF Layer, Degrees
<1>4. \A n \in L, i \in Forward : edges[i].to = n => edges[i].from \in Placed
  BY <1>2, LayerIsFree
<1>5. Members' = Members /\ Forward' = Forward /\ \A n, S : Incoming(n, S)' = Incoming(n, S)
  BY <1>1 DEF Members, Forward, Incoming
<1> HIDE DEF L
<1>6. /\ layers' \in Seq(SUBSET NodeIds)
      /\ Len(layers) \in Nat /\ Len(layers') = Len(layers) + 1
      /\ DOMAIN layers = 1 .. Len(layers)
      /\ DOMAIN layers' = 1 .. Len(layers) + 1
      /\ \A k \in 1 .. Len(layers) : layers'[k] = layers[k]
      /\ layers'[Len(layers) + 1] = L
  BY <1>1, <1>2, <1>3
<1>7. Placed' = Placed \union L
  <2>1. Placed' \subseteq Placed \union L
    BY <1>6 DEF Placed
  <2>2. Placed \subseteq Placed'
    BY <1>6 DEF Placed
  <2>3. L \subseteq Placed'
    BY <1>6 DEF Placed
  <2> QED
    BY <2>1, <2>2, <2>3
<1>8. Degrees'
  <2>1. DOMAIN inDegree' = DOMAIN inDegree \ L
    BY <1>1
  <2>2. ASSUME NEW n \in DOMAIN inDegree \ L
        PROVE  inDegree'[n] = Incoming(n, NodeIds \ Placed')
    <3>1. inDegree'[n] = Incoming(n, NodeIds \ Placed) - Incoming(n, L)
      BY <1>1, <1>2 DEF Degrees
    <3>2. Incoming(n, (NodeIds \ Placed) \ L) = Incoming(n, NodeIds \ Placed) - Incoming(n, L)
      BY <1>3, IncomingSplit
    <3>3. (NodeIds \ Placed) \ L = NodeIds \ Placed'
      BY <1>7
    <3> QED
      BY <3>1, <3>2, <3>3
  <2>3. (DOMAIN inDegree \ L) \union Placed' = Members
    BY <1>2, <1>3, <1>7 DEF Degrees
  <2>4. (DOMAIN inDegree \ L) \intersect Placed' = {}
    BY <1>2, <1>7 DEF Degrees
  <2> QED
    BY <1>5, <2>1, <2>2, <2>3, <2>4 DEF Degrees
<1>9. \A k \in 1 .. Len(layers) : \A n \in layers[k] : n \in Placed /\ n \notin L
  BY <1>3, <1>6 DEF Placed
<1>10. PlacedOnce'
  <2> SUFFICES ASSUME NEW k \in 1 .. Len(layers) + 1, NEW j \in 1 .. Len(layers) + 1,
                      NEW n \in layers'[k], n \in layers'[j]
               PROVE  j = k
    BY <1>6 DEF PlacedOnce
  <2>1. CASE k \in 1 .. Len(layers) /\ j \in 1 .. Len(layers)
    BY <1>2, <1>6, <2>1 DEF PlacedOnce
  <2>2. CASE k = Len(layers) + 1 \/ j = Len(layers) + 1
    BY <1>6, <1>9, <2>2
  <2> QED
    BY <1>6, <2>1, <2>2
<1>11. Ordered'
  <2> SUFFICES ASSUME NEW k \in 1 .. Len(layers) + 1, NEW n \in layers'[k],
                      NEW i \in Forward, edges[i].to = n
               PROVE  \E j \in 1 .. Len(layers) + 1 : j < k /\ edges[i].from \in layers'[j]
    BY <1>1, <1>5, <1>6 DEF Ordered
  <2>1. CASE k \in 1 .. Len(layers)
    <3>1. PICK j \in 1 .. Len(layers) : j < k /\ edges[i].from \in layers[j]
      BY <1>2, <1>6, <2>1 DEF Ordered
    <3> QED
      BY <3>1, <1>6
  <2>2. CASE k = Len(layers) + 1
    <3>1. PICK j \in 1 .. Len(layers) : edges[i].from \in layers[j]
      BY <1>4, <1>6, <2>2 DEF Placed
    <3> QED
      BY <3>1, <1>6, <2>2
  <2> QED
    BY <1>6, <2>1, <2>2
<1>12. Prompt'
  <2> SUFFICES ASSUME NEW k \in 1 .. Len(layers) + 1, NEW n \in layers'[k], k > 1
               PROVE  \E i \in Forward : edges[i].to = n /\ edges[i].from \in layers'[k - 1]
    BY <1>1, <1>5, <1>6 DEF Prompt
  <2>1. layers'[k - 1] = layers[k - 1]
    BY <1>6
  <2>2. CASE k \in 1 .. Len(layers)
    BY <1>2, <1>6, <2>1, <2>2 DEF Prompt
  <2>3. CASE k = Len(layers) + 1
    <3>1. layers # << >> /\ n \in DOMAIN inDegree /\ inDegree[n] = 0
      BY <1>2, <1>6, <2>3 DEF L, Layer
    <3> QED
      BY <1>2, <1>6, <2>1, <2>3, <3>1 DEF LastLayerFrees
  <2> QED
    BY <1>6, <2>2, <2>3
<1>13. LastLayerFrees'
  <2> SUFFICES ASSUME NEW n \in DOMAIN inDegree', inDegree'[n] = 0
               PROVE  \E i \in Forward : edges[i].to = n /\ edges[i].from \in L
    BY <1>1, <1>5, <1>6 DEF LastLayerFrees
  <2>1. n \in DOMAIN inDegree /\ n \notin L /\ inDegree'[n] = inDegree[n] - Incoming(n, L)
    BY <1>1
  <2>2. inDegree[n] = Incoming(n, NodeIds \ Placed) /\ inDegree[n] # 0
    BY <1>2, <2>1 DEF Degrees, L, Layer
  <2>3. Incoming(n, L) # 0
    BY <2>1, <2>2, IncomingType
  <2> QED
    BY <2>3, IncomingZero
<1>14. KnotsUnplaced'
  <2> SUFFICES ASSUME NEW S \in SUBSET NodeIds, Knot(S) PROVE S \intersect (Placed \union L) = {}
    BY <1>1, <1>5, <1>7 DEF KnotsUnplaced, Knot
  <2>1. S \intersect Placed = {}
    BY <1>2 DEF KnotsUnplaced
  <2>2. S \intersect L = {}
    BY <1>4, <2>1 DEF Knot
  <2> QED
    BY <2>1, <2>2
<1> QED
  BY <1>1, <1>6, <1>8, <1>10, <1>11, <1>12, <1>13, <1>14 DEF LayersInv, LayersOk, Sorting

LEMMA LayersInvStep == GraphTyped /\ LayersInv /\ [Next]_vars => LayersInv'
<1> SUFFICES ASSUME GraphTyped, LayersInv, [Next]_vars PROVE LayersInv'
  OBVIOUS
<1>1. CASE /\ pc' \in {"idle", "search", "valid", "invalid"}
           /\ layers' = << >> /\ inDegree' = NoDegrees
  BY <1>1 DEF LayersInv, Sorting
<1>2. CASE Fresh
  BY <1>1, <1>2 DEF Fresh
<1>3. ASSUME NEW n \in NodeIds, SetEntryNode(n) PROVE LayersInv'
  BY <1>3, LayersInvUntouched DEF SetEntryNode, graph
<1>4. CASE ValidateBegin
  BY <1>1, <1>4 DEF ValidateBegin
<1>5. ASSUME NEW n \in NodeIds, SearchStep(n) PROVE LayersInv'
  BY <1>5, LayersInvUntouched DEF SearchStep, graph
<1>6. CASE ValidateEnd
  <2>1. layers = << >> /\ inDegree = NoDegrees
    BY <1>6 DEF ValidateEnd, LayersInv, Sorting
  <2> QED
    BY <1>1, <1>6, <2>1 DEF ValidateEnd, sort
<1>7. CASE LayersBegin
  BY <1>7, LayersBeginOk
<1>8. CASE LayerStep
  BY <1>8, LayerStepOk
<1>9. CASE LayersEnd
  <2>1. /\ pc = "layers" /\ Layer = {} /\ UNCHANGED <<nodes, edges, inDegree, layers>>
        /\ pc' = IF DOMAIN inDegree = {} THEN "layered" ELSE "cyclic"
    BY <1>9 DEF LayersEnd, graph, sort
  <2>2. LayersOk'
    BY <2>1, LayersUntouched DEF LayersInv, Sorting
  <2> QED
    BY <2>1, <2>2 DEF LayersInv, Sorting, Layer
<1>10. CASE UNCHANGED vars
  BY <1>10, LayersInvUntouched DEF vars, graph
<1> QED
  BY <1>2, <1>3, <1>4, <1>5, <1>6, <1>7, <1>8, <1>9, <1>10
     DEF Next, AddNode, RemoveNode, AddEdge, AddFeedbackEdge, Connect, Load

LEMMA Invariants == Spec => [](GraphTyped /\ LayersInv)
<1>1. Init => LayersInv
  BY DEF Init, LayersInv, Sorting
<1> QED
  BY <1>1, LayersInvStep, GraphTyping, PTL DEF Spec

\* Every variable keeps its type; in particular no degree is ever below zero.
THEOREM Typing == Spec => []TypeOK
<1>1. GraphTyped /\ LayersInv => TypeOK
  <2> SUFFICES ASSUME GraphTyped, LayersInv PROVE TypeOK
    OBVIOUS
  <2>1. CASE ~Sorting
    BY <2>1 DEF TypeOK, GraphTyped, LayersInv, NoDegrees
  <2>2. CASE Sorting
    <3>1. Degrees
      BY <2>2 DEF LayersInv, LayersOk
    <3>2. DOMAIN inDegree \subseteq NodeIds
      BY <3>1, MembersAreNodeIds DEF Degrees
    <3>3. \A n \in DOMAIN inDegree : inDegree[n] \in Nat
      BY <3>1, IncomingType DEF Degrees
    <3> QED
      BY <3>2, <3>3 DEF TypeOK, GraphTyped, LayersInv
  <2> QED
    BY <2>1, <2>2
<1> QED
  BY <1>1, Invariants, PTL

\* The decrements of a layer never touch a key that has been deleted, even where edges
\* dangle, so the loop of TopologicalLayers ends with the keys it should.
THEOREM DeletedKeysStayDeleted == Spec => []KeysStayDeleted
<1>1. GraphTyped /\ LayersInv => KeysStayDeleted
  <2> SUFFICES ASSUME GraphTyped, LayersInv, pc = "layers",
                      NEW i \in Forward, edges[i].from \in Layer
               PROVE  edges[i].to \in DOMAIN inDegree \ Layer
    BY DEF KeysStayDeleted
  <2>1. Degrees /\ Ordered
    BY DEF LayersInv, LayersOk, Sorting
  <2>2. edges[i].from \notin Placed
    BY <2>1 DEF Degrees, Layer
  <2>3. edges[i].to \in Members
    BY DEF Members
  <2>4. edges[i].to \notin Placed
    BY <2>1, <2>2 DEF Ordered, Placed
  <2>5. edges[i].to \notin Layer
    BY <2>1, <2>2, LayerIsFree
  <2> QED
    BY <2>1, <2>3, <2>4, <2>5 DEF Degrees
<1> QED
  BY <1>1, Invariants, PTL

\* A node is put into the layer after the last of the nodes it depends on: not before, so
\* that the nodes of a layer can run in parallel, and not later.
THEOREM LayersAreExact == Spec => []LayersRespectEdges
<1>1. GraphTyped /\ LayersInv => LayersRespectEdges
  <2> SUFFICES ASSUME GraphTyped, LayersInv, Intact,
                      NEW k \in DOMAIN layers, NEW n \in layers[k]
               PROVE  /\ n \in nodes
                      /\ \A j \in DOMAIN layers : n \in layers[j] => j = k
                      /\ \A i \in Forward : edges[i].to = n =>
                             \E j \in DOMAIN layers : j < k /\ edges[i].from \in layers[j]
                      /\ k > 1 => \E i \in Forward : edges[i].to = n /\ edges[i].from \in layers[k - 1]
    BY DEF LayersRespectEdges
  <2>1. Sorting
    BY DEF LayersInv
  <2>2. Degrees /\ PlacedOnce /\ Ordered /\ Prompt
    BY <2>1 DEF LayersInv, LayersOk
  <2>3. n \in nodes
    <3>1. Members = nodes
      BY DEF Intact, Members, Forward
    <3> QED
      BY <2>2, <3>1 DEF Degrees, Placed
  <2>4. \A j \in DOMAIN layers : n \in layers[j] => j = k
    BY <2>2 DEF PlacedOnce
  <2>5. \A i \in Forward : edges[i].to = n =>
            \E j \in DOMAIN layers : j < k /\ edges[i].from \in layers[j]
    BY <2>2 DEF Ordered
  <2>6. k > 1 => \E i \in Forward : edges[i].to = n /\ edges[i].from \in layers[k - 1]
    BY <2>2 DEF Prompt
  <2> QED
    BY <2>3, <2>4, <2>5, <2>6
<1> QED
  BY <1>1, Invariants, PTL

\* TopologicalLayers reports a cycle if, and only if, there is one without feedback edges;
\* otherwise it has put every node into a layer.
THEOREM CyclesAreExact == Spec => []CyclicIsExact
<1>1. GraphTyped /\ LayersInv => CyclicIsExact
  <2> SUFFICES ASSUME GraphTyped, LayersInv, Intact
               PROVE  /\ pc = "cyclic" => Knot(DOMAIN inDegree)
                      /\ pc = "layered" => \A S \in SUBSET nodes : ~Knot(S)
                      /\ pc = "layered" => nodes \subseteq Placed
    BY DEF CyclicIsExact, Placed
  <2>1. Members = nodes
    BY DEF Intact, Members, Forward
  <2>2. ASSUME pc = "cyclic" PROVE Knot(DOMAIN inDegree)
    <3>1. Degrees /\ Layer = {} /\ DOMAIN inDegree # {}
      BY <2>2 DEF LayersInv, LayersOk, Sorting
    <3>2. ASSUME NEW n \in DOMAIN inDegree
          PROVE  \E i \in Forward : edges[i].to = n /\ edges[i].from \in DOMAIN inDegree
      <4>1. Incoming(n, NodeIds \ Placed) # 0
        BY <3>1 DEF Degrees, Layer
      <4>2. PICK i \in Forward : edges[i].to = n /\ edges[i].from \in NodeIds \ Placed
        BY <4>1, IncomingZero
      <4>3. edges[i].from \in nodes
        BY DEF Intact, Forward
      <4> QED
        BY <2>1, <3>1, <4>2, <4>3 DEF Degrees
    <3> QED
      BY <3>1, <3>2 DEF Knot
  <2>3. ASSUME pc = "layered"
        PROVE  nodes \subseteq Placed /\ \A S \in SUBSET nodes : ~Knot(S)
    <3>1. Degrees /\ KnotsUnplaced /\ DOMAIN inDegree = {}
      BY <2>3 DEF LayersInv, LayersOk, Sorting
    <3>2. nodes \subseteq Placed
      BY <2>1, <3>1 DEF Degrees
    <3>3. ASSUME NEW S \in SUBSET nodes, Knot(S) PROVE FALSE
      <4>1. S \in SUBSET NodeIds /\ S # {}
        BY <3>3 DEF Knot, GraphTyped
      <4> QED
        BY <3>1, <3>2, <3>3, <4>1 DEF KnotsUnplaced
    <3> QED
      BY <3>2, <3>3
  <2> QED
    BY <2>2, <2>3
<1> QED
  BY <1>1, Invariants, PTL
=============================================================================
