-------------------------- MODULE FlowStore_proofs --------------------------
(***************************************************************************)
(* Proofs about the store, for any flows, nodes and rows and any number of *)
(* requests of each kind served at the same time.                          *)
(***************************************************************************)
EXTENDS FlowStore, TLAPS

\* Rows stay rows when maps are built from maps.
LEMMA RowMapFacts ==
  ASSUME NEW map \in RowMaps
  PROVE  /\ DOMAIN map \subseteq Nodes
         /\ \A n \in DOMAIN map : map[n] \in Row
         /\ \A n \in Nodes, row \in Row : Put(map, n, row) \in RowMaps
         /\ \A S : Only(map, S) \in RowMaps
<1>1. PICK D \in SUBSET Nodes : map \in [D -> Row]
  BY DEF RowMaps
<1>2. ASSUME NEW n \in Nodes, NEW row \in Row PROVE Put(map, n, row) \in RowMaps
  <2>1. Put(map, n, row) \in [D \union {n} -> Row]
    BY <1>1 DEF Put
  <2> QED
    BY <2>1, D \union {n} \in SUBSET Nodes DEF RowMaps
<1>3. ASSUME NEW S PROVE Only(map, S) \in RowMaps
  <2>1. Only(map, S) \in [D \intersect S -> Row]
    BY <1>1 DEF Only
  <2> QED
    BY <2>1, D \intersect S \in SUBSET Nodes DEF RowMaps
<1> QED
  BY <1>1, <1>2, <1>3

LEMMA EmptyRowMap == Empty \in RowMaps
<1>1. Empty \in [{} -> Row]
  BY DEF Empty
<1> QED
  BY <1>1, {} \in SUBSET Nodes DEF RowMaps

\* The same for the maps of requests and of flows.
LEMMA MapFacts ==
  ASSUME NEW S, NEW T, NEW map, IsMap(map, S, T)
  PROVE  /\ DOMAIN map \subseteq S
         /\ \A x \in DOMAIN map : map[x] \in T
         /\ \A x \in S, v \in T : IsMap(Put(map, x, v), S, T)
         /\ \A x : IsMap(Without(map, x), S, T)
BY DEF IsMap, Put, Without, Only

----------------------------------------------------------------------------
(* Types, and what the flows of transactions and histories are *)

StoreTyped ==
    /\ node \in RowMaps
    /\ IsMap(flow, Flows, Bodies)
    /\ links \subseteq Flows \X Nodes
    /\ IsMap(update, Updates, UpdateSet)
    /\ IsMap(creation, Creations, CreationSet)
    /\ IsMap(load, Loads, LoadSet)
    /\ born \subseteq Nodes
    /\ gone \in [Flows -> SUBSET Nodes]
    /\ dropped \subseteq Flows

LEMMA StoreTypedInit == Init => StoreTyped
BY EmptyRowMap DEF Init, StoreTyped, IsMap, Empty

LEMMA WrittenTyped ==
  ASSUME StoreTyped, NEW n \in Nodes, Written(n)
  PROVE  IsMap(load', Loads, LoadSet)
<1>1. ASSUME NEW l \in DOMAIN load PROVE load'[l] \in LoadSet
  <2>1. load[l] \in LoadSet
    BY <1>1, MapFacts DEF StoreTyped
  <2>2. load[l].kept \in RowMaps
    BY <2>1 DEF LoadSet
  <2>3. Without(load[l].kept, n) \in RowMaps
    BY <2>2, RowMapFacts DEF Without
  <2> QED
    BY <2>1, <2>3 DEF Written, LoadSet
<1> QED
  BY <1>1 DEF StoreTyped, Written, IsMap

LEMMA OutdatedTyped ==
  ASSUME NEW map, IsMap(map, Updates, UpdateSet), NEW n
  PROVE  IsMap(Outdated(map, n), Updates, UpdateSet)
BY DEF Outdated, IsMap, UpdateSet

LEMMA StoreTypedStep == StoreTyped /\ [Next]_vars => StoreTyped'
<1> SUFFICES ASSUME StoreTyped, [Next]_vars PROVE StoreTyped'
  OBVIOUS
<1> USE DEF tables, history
<1>1. ASSUME NEW n \in Nodes, NEW row \in Row, CreateNode(n, row) PROVE StoreTyped'
  BY <1>1, RowMapFacts DEF CreateNode, StoreTyped
<1>2. ASSUME NEW n \in Nodes, DeleteNode(n) PROVE StoreTyped'
  <2>1. node' \in RowMaps
    BY <1>2, RowMapFacts DEF DeleteNode, StoreTyped, Without
  <2>2. IsMap(update', Updates, UpdateSet)
    BY <1>2, OutdatedTyped DEF DeleteNode, StoreTyped
  <2>3. IsMap(load', Loads, LoadSet)
    BY <1>2, WrittenTyped DEF DeleteNode
  <2>4. links' \subseteq Flows \X Nodes
    BY <1>2 DEF DeleteNode, StoreTyped
  <2> QED
    BY <1>2, <2>1, <2>2, <2>3, <2>4 DEF DeleteNode, StoreTyped
<1>3. ASSUME NEW u \in Updates, UpdateNode(u) PROVE StoreTyped'
  <2>1. ASSUME NEW n \in Nodes, NEW field \in Fields, NEW value \in Values,
               UpdateGet(u, n, field, value)
        PROVE  StoreTyped'
    <3>1. node[n] \in Row
      BY <2>1, RowMapFacts DEF UpdateGet, StoreTyped
    <3>2. [node[n] EXCEPT ![field] = value] \in Row
      BY <3>1 DEF Row
    <3>3. [node |-> n, row |-> [node[n] EXCEPT ![field] = value], fresh |-> TRUE] \in UpdateSet
      BY <3>2 DEF UpdateSet
    <3>4. IsMap(update', Updates, UpdateSet)
      BY <2>1, <3>3, MapFacts DEF UpdateGet, StoreTyped
    <3> QED
      BY <2>1, <3>4 DEF UpdateGet, StoreTyped
  <2>2. CASE UpdateSave(u)
    <3>1. update[u] \in UpdateSet
      BY <2>2, MapFacts DEF UpdateSave, StoreTyped
    <3>2. update[u].node \in Nodes /\ update[u].row \in Row
      BY <3>1 DEF UpdateSet
    <3>3. node' \in RowMaps
      BY <2>2, <3>2, RowMapFacts DEF UpdateSave, StoreTyped
    <3>4. IsMap(Without(update, u), Updates, UpdateSet)
      BY MapFacts DEF StoreTyped
    <3>5. IsMap(update', Updates, UpdateSet)
      BY <2>2, <3>4, OutdatedTyped DEF UpdateSave
    <3>6. IsMap(load', Loads, LoadSet)
      BY <2>2, <3>2, WrittenTyped DEF UpdateSave
    <3> QED
      BY <2>2, <3>3, <3>5, <3>6 DEF UpdateSave, StoreTyped
  <2>3. CASE UpdateFails(u)
    <3>1. IsMap(update', Updates, UpdateSet)
      BY <2>3, MapFacts DEF UpdateFails, StoreTyped
    <3> QED
      BY <2>3, <3>1 DEF UpdateFails, StoreTyped
  <2> QED
    BY <1>3, <2>1, <2>2, <2>3 DEF UpdateNode
<1>4. ASSUME NEW c \in Creations, CreateFlow(c) PROVE StoreTyped'
  <2>0. ASSUME c \in DOMAIN creation
        PROVE  /\ creation[c] \in CreationSet
               /\ creation[c].flow \in Flows /\ creation[c].body \in Bodies
               /\ creation[c].body.nodes \subseteq Nodes
    <3>1. creation[c] \in CreationSet
      BY <2>0, MapFacts DEF StoreTyped
    <3> QED
      BY <3>1, BodiesAssumption DEF CreationSet, BodySet
  <2>1. ASSUME NEW f \in Flows, NEW body \in Bodies, FlowBegin(c, f, body)
        PROVE  StoreTyped'
    <3>1. [flow |-> f, body |-> body, todo |-> body.nodes] \in CreationSet
      BY BodiesAssumption DEF CreationSet, BodySet
    <3>2. IsMap(creation', Creations, CreationSet)
      BY <2>1, <3>1, MapFacts DEF FlowBegin, StoreTyped
    <3> QED
      BY <2>1, <3>2 DEF FlowBegin, StoreTyped
  <2>2. ASSUME NEW n \in Nodes, FlowLink(c, n) PROVE StoreTyped'
    <3>1. IsMap(creation', Creations, CreationSet)
      BY <2>2, <2>0 DEF FlowLink, StoreTyped, IsMap, CreationSet
    <3> QED
      BY <2>2, <3>1 DEF FlowLink, StoreTyped
  <2>3. CASE FlowCommit(c)
    <3>1. IsMap(creation', Creations, CreationSet)
      BY <2>3, MapFacts DEF FlowCommit, StoreTyped
    <3>2. IsMap(flow', Flows, Bodies)
      BY <2>3, <2>0, MapFacts DEF FlowCommit, StoreTyped
    <3>3. links' \subseteq Flows \X Nodes
      BY <2>3, <2>0 DEF FlowCommit, StoreTyped
    <3> QED
      BY <2>3, <3>1, <3>2, <3>3 DEF FlowCommit, StoreTyped
  <2>4. CASE FlowRollback(c)
    <3>1. IsMap(creation', Creations, CreationSet)
      BY <2>4, MapFacts DEF FlowRollback, StoreTyped
    <3> QED
      BY <2>4, <3>1 DEF FlowRollback, StoreTyped
  <2> QED
    BY <1>4, <2>1, <2>2, <2>3, <2>4 DEF CreateFlow
<1>5. ASSUME NEW f \in Flows, DeleteFlow(f) PROVE StoreTyped'
  <2>1. IsMap(flow', Flows, Bodies)
    BY <1>5, MapFacts DEF DeleteFlow, StoreTyped
  <2> QED
    BY <1>5, <2>1 DEF DeleteFlow, StoreTyped
<1>6. ASSUME NEW l \in Loads, Load(l) PROVE StoreTyped'
  <2>0. IsMap(load', Loads, LoadSet)
    <3>0. ASSUME l \in DOMAIN load PROVE load[l] \in LoadSet
      BY <3>0, MapFacts DEF StoreTyped
    <3>1. ASSUME NEW f \in Flows, LoadFlow(l, f) PROVE IsMap(load', Loads, LoadSet)
      <4>1. flow[f] \in Bodies
        BY <3>1, MapFacts DEF LoadFlow, StoreTyped
      <4>2. [flow |-> f, body |-> flow[f], pc |-> "links", todo |-> {},
             read |-> Empty, linked |-> {}, there |-> TRUE, kept |-> Empty] \in LoadSet
        BY <4>1, EmptyRowMap DEF LoadSet, LoadPCs
      <4> QED
        BY <3>1, <4>2, MapFacts DEF LoadFlow, StoreTyped
    <3>2. CASE LoadLinks(l)
      <4>1. Only(node, Linked(load[l].flow)) \in RowMaps
        BY RowMapFacts DEF StoreTyped
      <4>2. Linked(load[l].flow) \subseteq Nodes
        BY DEF Linked
      <4>3. load'[l] \in LoadSet
        BY <3>2, <3>0, <4>1, <4>2 DEF LoadLinks, LoadSet, LoadPCs, StoreTyped, IsMap
      <4> QED
        BY <3>2, <4>3 DEF LoadLinks, StoreTyped, IsMap
    <3>3. \A why \in LoadPCs : l \in DOMAIN load => TurnedDown(load[l], why) \in LoadSet
      BY <3>0, EmptyRowMap DEF TurnedDown, LoadSet
    <3>4. ASSUME NEW n \in Nodes, LoadNode(l, n) PROVE IsMap(load', Loads, LoadSet)
      <4>1. CASE n \in DOMAIN node
        <5>1. node[n] \in Row /\ load[l].read \in RowMaps
          BY <4>1, <3>4, <3>0, RowMapFacts DEF LoadNode, StoreTyped, LoadSet
        <5>2. Put(load[l].read, n, node[n]) \in RowMaps
          BY <5>1, RowMapFacts
        <5>3. load'[l] \in LoadSet
          BY <3>4, <4>1, <3>0, <5>2 DEF LoadNode, LoadSet, LoadPCs, StoreTyped, IsMap
        <5> QED
          BY <3>4, <4>1, <5>3 DEF LoadNode, StoreTyped, IsMap
      <4>2. CASE n \notin DOMAIN node
        BY <3>4, <4>2, <3>3 DEF LoadNode, StoreTyped, IsMap, LoadPCs
      <4> QED
        BY <4>1, <4>2
    <3>5. CASE LoadExecute(l)
      <4>1. [load[l] EXCEPT !.pc = "accepted"] \in LoadSet
        BY <3>5, <3>0 DEF LoadExecute, LoadSet, LoadPCs
      <4>2. TurnedDown(load[l], "refused") \in LoadSet
        BY <3>5, <3>3 DEF LoadExecute, LoadPCs
      <4> QED
        BY <3>5, <4>1, <4>2 DEF LoadExecute, StoreTyped, IsMap
    <3>6. CASE LoadResume(l) \/ LoadBreaks(l)
      BY <3>6, MapFacts DEF LoadResume, LoadBreaks, StoreTyped
    <3> QED
      BY <1>6, <3>1, <3>2, <3>4, <3>5, <3>6 DEF Load
  <2>1. UNCHANGED <<tables, update, creation, history>>
    BY <1>6 DEF Load, LoadFlow, LoadLinks, LoadNode, LoadExecute, LoadResume, LoadBreaks
  <2> QED
    BY <2>0, <2>1 DEF StoreTyped
<1>7. CASE UNCHANGED vars
  BY <1>7 DEF vars, StoreTyped
<1> QED
  BY <1>1, <1>2, <1>3, <1>4, <1>5, <1>6, <1>7 DEF Next

----------------------------------------------------------------------------
(* Links *)

\* A transaction creates a flow that nobody has seen, alone, and the rows it has
\* linked are there; a flow that nobody has seen has lost no node.
Reserved ==
    /\ \A c \in DOMAIN creation :
          /\ creation[c].flow \notin DOMAIN flow \union dropped
          /\ creation[c].body.nodes \ creation[c].todo \subseteq DOMAIN node
          /\ \A d \in DOMAIN creation : creation[d].flow = creation[c].flow => d = c
    /\ \A f \in Flows : f \notin DOMAIN flow \union dropped => gone[f] = {}
    /\ dropped \intersect DOMAIN flow = {}

\* The links refer to rows.
ForeignKeys == links \subseteq (DOMAIN flow) \X (DOMAIN node)

LinksInv == Reserved /\ ForeignKeys /\ LinksAreExact

LEMMA LinksInit == Init => LinksInv
BY DEF Init, LinksInv, Reserved, ForeignKeys, LinksAreExact, Linked, Empty

\* Steps that touch neither flows, links nor transactions, and remove no row.
LEMMA LinksUntouched ==
  ASSUME LinksInv, UNCHANGED <<flow, links, creation, gone, dropped>>,
         DOMAIN node \subseteq DOMAIN node'
  PROVE  LinksInv'
BY DEF LinksInv, Reserved, ForeignKeys, LinksAreExact, Linked

LEMMA LinksStep == StoreTyped /\ LinksInv /\ [Next]_vars => LinksInv'
<1> SUFFICES ASSUME StoreTyped, LinksInv, [Next]_vars PROVE LinksInv'
  OBVIOUS
<1> USE DEF tables, history
<1>1. ASSUME NEW n \in Nodes, NEW row \in Row, CreateNode(n, row) PROVE LinksInv'
  BY <1>1, LinksUntouched DEF CreateNode, Put
<1>2. ASSUME NEW n \in Nodes, DeleteNode(n) PROVE LinksInv'
  <2>1. DOMAIN node' = DOMAIN node \ {n}
    BY <1>2 DEF DeleteNode, Without, Only
  <2>2. Reserved'
    BY <1>2, <2>1 DEF DeleteNode, Locked, LinksInv, Reserved
  <2>3. ForeignKeys'
    BY <1>2, <2>1 DEF DeleteNode, LinksInv, ForeignKeys
  <2>4. LinksAreExact'
    <3> SUFFICES ASSUME NEW f \in Flows
                 PROVE  Linked(f)' = IF f \in DOMAIN flow THEN flow[f].nodes \ gone'[f] ELSE {}
      BY <1>2 DEF DeleteNode, LinksAreExact
    <3>1. Linked(f)' = Linked(f) \ {n}
      BY <1>2 DEF DeleteNode, Linked
    <3>2. Linked(f) = IF f \in DOMAIN flow THEN flow[f].nodes \ gone[f] ELSE {}
      BY DEF LinksInv, LinksAreExact
    <3> QED
      BY <1>2, <3>1, <3>2 DEF DeleteNode, StoreTyped
  <2> QED
    BY <2>2, <2>3, <2>4 DEF LinksInv
<1>3. ASSUME NEW u \in Updates, UpdateNode(u) PROVE LinksInv'
  <2>1. DOMAIN node \subseteq DOMAIN node'
    BY <1>3 DEF UpdateNode, UpdateGet, UpdateSave, UpdateFails, Put
  <2>2. UNCHANGED <<flow, links, creation, gone, dropped>>
    BY <1>3 DEF UpdateNode, UpdateGet, UpdateSave, UpdateFails
  <2> QED
    BY <2>1, <2>2, LinksUntouched
<1>4. ASSUME NEW c \in Creations, CreateFlow(c) PROVE LinksInv'
  <2>1. ASSUME NEW f \in Flows, NEW body \in Bodies, FlowBegin(c, f, body)
        PROVE  LinksInv'
    <3>1. Reserved'
      BY <2>1 DEF FlowBegin, Put, LinksInv, Reserved
    <3> QED
      BY <2>1, <3>1 DEF FlowBegin, LinksInv, ForeignKeys, LinksAreExact, Linked
  <2>2. ASSUME NEW n \in Nodes, FlowLink(c, n) PROVE LinksInv'
    <3>1. /\ DOMAIN creation' = DOMAIN creation
          /\ \A d \in DOMAIN creation :
                /\ creation'[d].flow = creation[d].flow
                /\ creation'[d].body = creation[d].body
                /\ creation'[d].todo = creation[d].todo \/
                      creation'[d].todo = creation[d].todo \ {n}
      <4>1. ASSUME NEW d \in DOMAIN creation PROVE creation[d] \in CreationSet
        BY <4>1, MapFacts DEF StoreTyped
      <4> QED
        BY <2>2, <4>1 DEF FlowLink, StoreTyped, IsMap, CreationSet
    <3>2. Reserved'
      BY <2>2, <3>1 DEF FlowLink, LinksInv, Reserved
    <3> QED
      BY <2>2, <3>2 DEF FlowLink, LinksInv, ForeignKeys, LinksAreExact, Linked
  <2>3. CASE FlowCommit(c)
    <3> DEFINE made == creation[c]
    <3>1. /\ DOMAIN creation' = DOMAIN creation \ {c}
          /\ \A d \in DOMAIN creation' : creation'[d] = creation[d]
          /\ DOMAIN flow' = DOMAIN flow \union {made.flow}
          /\ flow'[made.flow] = made.body
          /\ \A f \in DOMAIN flow : f # made.flow => flow'[f] = flow[f]
      BY <2>3 DEF FlowCommit, Put, Without, Only
    <3>2. made \in CreationSet /\ made.flow \in Flows /\ made.body.nodes \subseteq Nodes
      <4>1. made \in CreationSet
        BY <2>3, MapFacts DEF FlowCommit, StoreTyped
      <4> QED
        BY <4>1, BodiesAssumption DEF CreationSet, BodySet
    <3>3. made.flow \notin DOMAIN flow \union dropped /\ gone[made.flow] = {}
          /\ made.body.nodes \subseteq DOMAIN node
      BY <2>3, <3>2 DEF FlowCommit, LinksInv, Reserved
    <3>4. Reserved'
      BY <2>3, <3>1, <3>2, <3>3 DEF FlowCommit, LinksInv, Reserved
    <3>5. ForeignKeys'
      BY <2>3, <3>1, <3>3 DEF FlowCommit, LinksInv, ForeignKeys
    <3>6. LinksAreExact'
      <4> SUFFICES ASSUME NEW f \in Flows
                   PROVE  Linked(f)' = IF f \in DOMAIN flow' THEN flow'[f].nodes \ gone[f] ELSE {}
        BY <2>3 DEF FlowCommit, LinksAreExact
      <4>1. Linked(f) = IF f \in DOMAIN flow THEN flow[f].nodes \ gone[f] ELSE {}
        BY DEF LinksInv, LinksAreExact
      <4>2. CASE f = made.flow
        <5>1. Linked(f)' = Linked(f) \union made.body.nodes
          BY <2>3, <3>2, <4>2 DEF FlowCommit, Linked
        <5> QED
          BY <3>1, <3>3, <4>1, <4>2, <5>1
      <4>3. CASE f # made.flow
        <5>1. Linked(f)' = Linked(f)
          BY <2>3, <4>3 DEF FlowCommit, Linked
        <5> QED
          BY <3>1, <4>1, <4>3, <5>1
      <4> QED
        BY <4>2, <4>3
    <3> QED
      BY <3>4, <3>5, <3>6 DEF LinksInv
  <2>4. CASE FlowRollback(c)
    <3>1. Reserved'
      BY <2>4 DEF FlowRollback, Without, Only, LinksInv, Reserved
    <3> QED
      BY <2>4, <3>1 DEF FlowRollback, LinksInv, ForeignKeys, LinksAreExact, Linked
  <2> QED
    BY <1>4, <2>1, <2>2, <2>3, <2>4 DEF CreateFlow
<1>5. ASSUME NEW f \in Flows, DeleteFlow(f) PROVE LinksInv'
  <2>1. DOMAIN flow' = DOMAIN flow \ {f} /\ \A g \in DOMAIN flow' : flow'[g] = flow[g]
    BY <1>5 DEF DeleteFlow, Without, Only
  <2>2. Reserved'
    BY <1>5, <2>1 DEF DeleteFlow, LinksInv, Reserved
  <2>3. ForeignKeys'
    BY <1>5, <2>1 DEF DeleteFlow, LinksInv, ForeignKeys
  <2>4. LinksAreExact'
    <3> SUFFICES ASSUME NEW g \in Flows
                 PROVE  Linked(g)' = IF g \in DOMAIN flow' THEN flow'[g].nodes \ gone[g] ELSE {}
      BY <1>5 DEF DeleteFlow, LinksAreExact
    <3>1. Linked(g)' = IF g = f THEN {} ELSE Linked(g)
      BY <1>5 DEF DeleteFlow, Linked
    <3> QED
      BY <2>1, <3>1 DEF LinksInv, LinksAreExact
  <2> QED
    BY <2>2, <2>3, <2>4 DEF LinksInv
<1>6. ASSUME NEW l \in Loads, Load(l) PROVE LinksInv'
  <2>1. UNCHANGED <<tables, update, creation, history>>
    BY <1>6 DEF Load, LoadFlow, LoadLinks, LoadNode, LoadExecute, LoadResume, LoadBreaks
  <2> QED
    BY <2>1, LinksUntouched
<1>7. CASE UNCHANGED vars
  BY <1>7, LinksUntouched DEF vars
<1> QED
  BY <1>1, <1>2, <1>3, <1>4, <1>5, <1>6, <1>7 DEF Next

LEMMA LinksInvariant == Spec => [](StoreTyped /\ LinksInv)
<1> QED
  BY StoreTypedInit, StoreTypedStep, LinksInit, LinksStep, PTL DEF Spec

\* Every variable keeps its type, and no link is left without its rows.
THEOREM Typing == Spec => []TypeOK
<1>1. StoreTyped /\ LinksInv => TypeOK
  BY DEF StoreTyped, LinksInv, ForeignKeys, TypeOK
<1> QED
  BY <1>1, LinksInvariant, PTL

\* Whatever is created, deleted and brought back at the same time, a flow is linked to
\* the nodes it was created with but for those deleted since.
THEOREM FlowsAreWhole == Spec => []LinksAreExact
BY LinksInvariant, PTL DEF LinksInv

----------------------------------------------------------------------------
(* Updates *)

\* Rows are of nodes that were created, and a fresh update changes one column of the
\* row that is in the table.
UpdatesInv ==
    /\ DOMAIN node \subseteq born
    /\ \A u \in DOMAIN update :
          /\ update[u].node \in born
          /\ update[u].fresh =>
                /\ update[u].node \in DOMAIN node
                /\ \E field \in Fields : \A other \in Fields \ {field} :
                      update[u].row[other] = node[update[u].node][other]

LEMMA UpdatesInit == Init => UpdatesInv
BY DEF Init, UpdatesInv, Empty

LEMMA UpdatesStep == StoreTyped /\ UpdatesInv /\ [Next]_vars => UpdatesInv'
<1> SUFFICES ASSUME StoreTyped, UpdatesInv, [Next]_vars PROVE UpdatesInv'
  OBVIOUS
<1> USE DEF tables, history
<1>1. ASSUME NEW n \in Nodes, NEW row \in Row, CreateNode(n, row) PROVE UpdatesInv'
  <2>1. DOMAIN node' = DOMAIN node \union {n} /\ \A m \in DOMAIN node : node'[m] = node[m]
    BY <1>1 DEF CreateNode, Put, UpdatesInv
  <2> QED
    BY <1>1, <2>1 DEF CreateNode, UpdatesInv
<1>2. ASSUME NEW n, UNCHANGED born, NEW map, DOMAIN map \subseteq DOMAIN update,
             \A u \in DOMAIN map : map[u] = update[u],
             update' = Outdated(map, n),
             DOMAIN node' \subseteq born,
             \A m \in DOMAIN node \ {n} : m \in DOMAIN node' /\ node'[m] = node[m]
      PROVE  UpdatesInv'
  <2>1. ASSUME NEW u \in DOMAIN update'
        PROVE  /\ u \in DOMAIN update /\ update'[u].node = update[u].node
               /\ update'[u].row = update[u].row
               /\ update'[u].fresh => update[u].fresh /\ update[u].node # n
    <3>1. u \in DOMAIN map /\ update[u] \in UpdateSet
      BY <1>2, <2>1, MapFacts DEF Outdated, StoreTyped
    <3>2. update'[u] = [update[u] EXCEPT !.fresh = @ /\ update[u].node # n]
      BY <1>2, <3>1 DEF Outdated
    <3>3. update'[u].fresh = (update[u].fresh /\ update[u].node # n)
      BY <3>1, <3>2, Zenon DEF UpdateSet
    <3> QED
      BY <1>2, <3>1, <3>2, <3>3 DEF UpdateSet
  <2> QED
    BY <1>2, <2>1 DEF UpdatesInv
<1>3. ASSUME NEW n \in Nodes, DeleteNode(n) PROVE UpdatesInv'
  <2>1. DOMAIN node' = DOMAIN node \ {n} /\ \A m \in DOMAIN node' : node'[m] = node[m]
    BY <1>3 DEF DeleteNode, Without, Only
  <2> QED
    BY <1>2, <1>3, <2>1 DEF DeleteNode, UpdatesInv
<1>4. ASSUME NEW u \in Updates, UpdateNode(u) PROVE UpdatesInv'
  <2>1. ASSUME NEW n \in Nodes, NEW field \in Fields, NEW value \in Values,
               UpdateGet(u, n, field, value)
        PROVE  UpdatesInv'
    <3>1. /\ update'[u].node = n /\ update'[u].row = [node[n] EXCEPT ![field] = value]
          /\ DOMAIN update' = DOMAIN update \union {u} /\ n \in DOMAIN node
          /\ \A v \in DOMAIN update : update'[v] = update[v]
      BY <2>1 DEF UpdateGet, Put
    <3>2. node[n] \in Row
      BY <3>1, RowMapFacts DEF StoreTyped
    <3>3. \A other \in Fields \ {field} : update'[u].row[other] = node[n][other]
      BY <3>1, <3>2 DEF Row
    <3>4. node' = node /\ born' = born /\ u \notin DOMAIN update /\ n \in born
      BY <2>1 DEF UpdateGet, UpdatesInv
    <3> SUFFICES ASSUME NEW v \in DOMAIN update'
                 PROVE  /\ update'[v].node \in born
                        /\ update'[v].fresh =>
                              /\ update'[v].node \in DOMAIN node
                              /\ \E one \in Fields : \A other \in Fields \ {one} :
                                    update'[v].row[other] = node[update'[v].node][other]
      BY <3>4 DEF UpdatesInv
    <3>5. CASE v = u
      <4>1. update'[v].node = n /\ n \in DOMAIN node
        BY <3>1, <3>5
      <4>2. \A other \in Fields \ {field} : update'[v].row[other] = node[n][other]
        BY <3>3, <3>5
      <4> QED
        BY <3>4, <4>1, <4>2
    <3>6. CASE v # u
      <4>1. v \in DOMAIN update /\ update'[v] = update[v]
        BY <3>1, <3>6
      <4> QED
        BY <4>1 DEF UpdatesInv
    <3> QED
      BY <3>5, <3>6
  <2>2. CASE UpdateSave(u)
    <3>1. /\ DOMAIN Without(update, u) \subseteq DOMAIN update
          /\ \A v \in DOMAIN Without(update, u) : Without(update, u)[v] = update[v]
      BY DEF Without, Only
    <3>2. DOMAIN node' \subseteq born
      BY <2>2 DEF UpdateSave, Put, UpdatesInv
    <3>3. \A m \in DOMAIN node \ {update[u].node} : m \in DOMAIN node' /\ node'[m] = node[m]
      BY <2>2 DEF UpdateSave, Put
    <3> QED
      BY <1>2, <2>2, <3>1, <3>2, <3>3 DEF UpdateSave
  <2>3. CASE UpdateFails(u)
    BY <2>3 DEF UpdateFails, Without, Only, UpdatesInv
  <2> QED
    BY <1>4, <2>1, <2>2, <2>3 DEF UpdateNode
<1>5. ASSUME UNCHANGED <<node, update, born>> PROVE UpdatesInv'
  BY <1>5 DEF UpdatesInv
<1>6. ASSUME NEW c \in Creations, CreateFlow(c) PROVE UpdatesInv'
  BY <1>5, <1>6 DEF CreateFlow, FlowBegin, FlowLink, FlowCommit, FlowRollback
<1>7. ASSUME NEW f \in Flows, DeleteFlow(f) PROVE UpdatesInv'
  BY <1>5, <1>7 DEF DeleteFlow
<1>8. ASSUME NEW l \in Loads, Load(l) PROVE UpdatesInv'
  BY <1>5, <1>8 DEF Load, LoadFlow, LoadLinks, LoadNode, LoadExecute, LoadResume, LoadBreaks
<1>9. CASE UNCHANGED vars
  BY <1>5, <1>9 DEF vars
<1> QED
  BY <1>1, <1>3, <1>4, <1>6, <1>7, <1>8, <1>9 DEF Next

----------------------------------------------------------------------------
(* Loads *)

\* The flow of a load was there when the load began, as the load has read it.
Begun(rec) ==
    /\ rec.flow \in DOMAIN flow \union dropped
    /\ rec.flow \in DOMAIN flow => flow[rec.flow] = rec.body
    /\ rec.pc # "nodes" => rec.todo = {}
    /\ rec.pc = "links" => rec.read = Empty

\* The rows that are kept are those of the moment the links were read: still in the
\* table before the node's own SELECT, and what it returned after.
Snapshot(rec) ==
    rec.pc \in {"nodes", "accepted"} =>
        /\ rec.todo \subseteq rec.linked
        /\ DOMAIN rec.read = rec.linked \ rec.todo
        /\ DOMAIN rec.kept \subseteq rec.linked
        /\ \A n \in DOMAIN rec.kept :
              IF n \in rec.todo THEN n \in DOMAIN node /\ node[n] = rec.kept[n]
              ELSE rec.read[n] = rec.kept[n]
        /\ ~rec.there => rec.linked = {}
        /\ rec.pc = "accepted" => rec.there

\* What a load does not find was deleted.
Missing(rec) ==
    rec.pc = "nodes" /\ rec.flow \notin dropped =>
        /\ rec.linked \subseteq rec.body.nodes
        /\ rec.body.nodes \ rec.linked \subseteq gone[rec.flow]
        /\ rec.todo \subseteq DOMAIN node \union gone[rec.flow]

Reason(rec) ==
    rec.pc \in {"absent", "refused"} =>
        \/ ~Valid(rec.body.nodes, rec.body.entry, ParsedEdges(rec.body))
        \/ rec.body.nodes \intersect gone[rec.flow] # {}
        \/ rec.flow \in dropped

LoadOk(rec) == Begun(rec) /\ Snapshot(rec) /\ Missing(rec) /\ Reason(rec)

LoadsInv == \A l \in DOMAIN load : LoadOk(load[l])

LEMMA LoadsInit == Init => LoadsInv
BY DEF Init, LoadsInv, Empty

\* A row is written: loads that are still to read it no longer keep the old one.
LEMMA RowWritten ==
  ASSUME StoreTyped, LoadsInv, NEW n \in Nodes, Written(n),
         UNCHANGED <<flow, gone, dropped>>,
         n \in DOMAIN node',
         \A m \in DOMAIN node : m \in DOMAIN node' /\ (m # n => node'[m] = node[m])
  PROVE  \A l \in DOMAIN load' : LoadOk(load[l])'
<1> TAKE l \in DOMAIN load'
<1>1. l \in DOMAIN load /\ load[l] \in LoadSet /\ LoadOk(load[l])
  BY MapFacts DEF Written, StoreTyped, LoadsInv
<1>2. CASE n \in load[l].todo
  <2>1. load'[l] = [load[l] EXCEPT !.kept = Without(load[l].kept, n)]
    BY <1>1, <1>2 DEF Written
  <2> QED
    BY <1>1, <1>2, <2>1
       DEF LoadSet, LoadOk, Begun, Snapshot, Missing, Reason, Without, Only
<1>3. CASE n \notin load[l].todo
  <2>1. load'[l] = load[l]
    BY <1>1, <1>3 DEF Written
  <2> QED
    BY <1>1, <1>3, <2>1 DEF LoadSet, LoadOk, Begun, Snapshot, Missing, Reason
<1> QED
  BY <1>2, <1>3

\* Steps that leave rows and loads alone, and take no flow away.
LEMMA LoadsUntouched ==
  ASSUME LoadsInv, UNCHANGED <<node, load, gone, dropped>>,
         \A f \in DOMAIN flow \union dropped :
            (f \in DOMAIN flow <=> f \in DOMAIN flow') /\ (f \in DOMAIN flow => flow'[f] = flow[f])
  PROVE  LoadsInv'
BY DEF LoadsInv, LoadOk, Begun, Snapshot, Missing, Reason

LEMMA LoadsStep == StoreTyped /\ UpdatesInv /\ LinksInv /\ LoadsInv /\ [Next]_vars => LoadsInv'
<1> SUFFICES ASSUME StoreTyped, UpdatesInv, LinksInv, LoadsInv, [Next]_vars PROVE LoadsInv'
  OBVIOUS
<1> USE DEF tables, history
<1>1. ASSUME NEW n \in Nodes, NEW row \in Row, CreateNode(n, row) PROVE LoadsInv'
  <2>1. n \notin DOMAIN node
    BY <1>1 DEF CreateNode, UpdatesInv
  <2>2. DOMAIN node' = DOMAIN node \union {n} /\ \A m \in DOMAIN node : node'[m] = node[m]
    BY <1>1, <2>1 DEF CreateNode, Put
  <2> QED
    BY <1>1, <2>2 DEF CreateNode, LoadsInv, LoadOk, Begun, Snapshot, Missing, Reason
<1>2. ASSUME NEW n \in Nodes, DeleteNode(n) PROVE LoadsInv'
  <2>1. DOMAIN node' = DOMAIN node \ {n} /\ \A m \in DOMAIN node' : node'[m] = node[m]
    BY <1>2 DEF DeleteNode, Without, Only
  <2>2. \A f \in Flows : gone[f] \subseteq gone'[f] /\ (f \in DOMAIN flow => n \in gone'[f])
    BY <1>2 DEF DeleteNode, StoreTyped
  <2>3. ASSUME NEW l \in DOMAIN load' PROVE LoadOk(load[l])'
    <3>1. l \in DOMAIN load /\ load[l] \in LoadSet /\ LoadOk(load[l])
      BY <1>2, <2>3, MapFacts DEF DeleteNode, Written, StoreTyped, LoadsInv
    <3>2. load'[l] = IF n \in load[l].todo
                     THEN [load[l] EXCEPT !.kept = Without(load[l].kept, n)] ELSE load[l]
      BY <1>2, <3>1 DEF DeleteNode, Written
    <3>3. /\ load'[l].flow = load[l].flow /\ load'[l].pc = load[l].pc
          /\ load'[l].body = load[l].body /\ load'[l].todo = load[l].todo
          /\ load'[l].read = load[l].read /\ load'[l].linked = load[l].linked
          /\ load'[l].there = load[l].there /\ load[l].flow \in Flows
      BY <3>1, <3>2 DEF LoadSet
    <3>4. Begun(load[l])' /\ Reason(load[l])'
      BY <1>2, <2>2, <3>1, <3>3 DEF DeleteNode, LoadOk, Begun, Reason
    <3>5. Missing(load[l])'
      BY <1>2, <2>1, <2>2, <3>1, <3>3 DEF DeleteNode, LoadOk, Begun, Missing
    <3>6. Snapshot(load[l])'
      <4>1. CASE n \in load[l].todo
        <5>1. DOMAIN load'[l].kept = DOMAIN load[l].kept \ {n}
              /\ \A m \in DOMAIN load'[l].kept : load'[l].kept[m] = load[l].kept[m]
          BY <3>1, <3>2, <4>1 DEF LoadSet, Without, Only
        <5> QED
          BY <2>1, <3>1, <3>3, <5>1 DEF LoadOk, Snapshot
      <4>2. CASE n \notin load[l].todo
        BY <2>1, <3>1, <3>2, <4>2 DEF LoadOk, Snapshot
      <4> QED
        BY <4>1, <4>2
    <3> QED
      BY <3>4, <3>5, <3>6 DEF LoadOk
  <2> QED
    BY <1>2, <2>1, <2>3 DEF DeleteNode, LoadsInv
<1>3. ASSUME NEW u \in Updates, UpdateNode(u) PROVE LoadsInv'
  <2>1. CASE UpdateSave(u)
    <3>0. update[u] \in UpdateSet
      BY <2>1, MapFacts DEF UpdateSave, StoreTyped
    <3>1. update[u].node \in Nodes
      BY <3>0 DEF UpdateSet
    <3> QED
      BY <2>1, <3>1, RowWritten DEF UpdateSave, Put, LoadsInv
  <2>2. CASE ~UpdateSave(u)
    BY <1>3, <2>2, LoadsUntouched DEF UpdateNode, UpdateGet, UpdateFails
  <2> QED
    BY <2>1, <2>2
<1>4. ASSUME NEW c \in Creations, CreateFlow(c) PROVE LoadsInv'
  <2>1. CASE FlowCommit(c)
    <3>1. creation[c].flow \notin DOMAIN flow \union dropped
      BY <2>1 DEF FlowCommit, LinksInv, Reserved
    <3>2. \A f \in DOMAIN flow \union dropped :
             (f \in DOMAIN flow <=> f \in DOMAIN flow') /\ (f \in DOMAIN flow => flow'[f] = flow[f])
      BY <2>1, <3>1 DEF FlowCommit, Put
    <3> QED
      BY <2>1, <3>2, LoadsUntouched DEF FlowCommit
  <2>2. CASE ~FlowCommit(c)
    BY <1>4, <2>2, LoadsUntouched DEF CreateFlow, FlowBegin, FlowLink, FlowRollback
  <2> QED
    BY <2>1, <2>2
<1>5. ASSUME NEW f \in Flows, DeleteFlow(f) PROVE LoadsInv'
  <2>1. DOMAIN flow' = DOMAIN flow \ {f} /\ \A g \in DOMAIN flow' : flow'[g] = flow[g]
    BY <1>5 DEF DeleteFlow, Without, Only
  <2> QED
    BY <1>5, <2>1 DEF DeleteFlow, LoadsInv, LoadOk, Begun, Snapshot, Missing, Reason
<1>6. ASSUME NEW l \in Loads, Load(l) PROVE LoadsInv'
  <2>1. UNCHANGED <<tables, history>>
    BY <1>6 DEF Load, LoadFlow, LoadLinks, LoadNode, LoadExecute, LoadResume, LoadBreaks
  <2>3. ASSUME l \in DOMAIN load PROVE load[l] \in LoadSet /\ LoadOk(load[l])
    BY <2>3, MapFacts DEF StoreTyped, LoadsInv
  <2>4. ASSUME LoadOk(load[l])',
               \A k \in DOMAIN load' \ {l} : k \in DOMAIN load /\ load'[k] = load[k]
        PROVE  LoadsInv'
    <3> SUFFICES ASSUME NEW k \in DOMAIN load' PROVE LoadOk(load[k])'
      BY DEF LoadsInv
    <3>1. CASE k = l
      BY <2>4, <3>1
    <3>2. CASE k # l
      <4>1. k \in DOMAIN load /\ load'[k] = load[k] /\ LoadOk(load[k])
        BY <2>4, <3>2 DEF LoadsInv
      <4> QED
        BY <2>1, <4>1 DEF LoadOk, Begun, Snapshot, Missing, Reason
    <3> QED
      BY <3>1, <3>2
  <2>5. \A why : l \in DOMAIN load =>
           /\ TurnedDown(load[l], why).flow = load[l].flow
           /\ TurnedDown(load[l], why).body = load[l].body
           /\ TurnedDown(load[l], why).pc = why
           /\ TurnedDown(load[l], why).todo = {}
    BY <2>3 DEF TurnedDown, LoadSet
  <2>6. ASSUME NEW f \in Flows, LoadFlow(l, f) PROVE LoadsInv'
    <3>1. /\ load'[l] = [flow |-> f, body |-> flow[f], pc |-> "links", todo |-> {},
                         read |-> Empty, linked |-> {}, there |-> TRUE, kept |-> Empty]
          /\ \A k \in DOMAIN load' \ {l} : k \in DOMAIN load /\ load'[k] = load[k]
          /\ f \in DOMAIN flow
      BY <2>6 DEF LoadFlow, Put
    <3>2. LoadOk(load[l])'
      BY <2>1, <3>1 DEF LoadOk, Begun, Snapshot, Missing, Reason
    <3> QED
      BY <2>4, <3>1, <3>2
  <2>7. CASE LoadLinks(l)
    <3> DEFINE f == load[l].flow
    <3>1. /\ DOMAIN load' = DOMAIN load /\ l \in DOMAIN load
          /\ load'[l] = [load[l] EXCEPT !.pc = "nodes", !.todo = Linked(f), !.linked = Linked(f),
                                         !.there = f \in DOMAIN flow,
                                         !.kept = Only(node, Linked(f))]
          /\ \A k \in DOMAIN load' \ {l} : load'[k] = load[k]
      BY <2>7 DEF LoadLinks, StoreTyped, IsMap
    <3>2. /\ load'[l].flow = f /\ load'[l].body = load[l].body /\ load'[l].pc = "nodes"
          /\ load'[l].todo = Linked(f) /\ load'[l].linked = Linked(f)
          /\ load'[l].read = load[l].read
          /\ load'[l].kept = Only(node, Linked(f)) /\ f \in Flows
      BY <3>1, <2>3 DEF LoadSet
    <3>3. load'[l].there = (f \in DOMAIN flow)
      BY <3>1, <2>3, Zenon DEF LoadSet
    <3>4. load[l].read = Empty
      BY <2>3, <2>7 DEF LoadLinks, LoadOk, Begun
    <3>5. Linked(f) = IF f \in DOMAIN flow THEN flow[f].nodes \ gone[f] ELSE {}
      BY <3>2 DEF LinksInv, LinksAreExact
    <3>6. Snapshot(load[l])'
      BY <2>1, <3>2, <3>3, <3>4, <3>5 DEF Snapshot, Only, Empty
    <3>7. Missing(load[l])'
      <4>1. Linked(f) \subseteq DOMAIN node
        BY DEF LinksInv, ForeignKeys, Linked
      <4> QED
        BY <2>1, <2>3, <3>1, <3>2, <3>5, <4>1 DEF Missing, LoadOk, Begun
    <3>8. Begun(load[l])' /\ Reason(load[l])'
      BY <2>1, <2>3, <3>1, <3>2 DEF LoadOk, Begun, Reason
    <3> QED
      BY <2>4, <3>1, <3>6, <3>7, <3>8 DEF LoadOk
  <2>8. ASSUME NEW n \in Nodes, LoadNode(l, n) PROVE LoadsInv'
    <3>1. /\ l \in DOMAIN load /\ load[l].pc = "nodes" /\ n \in load[l].todo
          /\ DOMAIN load' = DOMAIN load
          /\ \A k \in DOMAIN load' \ {l} : load'[k] = load[k]
          /\ load'[l] = IF n \in DOMAIN node
                        THEN [load[l] EXCEPT !.todo = load[l].todo \ {n},
                                             !.read = Put(load[l].read, n, node[n])]
                        ELSE TurnedDown(load[l], "absent")
      BY <2>8, <2>3 DEF LoadNode, StoreTyped, IsMap, LoadSet
    <3>2. CASE n \in DOMAIN node
      <4>1. /\ load'[l].flow = load[l].flow /\ load'[l].body = load[l].body
            /\ load'[l].pc = "nodes" /\ load'[l].todo = load[l].todo \ {n}
            /\ load'[l].read = Put(load[l].read, n, node[n])
            /\ load'[l].linked = load[l].linked /\ load'[l].kept = load[l].kept
            /\ load'[l].there = load[l].there
        BY <2>3, <3>1, <3>2 DEF LoadSet
      <4>2. Snapshot(load[l])'
        BY <2>1, <2>3, <3>1, <3>2, <4>1 DEF LoadOk, Snapshot, Put
      <4>3. Begun(load[l])' /\ Missing(load[l])' /\ Reason(load[l])'
        BY <2>1, <2>3, <3>1, <3>2, <4>1 DEF LoadOk, Begun, Missing, Reason
      <4> QED
        BY <2>4, <3>1, <4>2, <4>3 DEF LoadOk
    <3>3. CASE n \notin DOMAIN node
      <4>1. load[l].flow \notin dropped => n \in load[l].body.nodes \intersect gone[load[l].flow]
        BY <2>3, <3>1, <3>3 DEF LoadOk, Snapshot, Missing
      <4>2. LoadOk(load[l])'
        BY <2>1, <2>3, <2>5, <3>1, <3>3, <4>1 DEF LoadOk, Begun, Snapshot, Missing, Reason
      <4> QED
        BY <2>4, <3>1, <4>2
    <3> QED
      BY <3>2, <3>3
  <2>9. CASE LoadExecute(l)
    <3> DEFINE body == load[l].body
               valid == Valid(DOMAIN load[l].read, body.entry, ParsedEdges(body))
    <3>1. /\ l \in DOMAIN load /\ load[l].pc = "nodes" /\ load[l].todo = {}
          /\ DOMAIN load' = DOMAIN load
          /\ \A k \in DOMAIN load' \ {l} : load'[k] = load[k]
          /\ load'[l] = IF valid THEN [load[l] EXCEPT !.pc = "accepted"]
                        ELSE TurnedDown(load[l], "refused")
      BY <2>9, <2>3 DEF LoadExecute, StoreTyped, IsMap, LoadSet
    <3>2. CASE valid
      <4>1. load[l].linked # {}
        BY <2>3, <3>1, <3>2 DEF LoadOk, Snapshot, Valid
      <4>2. LoadOk(load[l])'
        BY <2>1, <2>3, <3>1, <3>2, <4>1 DEF LoadSet, LoadOk, Begun, Snapshot, Missing, Reason
      <4> QED
        BY <2>4, <3>1, <4>2
    <3>3. CASE ~valid
      <4>1. \/ ~Valid(body.nodes, body.entry, ParsedEdges(body))
            \/ body.nodes \intersect gone[load[l].flow] # {}
            \/ load[l].flow \in dropped
        <5> SUFFICES ASSUME load[l].flow \notin dropped,
                            body.nodes \intersect gone[load[l].flow] = {}
                     PROVE  DOMAIN load[l].read = body.nodes
          BY <3>3
        <5> QED
          BY <2>3, <3>1 DEF LoadOk, Snapshot, Missing
      <4>2. LoadOk(load[l])'
        BY <2>1, <2>3, <2>5, <3>1, <3>3, <4>1 DEF LoadOk, Begun, Snapshot, Missing, Reason
      <4> QED
        BY <2>4, <3>1, <4>2
    <3> QED
      BY <3>2, <3>3
  <2>10. CASE LoadResume(l) \/ LoadBreaks(l)
    <3>1. DOMAIN load' = DOMAIN load \ {l} /\ \A k \in DOMAIN load' : load'[k] = load[k]
      BY <2>10 DEF LoadResume, LoadBreaks, Without, Only
    <3> QED
      BY <2>1, <3>1 DEF LoadsInv, LoadOk, Begun, Snapshot, Missing, Reason
  <2> QED
    BY <1>6, <2>6, <2>7, <2>8, <2>9, <2>10 DEF Load
<1>7. CASE UNCHANGED vars
  BY <1>7, LoadsUntouched DEF vars
<1> QED
  BY <1>1, <1>2, <1>3, <1>4, <1>5, <1>6, <1>7 DEF Next

StoreInv == StoreTyped /\ LinksInv /\ UpdatesInv /\ LoadsInv

LEMMA StoreInvariant == Spec => []StoreInv
<1>1. Init => StoreInv
  BY StoreTypedInit, LinksInit, UpdatesInit, LoadsInit DEF StoreInv
<1>2. StoreInv /\ [Next]_vars => StoreInv'
  BY StoreTypedStep, LinksStep, UpdatesStep, LoadsStep DEF StoreInv
<1> QED
  BY <1>1, <1>2, PTL DEF Spec

\* A flow accepted for execution is the flow of one moment, though its nodes are read
\* one by one while others create, update and delete.
THEOREM LoadsAreSnapshots == Spec => []AcceptedIsSnapshot
<1>1. StoreInv => AcceptedIsSnapshot
  <2> SUFFICES ASSUME StoreInv, NEW l \in DOMAIN load, load[l].pc = "accepted"
               PROVE  /\ load[l].there
                      /\ DOMAIN load[l].read = load[l].linked
                      /\ \A n \in DOMAIN load[l].kept : load[l].read[n] = load[l].kept[n]
    BY DEF AcceptedIsSnapshot
  <2>1. Begun(load[l]) /\ Snapshot(load[l])
    BY DEF StoreInv, LoadsInv, LoadOk
  <2>2. load[l].todo = {}
    BY <2>1 DEF Begun
  <2> QED
    BY <2>1, <2>2 DEF Snapshot
<1> QED
  BY <1>1, StoreInvariant, PTL

\* A flow that could be executed when it was created is turned down only once one of
\* its nodes or the flow itself is deleted.
THEOREM RefusalsHaveReasons == Spec => []RefusedForAReason
<1>1. StoreInv => RefusedForAReason
  BY DEF StoreInv, LoadsInv, LoadOk, Reason, RefusedForAReason
<1> QED
  BY <1>1, StoreInvariant, PTL

\* An update that nobody overtook changes one column of a row that is there.
THEOREM FreshUpdatesAreClean == Spec => OnlyStaleUpdatesClobber
<1> DEFINE Clean(n) ==
      \/ n \notin DOMAIN node'
      \/ n \notin born
      \/ \E u \in DOMAIN update \ DOMAIN update' :
            update[u].node = n /\ ~update[u].fresh
      \/ /\ n \in DOMAIN node
         /\ \E field \in Fields : \A other \in Fields \ {field} :
               node'[n][other] = node[n][other]
<1>1. StoreInv /\ [Next]_vars => [\A n \in Nodes : Clean(n)]_vars
  <2> SUFFICES ASSUME StoreInv, Next, NEW n \in Nodes PROVE Clean(n)
    OBVIOUS
  <2> USE DEF tables, history
  <2>1. ASSUME n \notin DOMAIN node' \/ (n \in DOMAIN node /\ node'[n] = node[n])
        PROVE  Clean(n)
    BY <2>1, FieldsAssumption
  <2>2. ASSUME NEW m \in Nodes, NEW row \in Row, CreateNode(m, row) PROVE Clean(n)
    BY <2>1, <2>2 DEF CreateNode, Put
  <2>3. ASSUME NEW m \in Nodes, DeleteNode(m) PROVE Clean(n)
    BY <2>1, <2>3 DEF DeleteNode, Without, Only
  <2>4. ASSUME NEW u \in Updates, UpdateNode(u) PROVE Clean(n)
    <3>1. CASE UpdateSave(u) /\ update[u].node = n
      <4>1. u \in DOMAIN update \ DOMAIN update'
        BY <3>1 DEF UpdateSave, Outdated, Without, Only
      <4>2. node'[n] = update[u].row
        BY <3>1 DEF UpdateSave, Put
      <4>3. update[u].fresh =>
               /\ n \in DOMAIN node
               /\ \E field \in Fields : \A other \in Fields \ {field} :
                     update[u].row[other] = node[n][other]
        BY <3>1, <4>1 DEF StoreInv, UpdatesInv
      <4> QED
        BY <3>1, <4>1, <4>2, <4>3
    <3>2. CASE UpdateSave(u) /\ update[u].node # n
      BY <2>1, <3>2 DEF UpdateSave, Put
    <3>3. CASE ~UpdateSave(u)
      BY <2>1, <2>4, <3>3 DEF UpdateNode, UpdateGet, UpdateFails
    <3> QED
      BY <3>1, <3>2, <3>3
  <2>5. ASSUME UNCHANGED node PROVE Clean(n)
    BY <2>1, <2>5
  <2>6. ASSUME NEW c \in Creations, CreateFlow(c) PROVE Clean(n)
    BY <2>5, <2>6 DEF CreateFlow, FlowBegin, FlowLink, FlowCommit, FlowRollback
  <2>7. ASSUME NEW f \in Flows, DeleteFlow(f) PROVE Clean(n)
    BY <2>5, <2>7 DEF DeleteFlow
  <2>8. ASSUME NEW l \in Loads, Load(l) PROVE Clean(n)
    BY <2>5, <2>8 DEF Load, LoadFlow, LoadLinks, LoadNode, LoadExecute, LoadResume, LoadBreaks
  <2> QED
    BY <2>2, <2>3, <2>4, <2>6, <2>7, <2>8 DEF Next
<1> QED
  BY <1>1, StoreInvariant, PTL DEF Spec, OnlyStaleUpdatesClobber
=============================================================================
