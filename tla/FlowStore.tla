------------------------------ MODULE FlowStore ------------------------------
(***************************************************************************)
(* Nodes and flows in PostgreSQL (internal/persistence/relational.go,      *)
(* docker/init.sql), the handlers that write them and the loader that      *)
(* turns a stored flow into a graph (internal/adi/handler.go; main.go has  *)
(* a copy of the loader for schedules).                                    *)
(*                                                                         *)
(* Each SQL statement is a step.  A flow is created in one transaction,    *)
(* everything else statement by statement: an update reads the row and     *)
(* writes all of it back, a load reads the flow, its links and each node   *)
(* one after the other.  Isolation is READ COMMITTED, PostgreSQL's         *)
(* default: a statement sees what was committed before it.                 *)
(***************************************************************************)
EXTENDS FiniteSets

CONSTANTS
    Nodes,      \* ids of nodes
    Flows,      \* ids of flows
    Fields,     \* columns of a node that an update may set
    Values,     \* what they may hold
    Bodies,     \* flows that clients ask for
    Updates,    \* UpdateNode requests served at the same time
    Creations,  \* CreateFlow requests served at the same time
    Loads       \* requests that load a flow in order to run it

\* A client may name nodes that do not exist, edges and an entry that are not
\* among the nodes, and edges that cannot be parsed: CreateFlow checks nothing.
BodySet == [nodes : SUBSET Nodes, entry : Nodes, edges : SUBSET (Nodes \X Nodes),
            parsable : BOOLEAN]

ASSUME BodiesAssumption == Bodies \subseteq BodySet
ASSUME FieldsAssumption == Fields # {}

VARIABLES
    \* the tables, maps from the ids they hold
    node,       \* node_definitions
    flow,       \* flow_graphs
    links,      \* flow_graph_nodes
    \* requests under way, maps from those that are
    update,
    creation,
    load,       \* also the loads that have ended
    \* history, for the properties only
    born,       \* nodes ever created
    gone,       \* nodes deleted since each flow was created
    dropped     \* flows deleted

tables  == <<node, flow, links>>
history == <<born, gone, dropped>>
vars    == <<tables, update, creation, load, history>>

----------------------------------------------------------------------------
(* Types *)

Row == [Fields -> Values]

\* The maps from some nodes to their rows.
RowMaps == UNION {[D -> Row] : D \in SUBSET Nodes}

\* An UpdateNode between its SELECT and its upsert of "row"; "fresh" is history: the
\* row in the table has not been written or deleted since.
UpdateSet == [node : Nodes, row : Row, fresh : BOOLEAN]

\* A SaveFlowGraph transaction; "todo" are the nodes it has still to link.
CreationSet == [flow : Flows, body : Bodies, todo : SUBSET Nodes]

\* A load; "read" are the rows of the nodes read so far.  The rest is history: the
\* nodes linked, and whether the flow was there, when the links were read, and the
\* rows at that moment of those that nobody wrote before their own SELECT.
LoadPCs == {"links", "nodes", "absent", "refused", "accepted"}
LoadSet == [flow : Flows, body : Bodies, pc : LoadPCs, todo : SUBSET Nodes, read : RowMaps,
            linked : SUBSET Nodes, there : BOOLEAN, kept : RowMaps]

\* A map from some of S to T.
IsMap(map, S, T) == DOMAIN map \subseteq S /\ map \in [DOMAIN map -> T]

Empty           == [x \in {} |-> x]
Put(map, x, v)  == [y \in DOMAIN map \union {x} |-> IF y = x THEN v ELSE map[y]]
Only(map, S)    == [y \in DOMAIN map \intersect S |-> map[y]]
Without(map, x) == Only(map, DOMAIN map \ {x})

Linked(f)  == {n \in Nodes : <<f, n>> \in links}
Loading(l) == l \in DOMAIN load /\ load[l].pc \in {"links", "nodes"}

\* A row that a transaction has linked is locked against deletion until it ends
\* (the key share lock that checks the foreign key).
Locked(n) == \E c \in DOMAIN creation : n \in creation[c].body.nodes \ creation[c].todo

----------------------------------------------------------------------------
Init ==
    /\ node = Empty
    /\ flow = Empty
    /\ links = {}
    /\ update = Empty
    /\ creation = Empty
    /\ load = Empty
    /\ born = {}
    /\ gone = [f \in Flows |-> {}]
    /\ dropped = {}

\* History: requests that have read the row of a node, or are about to read it,
\* while it is written or deleted.
Outdated(map, n) ==
    [v \in DOMAIN map |-> [map[v] EXCEPT !.fresh = @ /\ map[v].node # n]]
Written(n) ==
    load' = [l \in DOMAIN load |->
                IF n \in load[l].todo THEN [load[l] EXCEPT !.kept = Without(@, n)]
                ELSE load[l]]

----------------------------------------------------------------------------
(* Nodes *)

\* A node is created under a new id, by the statement that also updates nodes.
CreateNode(n, row) ==
    /\ n \notin born
    /\ node' = Put(node, n, row)
    /\ born' = born \union {n}
    /\ UNCHANGED <<flow, links, update, creation, load, gone, dropped>>

\* Mutant: the columns that the request does not name are reset.
UpdateGetResets(u, n, field, value) ==
    /\ u \notin DOMAIN update
    /\ n \in DOMAIN node
    /\ update' = Put(update, u, [node |-> n, row |-> [f \in Fields |-> value],
                                 fresh |-> TRUE])
    /\ UNCHANGED <<tables, creation, load, history>>

\* UpdateNode reads the row and sets the column that the request names; without a
\* row it answers 404.
UpdateGet(u, n, field, value) ==
    /\ u \notin DOMAIN update
    /\ n \in DOMAIN node
    /\ update' = Put(update, u, [node |-> n, row |-> [node[n] EXCEPT ![field] = value],
                                 fresh |-> TRUE])
    /\ UNCHANGED <<tables, creation, load, history>>

\* It writes back the whole row: an upsert, which inserts the row if it is gone.
UpdateSave(u) ==
    /\ u \in DOMAIN update
    /\ LET n == update[u].node IN
          /\ node' = Put(node, n, update[u].row)
          /\ update' = Outdated(Without(update, u), n)
          /\ Written(n)
    /\ UNCHANGED <<flow, links, creation, history>>

\* The upsert, or the parsing of the request after the SELECT, fails.
UpdateFails(u) ==
    /\ u \in DOMAIN update
    /\ update' = Without(update, u)
    /\ UNCHANGED <<tables, creation, load, history>>

\* Mutant: the links of a deleted node stay.
DeleteNodeNoCascade(n) ==
    /\ n \in DOMAIN node
    /\ ~Locked(n)
    /\ node' = Without(node, n)
    /\ update' = Outdated(update, n)
    /\ Written(n)
    /\ gone' = [f \in Flows |-> IF f \in DOMAIN flow THEN gone[f] \union {n} ELSE gone[f]]
    /\ UNCHANGED <<flow, links, creation, born, dropped>>

\* One DELETE, which cascades to the links but knows nothing of edges and entries.
DeleteNode(n) ==
    /\ n \in DOMAIN node
    /\ ~Locked(n)
    /\ node' = Without(node, n)
    /\ links' = {link \in links : link[2] # n}
    /\ update' = Outdated(update, n)
    /\ Written(n)
    /\ gone' = [f \in Flows |-> IF f \in DOMAIN flow THEN gone[f] \union {n} ELSE gone[f]]
    /\ UNCHANGED <<flow, creation, born, dropped>>

----------------------------------------------------------------------------
(* Flows *)

\* CreateFlow opens a transaction under a new id and inserts the flow.
FlowBegin(c, f, body) ==
    /\ c \notin DOMAIN creation
    /\ f \notin DOMAIN flow \union dropped
    /\ \A d \in DOMAIN creation : creation[d].flow # f
    /\ creation' = Put(creation, c, [flow |-> f, body |-> body, todo |-> body.nodes])
    /\ UNCHANGED <<tables, update, load, history>>

\* Mutant: nodes that do not exist are passed over.
FlowLinkSkips(c, n) ==
    /\ c \in DOMAIN creation /\ n \in creation[c].todo
    /\ creation' = [creation EXCEPT ![c].todo = @ \ {n}]
    /\ UNCHANGED <<tables, update, load, history>>

\* It links one node; the foreign key demands that the node exists.
FlowLink(c, n) ==
    /\ c \in DOMAIN creation /\ n \in creation[c].todo
    /\ n \in DOMAIN node
    /\ creation' = [creation EXCEPT ![c].todo = @ \ {n}]
    /\ UNCHANGED <<tables, update, load, history>>

\* Mutant: the flow is visible before its nodes are linked.
FlowCommitEarly(c) ==
    /\ c \in DOMAIN creation
    /\ LET made == creation[c] IN
          /\ flow' = Put(flow, made.flow, made.body)
          /\ links' = links \union ({made.flow} \X (made.body.nodes \ made.todo))
          /\ IF made.todo = {} THEN creation' = Without(creation, c) ELSE UNCHANGED creation
    /\ UNCHANGED <<node, update, load, history>>

\* With the commit all of it becomes visible.
FlowCommit(c) ==
    /\ c \in DOMAIN creation /\ creation[c].todo = {}
    /\ LET made == creation[c] IN
          /\ flow' = Put(flow, made.flow, made.body)
          /\ links' = links \union ({made.flow} \X made.body.nodes)
    /\ creation' = Without(creation, c)
    /\ UNCHANGED <<node, update, load, history>>

\* A missing node, an error or a client that has gone rolls back all of it.
FlowRollback(c) ==
    /\ c \in DOMAIN creation
    /\ creation' = Without(creation, c)
    /\ UNCHANGED <<tables, update, load, history>>

\* One DELETE, which cascades to the links.
DeleteFlow(f) ==
    /\ f \in DOMAIN flow
    /\ flow' = Without(flow, f)
    /\ links' = {link \in links : link[1] # f}
    /\ dropped' = dropped \union {f}
    /\ UNCHANGED <<node, update, creation, load, born, gone>>

----------------------------------------------------------------------------
(* Loading a flow *)

\* ExecuteFlow, a due schedule or SubmitFeedback reads the flow; without one the
\* request is refused.  Which of them it is matters only at the end.
LoadFlow(l, f) ==
    /\ ~Loading(l)
    /\ f \in DOMAIN flow
    /\ load' = Put(load, l, [flow |-> f, body |-> flow[f], pc |-> "links", todo |-> {},
                             read |-> Empty, linked |-> {}, there |-> TRUE,
                             kept |-> Empty])
    /\ UNCHANGED <<tables, update, creation, history>>

\* The second query reads the ids of the linked nodes.
LoadLinks(l) ==
    /\ l \in DOMAIN load /\ load[l].pc = "links"
    /\ LET f == load[l].flow IN
          load' = [load EXCEPT ![l].pc = "nodes", ![l].todo = Linked(f),
                               ![l].linked = Linked(f), ![l].there = f \in DOMAIN flow,
                               ![l].kept = Only(node, Linked(f))]
    /\ UNCHANGED <<tables, update, creation, history>>

\* A load that found no graph to execute has nothing to keep.
TurnedDown(rec, why) ==
    [rec EXCEPT !.pc = why, !.todo = {}, !.read = Empty, !.linked = {},
                !.there = TRUE, !.kept = Empty]

\* Mutant: a node without a row is passed over.
LoadNodeSkips(l, n) ==
    /\ l \in DOMAIN load /\ load[l].pc = "nodes" /\ n \in load[l].todo
    /\ load' = IF n \in DOMAIN node
               THEN [load EXCEPT ![l].todo = @ \ {n}, ![l].read = Put(@, n, node[n])]
               ELSE [load EXCEPT ![l].todo = @ \ {n}]
    /\ UNCHANGED <<tables, update, creation, history>>

\* Then the nodes, one query each; one that has no row ends the load.
LoadNode(l, n) ==
    /\ l \in DOMAIN load /\ load[l].pc = "nodes" /\ n \in load[l].todo
    /\ load' = IF n \in DOMAIN node
               THEN [load EXCEPT ![l].todo = @ \ {n}, ![l].read = Put(@, n, node[n])]
               ELSE [load EXCEPT ![l] = TurnedDown(@, "absent")]
    /\ UNCHANGED <<tables, update, creation, history>>

\* A query fails.
LoadBreaks(l) ==
    /\ Loading(l)
    /\ load' = Without(load, l)
    /\ UNCHANGED <<tables, update, creation, history>>

\* Edges that cannot be parsed are dropped without an error.
ParsedEdges(body) == IF body.parsable THEN body.edges ELSE {}

\* What FlowGraph.Validate accepts.
Valid(nodes, entry, edges) ==
    /\ entry \in nodes
    /\ edges \subseteq nodes \X nodes
    /\ \A S \in SUBSET nodes :
          entry \in S /\ (\A e \in edges : e[1] \in S => e[2] \in S) => S = nodes

\* Execute validates the graph before it runs.
LoadExecute(l) ==
    /\ l \in DOMAIN load /\ load[l].pc = "nodes" /\ load[l].todo = {}
    /\ LET body == load[l].body IN
          load' = IF Valid(DOMAIN load[l].read, body.entry, ParsedEdges(body))
                  THEN [load EXCEPT ![l].pc = "accepted"]
                  ELSE [load EXCEPT ![l] = TurnedDown(@, "refused")]
    /\ UNCHANGED <<tables, update, creation, history>>

\* Resume does not, and takes the graph as it is.
LoadResume(l) ==
    /\ l \in DOMAIN load /\ load[l].pc = "nodes" /\ load[l].todo = {}
    /\ load' = Without(load, l)
    /\ UNCHANGED <<tables, update, creation, history>>

----------------------------------------------------------------------------
UpdateNode(u) ==
    \/ \E n \in Nodes, field \in Fields, value \in Values : UpdateGet(u, n, field, value)
    \/ UpdateSave(u) \/ UpdateFails(u)

CreateFlow(c) ==
    \/ \E f \in Flows, body \in Bodies : FlowBegin(c, f, body)
    \/ \E n \in Nodes : FlowLink(c, n)
    \/ FlowCommit(c) \/ FlowRollback(c)

Load(l) ==
    \/ \E f \in Flows : LoadFlow(l, f)
    \/ \E n \in Nodes : LoadNode(l, n)
    \/ LoadLinks(l) \/ LoadExecute(l) \/ LoadResume(l) \/ LoadBreaks(l)

Next ==
    \/ \E n \in Nodes, row \in Row : CreateNode(n, row)
    \/ \E n \in Nodes : DeleteNode(n)
    \/ \E u \in Updates : UpdateNode(u)
    \/ \E c \in Creations : CreateFlow(c)
    \/ \E f \in Flows : DeleteFlow(f)
    \/ \E l \in Loads : Load(l)

Spec == Init /\ [][Next]_vars

----------------------------------------------------------------------------
(* What the store promises *)

\* Every variable holds values of its type, and the foreign keys of the links refer
\* to rows.
TypeOK ==
    /\ node \in RowMaps
    /\ IsMap(flow, Flows, Bodies)
    /\ links \subseteq (DOMAIN flow) \X (DOMAIN node)
    /\ IsMap(update, Updates, UpdateSet)
    /\ IsMap(creation, Creations, CreationSet)
    /\ IsMap(load, Loads, LoadSet)
    /\ born \subseteq Nodes
    /\ gone \in [Flows -> SUBSET Nodes]
    /\ dropped \subseteq Flows

\* A flow that can be seen is linked to exactly the nodes it was created with, but
\* for those deleted since: creation is all or nothing, though nodes are deleted
\* while it goes on, and a node that an overlapping update brings back is not
\* linked again.
LinksAreExact ==
    \A f \in Flows : Linked(f) =
        IF f \in DOMAIN flow THEN flow[f].nodes \ gone[f] ELSE {}

\* Three or more queries that no transaction holds together amount to a snapshot: a
\* flow accepted for execution was there when its links were read, with just the
\* nodes that were loaded, and with their rows but for those written before they
\* were read.
AcceptedIsSnapshot ==
    \A l \in DOMAIN load : load[l].pc = "accepted" =>
        /\ load[l].there
        /\ DOMAIN load[l].read = load[l].linked
        /\ \A n \in DOMAIN load[l].kept : load[l].read[n] = load[l].kept[n]

\* A load for execution is turned down only if the flow was unsound from the start,
\* a node of it was deleted or the flow itself was.
RefusedForAReason ==
    \A l \in DOMAIN load : load[l].pc \in {"absent", "refused"} =>
        LET body == load[l].body IN
        \/ ~Valid(body.nodes, body.entry, ParsedEdges(body))
        \/ body.nodes \intersect gone[load[l].flow] # {}
        \/ load[l].flow \in dropped

\* Only an update that read the row before someone else wrote or deleted it brings
\* back a deleted node or touches a column that its request does not name.
OnlyStaleUpdatesClobber ==
    [][\A n \in Nodes :
          \/ n \notin DOMAIN node'
          \/ n \notin born
          \/ \E u \in DOMAIN update \ DOMAIN update' :
                update[u].node = n /\ ~update[u].fresh
          \/ /\ n \in DOMAIN node
             /\ \E field \in Fields : \A other \in Fields \ {field} :
                   node'[n][other] = node[n][other]]_vars
=============================================================================
