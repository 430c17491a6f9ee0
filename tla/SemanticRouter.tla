--------------------------- MODULE SemanticRouter ---------------------------
(***************************************************************************)
(* The choice of a flow for a message (internal/core/router.go) with the   *)
(* embedding cache (internal/core/state.go) and the stored descriptions    *)
(* (internal/persistence/unified.go, vector.go).                           *)
(*                                                                         *)
(* The graphs of registered flows are in memory; the vectors of their      *)
(* descriptions are in the database, where registering a flow again adds   *)
(* another one and nothing removes any; embeddings of messages are cached  *)
(* in Redis under a hash of the text.  An embedding is named by the text   *)
(* it was made from.                                                       *)
(*                                                                         *)
(* The module has no Init and Next of its own: Chat extends it.            *)
(***************************************************************************)
EXTENDS Naturals

CONSTANTS
    Flows,
    Texts,        \* descriptions of flows and messages
    Descriptions, \* pairs of a flow and a description it has at some time
    None,         \* no flow, no text
    Hash,         \* the cache key of each text
    Score,        \* similarity of two texts
    MinScore,     \* the threshold (minConfidence)
    Messages      \* messages, each of which is routed once

ASSUME RouterAssumption ==
    /\ None \notin Flows \union Texts
    /\ Descriptions \subseteq Flows \X Texts
    /\ DOMAIN Hash = Texts
    /\ Score \in [Texts \X Texts -> Nat]
    /\ MinScore \in Nat

VARIABLES
    registry,  \* the description of the graph registered for each flow
    vectors,   \* descriptions stored in the database
    cache,     \* the text whose embedding is cached under each key
    routings   \* calls of Route

router == <<registry, vectors, cache, routings>>

----------------------------------------------------------------------------
(* Types *)

Keys    == {Hash[t] : t \in Texts}
Vectors == Flows \X Texts
NoBest  == <<None, None>>

RoutingSet == [pc        : {"lookup", "embed", "cache", "search", "choose",
                            "routed", "failed", "dead"},
               text      : Texts,
               embedding : Texts \union {None},
               best      : Vectors \union {NoBest},
               seen      : SUBSET Vectors,  \* history: what the search chose from
               graph     : Vectors \union {NoBest}]
NoRouting  == [pc |-> "none"]

Routing(m) == routings[m].pc \in {"lookup", "embed", "cache", "search", "choose"}

----------------------------------------------------------------------------
\* The database and Redis hold what earlier processes left.
RouterInit ==
    /\ registry = [f \in Flows |-> None]
    /\ vectors \in SUBSET Descriptions
    /\ cache \in {c \in [Keys -> Texts \union {None}] :
                     \A k \in Keys : c[k] = None \/ Hash[c[k]] = k}
    /\ routings = [m \in Messages |-> NoRouting]

\* RegisterFlow: the graph is registered first; the embedding of its description
\* may fail to be made or to be stored, and what is in between is what such a
\* failure leaves.
RegisterFlow(f, description) ==
    /\ registry' = [registry EXCEPT ![f] = description]
    /\ vectors' \in {vectors, vectors \union {<<f, description>>}}
    /\ UNCHANGED <<cache, routings>>

UnregisterFlow(f) ==
    /\ registry[f] # None
    /\ registry' = [registry EXCEPT ![f] = None]
    /\ UNCHANGED <<vectors, cache, routings>>

\* Seven days after the embedding was cached.
CacheExpires(k) ==
    /\ cache[k] # None
    /\ cache' = [cache EXCEPT ![k] = None]
    /\ UNCHANGED <<registry, vectors, routings>>

Moves(m, pc) == routings' = [routings EXCEPT ![m].pc = pc]

Route(m, text) ==
    routings' = [routings EXCEPT ![m] =
        [pc |-> "lookup", text |-> text, embedding |-> None, best |-> NoBest,
         seen |-> {}, graph |-> NoBest]]

\* GetCachedEmbedding; an error counts as a miss.
LookUp(m) ==
    LET cached == cache[Hash[routings[m].text]] IN
    /\ routings[m].pc = "lookup"
    /\ \/ Moves(m, "embed")
       \/ /\ cached # None
          /\ routings' = [routings EXCEPT ![m].pc = "search", ![m].embedding = cached]
    /\ UNCHANGED <<registry, vectors, cache>>

Embed(m) ==
    /\ routings[m].pc = "embed"
    /\ \/ routings' = [routings EXCEPT ![m].pc = "cache", ![m].embedding = routings[m].text]
       \/ Moves(m, "failed")
    /\ UNCHANGED <<registry, vectors, cache>>

\* CacheEmbedding, whose error is ignored.
CacheEmbedding(m) ==
    /\ routings[m].pc = "cache"
    /\ Moves(m, "search")
    /\ cache' \in {cache, [cache EXCEPT ![Hash[routings[m].text]] = routings[m].embedding]}
    /\ UNCHANGED <<registry, vectors>>

\* How near a stored description is to the embedding of a message.
Nearness(m, vector) == Score[routings[m].embedding, vector[2]]

\* SearchSimilarFlows: the nearest of the stored descriptions, if there is one.
Search(m) ==
    /\ routings[m].pc = "search"
    /\ \/ Moves(m, "failed")
       \/ \E best \in vectors :
             /\ \A other \in vectors : Nearness(m, best) >= Nearness(m, other)
             /\ routings' = [routings EXCEPT ![m].pc = "choose", ![m].best = best,
                                             ![m].seen = vectors]
    /\ UNCHANGED <<registry, vectors, cache>>

\* Mutant: the threshold is not compared with.
ChooseBelow(m) ==
    LET flow == routings[m].best[1] IN
    /\ routings[m].pc = "choose"
    /\ IF registry[flow] # None
       THEN routings' = [routings EXCEPT ![m].pc = "routed",
                                         ![m].graph = <<flow, registry[flow]>>]
       ELSE Moves(m, "failed")
    /\ UNCHANGED <<registry, vectors, cache>>

\* The threshold, and the registry: a stored flow that is not registered in this
\* process fails the routing, even if another one is near enough.
Choose(m) ==
    LET flow == routings[m].best[1] IN
    /\ routings[m].pc = "choose"
    /\ IF Nearness(m, routings[m].best) >= MinScore /\ registry[flow] # None
       THEN routings' = [routings EXCEPT ![m].pc = "routed",
                                         ![m].graph = <<flow, registry[flow]>>]
       ELSE Moves(m, "failed")
    /\ UNCHANGED <<registry, vectors, cache>>

\* The process dies: database and Redis stay.
RouterDies ==
    /\ registry' = [f \in Flows |-> None]
    /\ routings' = [m \in Messages |->
           IF Routing(m) THEN [routings[m] EXCEPT !.pc = "dead"] ELSE routings[m]]
    /\ UNCHANGED <<vectors, cache>>

RouteStep(m) ==
    LookUp(m) \/ Embed(m) \/ CacheEmbedding(m) \/ Search(m) \/ Choose(m)

----------------------------------------------------------------------------
(* What the router promises *)

RouterTypeOK ==
    /\ registry \in [Flows -> Texts \union {None}]
    /\ vectors \subseteq Vectors
    /\ cache \in [Keys -> Texts \union {None}]
    /\ routings \in [Messages -> RoutingSet \union {NoRouting}]

\* Whatever is cached, registered, replaced or lost with a process meanwhile, a
\* message is routed by the embedding of a text with its hash to the graph of a
\* flow that was registered, of which the database had a description, present or
\* past, as near as the threshold asks for, and nothing it had was nearer.
RoutedToBest ==
    \A m \in Messages : routings[m].pc = "routed" =>
        LET r == routings[m] IN
        /\ r.embedding \in Texts /\ Hash[r.embedding] = Hash[r.text]
        /\ r.graph \in Descriptions
        /\ \E v \in r.seen \intersect Descriptions :
              /\ v[1] = r.graph[1]
              /\ Score[r.embedding, v[2]] >= MinScore
              /\ \A other \in r.seen : Score[r.embedding, v[2]] >= Score[r.embedding, other[2]]
=============================================================================
