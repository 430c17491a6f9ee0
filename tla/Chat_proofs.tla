----------------------------- MODULE Chat_proofs -----------------------------
(***************************************************************************)
(* Proofs about chat and the router, for any number of flows, texts,       *)
(* messages and connections, any hash and any similarity, and buffers of   *)
(* any size.                                                               *)
(***************************************************************************)
EXTENDS Chat, SequenceTheorems, TLAPS

\* A description is a pair of a flow and a text.
LEMMA DescriptionPairs ==
  \A d \in Descriptions : d[1] \in Flows /\ d[2] \in Texts /\ d = <<d[1], d[2]>>
BY RouterAssumption

----------------------------------------------------------------------------
(* Routing *)

\* What the memory of the process, the database and the cache hold.
StoresInv ==
    /\ registry \in [Flows -> Texts \union {None}]
    /\ \A f \in Flows : registry[f] # None => <<f, registry[f]>> \in Descriptions
    /\ vectors \subseteq Descriptions
    /\ cache \in [Keys -> Texts \union {None}]
    /\ \A k \in Keys : cache[k] # None => Hash[cache[k]] = k

\* What a call of Route holds at each stage.
Near(embedding, vector) == Score[embedding, vector[2]]

Embedded(r) == r.embedding \in Texts /\ Hash[r.embedding] = Hash[r.text]

Chosen(r) ==
    /\ r.seen \subseteq Descriptions
    /\ r.best \in r.seen
    /\ \A other \in r.seen : Near(r.embedding, r.best) >= Near(r.embedding, other)

RoutingInv(r) ==
    \/ r = NoRouting
    \/ /\ r \in RoutingSet
       /\ r.pc = "cache" => r.embedding = r.text
       /\ r.pc \in {"search", "choose", "routed"} => Embedded(r)
       /\ r.pc \in {"choose", "routed"} => Chosen(r)
       /\ r.pc = "routed" =>
             /\ r.graph \in Descriptions
             /\ r.graph[1] = r.best[1]
             /\ Near(r.embedding, r.best) >= MinScore

RouterInv ==
    /\ StoresInv
    /\ routings \in [Messages -> RoutingSet \union {NoRouting}]
    /\ \A m \in Messages : RoutingInv(routings[m])

\* Only the call of one message changes, and it is given another routing.
Updates(m, r) == routings' = [routings EXCEPT ![m] = r]

LEMMA UpdateKeepsRouterInv ==
  ASSUME RouterInv, StoresInv', NEW m \in Messages, NEW r, RoutingInv(r), Updates(m, r)
  PROVE  RouterInv'
<1>1. /\ routings' \in [Messages -> RoutingSet \union {NoRouting}]
      /\ \A n \in Messages : routings'[n] = IF n = m THEN r ELSE routings[n]
  BY DEF RouterInv, RoutingInv, Updates
<1>2. \A n \in Messages : RoutingInv(routings'[n])
  BY <1>1 DEF RouterInv
<1>3. \A n \in Messages : RoutingInv(routings[n])'
  BY <1>2 DEF RoutingInv, Embedded, Chosen
<1> QED
  BY <1>1, <1>3 DEF RouterInv

LEMMA RouterInvInit == Init => RouterInv
<1> SUFFICES ASSUME Init PROVE RouterInv
  OBVIOUS
<1>1. StoresInv
  BY DEF Init, RouterInit, StoresInv
<1>2. \A m \in Messages : RoutingInv(routings[m])
  BY DEF Init, RouterInit, RoutingInv
<1> QED
  BY <1>1, <1>2 DEF Init, RouterInit, RouterInv

\* What is at hand of a call under way.
LEMMA RoutingFacts ==
  ASSUME RouterInv, NEW m \in Messages, routings[m].pc # "none"
  PROVE  /\ routings[m] \in RoutingSet
         /\ routings[m].text \in Texts
         /\ Hash[routings[m].text] \in Keys
<1>1. routings[m] \in RoutingSet
  BY DEF RouterInv, RoutingInv, NoRouting
<1>2. routings[m].text \in Texts
  BY <1>1 DEF RoutingSet
<1> QED
  BY <1>1, <1>2 DEF Keys

\* Whatever a call of Route is started with.
LEMMA RouteStarts ==
  ASSUME RouterInv, StoresInv', NEW m \in Messages, NEW text \in Texts, Route(m, text)
  PROVE  RouterInv'
<1> DEFINE r == [pc |-> "lookup", text |-> text, embedding |-> None, best |-> NoBest,
                 seen |-> {}, graph |-> NoBest]
<1>1. r \in RoutingSet
  BY DEF RoutingSet
<1>2. RoutingInv(r)
  BY <1>1 DEF RoutingInv
<1>3. Updates(m, r)
  BY DEF Route, Updates
<1> HIDE DEF r
<1> QED
  BY <1>2, <1>3, UpdateKeepsRouterInv

\* A call that moves on to a stage of which nothing is asked.
LEMMA MovesOn ==
  ASSUME RouterInv, StoresInv', NEW m \in Messages, routings[m].pc # "none",
         NEW pc \in {"embed", "failed"}, Moves(m, pc)
  PROVE  RouterInv'
<1>1. routings[m] \in RoutingSet
  BY RoutingFacts
<1> DEFINE r == [routings[m] EXCEPT !.pc = pc]
<1>2. r \in RoutingSet /\ r.pc = pc
  BY <1>1 DEF RoutingSet
<1>3. RoutingInv(r)
  BY <1>2 DEF RoutingInv
<1>4. Updates(m, r)
  BY DEF Moves, Updates
<1> HIDE DEF r
<1> QED
  BY <1>3, <1>4, UpdateKeepsRouterInv

\* A step of a call of Route: where it has an embedding, it is that of a text with
\* the hash of its own; what it has found is the nearest of what it has seen.
LEMMA RouteStepInv ==
  ASSUME RouterInv, NEW m \in Messages, RouteStep(m)
  PROVE  RouterInv'
<1>0. routings[m].pc # "none"
  BY DEF RouteStep, LookUp, Embed, CacheEmbedding, Search, Choose
<1>1. /\ routings[m] \in RoutingSet /\ routings[m].text \in Texts
      /\ Hash[routings[m].text] \in Keys
  BY <1>0, RoutingFacts
<1>2. RoutingInv(routings[m]) /\ routings[m] # NoRouting
  BY <1>0 DEF RouterInv, NoRouting
<1>3. StoresInv
  BY DEF RouterInv
<1>4. ASSUME UNCHANGED <<registry, vectors, cache>> PROVE StoresInv'
  BY <1>3, <1>4 DEF StoresInv
<1>5. CASE LookUp(m)
  <2>1. StoresInv'
    BY <1>4, <1>5 DEF LookUp
  <2>2. CASE Moves(m, "embed")
    BY <1>0, <2>1, <2>2, MovesOn
  <2> DEFINE cached == cache[Hash[routings[m].text]]
             r == [routings[m] EXCEPT !.pc = "search", !.embedding = cached]
  <2>3. CASE cached # None /\ routings' = [routings EXCEPT ![m].pc = "search",
                                                            ![m].embedding = cached]
    <3>1. cached \in Texts /\ Hash[cached] = Hash[routings[m].text]
      BY <1>1, <1>3, <2>3 DEF StoresInv
    <3> HIDE DEF cached
    <3>2. /\ r \in RoutingSet /\ r.pc = "search" /\ r.embedding = cached
          /\ r.text = routings[m].text
      BY <1>1, <3>1 DEF RoutingSet
    <3>3. Updates(m, r)
      BY <2>3 DEF Updates
    <3> HIDE DEF r
    <3>4. RoutingInv(r)
      BY <3>1, <3>2 DEF RoutingInv, Embedded
    <3> QED
      BY <2>1, <3>3, <3>4, UpdateKeepsRouterInv
  <2> QED
    BY <1>5, <2>2, <2>3 DEF LookUp
<1>6. CASE Embed(m)
  <2>1. StoresInv'
    BY <1>4, <1>6 DEF Embed
  <2>2. CASE Moves(m, "failed")
    BY <1>0, <2>1, <2>2, MovesOn
  <2> DEFINE r == [routings[m] EXCEPT !.pc = "cache", !.embedding = routings[m].text]
  <2>3. CASE routings' = [routings EXCEPT ![m].pc = "cache", ![m].embedding = routings[m].text]
    <3>1. /\ r \in RoutingSet /\ r.pc = "cache" /\ r.embedding = r.text
      BY <1>1 DEF RoutingSet
    <3>2. Updates(m, r)
      BY <2>3 DEF Updates
    <3> HIDE DEF r
    <3>3. RoutingInv(r)
      BY <3>1 DEF RoutingInv
    <3> QED
      BY <2>1, <3>2, <3>3, UpdateKeepsRouterInv
  <2> QED
    BY <1>6, <2>2, <2>3 DEF Embed
<1>7. CASE CacheEmbedding(m)
  <2> DEFINE k == Hash[routings[m].text]
             r == [routings[m] EXCEPT !.pc = "search"]
  <2>1. routings[m].embedding = routings[m].text
    BY <1>2, <1>7 DEF RoutingInv, CacheEmbedding
  <2>2. /\ UNCHANGED <<registry, vectors>>
        /\ cache' \in {cache, [cache EXCEPT ![k] = routings[m].text]}
    BY <1>7, <2>1 DEF CacheEmbedding
  <2>3. StoresInv'
    <3>1. k \in Keys /\ k = Hash[routings[m].text]
      BY <1>1
    <3> HIDE DEF k
    <3> QED
      BY <1>1, <1>3, <2>2, <3>1 DEF StoresInv
  <2>4. /\ r \in RoutingSet /\ r.pc = "search" /\ r.embedding = r.text /\ r.text \in Texts
    BY <1>1, <2>1 DEF RoutingSet
  <2>5. Updates(m, r)
    BY <1>7 DEF CacheEmbedding, Moves, Updates
  <2> HIDE DEF r
  <2>6. RoutingInv(r)
    BY <2>4 DEF RoutingInv, Embedded
  <2> QED
    BY <2>3, <2>5, <2>6, UpdateKeepsRouterInv
<1>8. CASE Search(m)
  <2>1. StoresInv'
    BY <1>4, <1>8 DEF Search
  <2>2. CASE Moves(m, "failed")
    BY <1>0, <2>1, <2>2, MovesOn
  <2>3. ASSUME NEW best \in vectors,
               \A other \in vectors : Nearness(m, best) >= Nearness(m, other),
               routings' = [routings EXCEPT ![m].pc = "choose", ![m].best = best,
                                            ![m].seen = vectors]
        PROVE  RouterInv'
    <3> DEFINE r == [routings[m] EXCEPT !.pc = "choose", !.best = best, !.seen = vectors]
    <3>1. vectors \subseteq Vectors /\ vectors \subseteq Descriptions
      BY <1>3, RouterAssumption DEF StoresInv, Vectors
    <3>2. /\ r \in RoutingSet /\ r.pc = "choose" /\ r.best = best /\ r.seen = vectors
          /\ r.embedding = routings[m].embedding /\ r.text = routings[m].text
      BY <1>1, <3>1 DEF RoutingSet
    <3>3. Updates(m, r)
      BY <2>3 DEF Updates
    <3> HIDE DEF r
    <3>4. \A other \in vectors : Near(r.embedding, best) >= Near(r.embedding, other)
      BY <2>3, <3>2 DEF Nearness, Near
    <3>5. Embedded(r)
      BY <1>2, <1>8, <3>2 DEF RoutingInv, Embedded, Search
    <3>6. Chosen(r)
      BY <3>1, <3>2, <3>4 DEF Chosen
    <3>7. RoutingInv(r)
      BY <3>2, <3>5, <3>6 DEF RoutingInv
    <3> QED
      BY <2>1, <3>3, <3>7, UpdateKeepsRouterInv
  <2> QED
    BY <1>8, <2>2, <2>3 DEF Search
<1>9. CASE Choose(m)
  <2>1. StoresInv'
    BY <1>4, <1>9 DEF Choose
  <2> DEFINE best == routings[m].best
             flow == best[1]
             r == [routings[m] EXCEPT !.pc = "routed", !.graph = <<flow, registry[flow]>>]
  <2>2. CASE Moves(m, "failed")
    BY <1>0, <2>1, <2>2, MovesOn
  <2>3. CASE /\ Nearness(m, best) >= MinScore /\ registry[flow] # None
             /\ routings' = [routings EXCEPT ![m].pc = "routed",
                                             ![m].graph = <<flow, registry[flow]>>]
    <3>1. Embedded(routings[m]) /\ Chosen(routings[m])
      BY <1>2, <1>9 DEF RoutingInv, Choose
    <3>2. flow \in Flows
      BY <3>1, RouterAssumption DEF Chosen
    <3>3. <<flow, registry[flow]>> \in Descriptions
      BY <1>3, <2>3, <3>2 DEF StoresInv
    <3>4. <<flow, registry[flow]>> \in Vectors
      BY <3>3, RouterAssumption DEF Vectors
    <3>5. /\ r \in RoutingSet /\ r.pc = "routed" /\ r.graph = <<flow, registry[flow]>>
          /\ r.best = best /\ r.seen = routings[m].seen
          /\ r.embedding = routings[m].embedding /\ r.text = routings[m].text
      BY <1>1, <3>4 DEF RoutingSet
    <3>6. Updates(m, r)
      BY <2>3 DEF Updates
    <3>7. r.graph \in Descriptions /\ r.graph[1] = r.best[1]
      BY <3>3, <3>5
    <3> HIDE DEF r
    <3>8. Near(r.embedding, r.best) >= MinScore
      BY <2>3, <3>5 DEF Nearness, Near
    <3>9. Embedded(r) /\ Chosen(r)
      BY <3>1, <3>5 DEF Embedded, Chosen
    <3>10. RoutingInv(r)
      BY <3>5, <3>7, <3>8, <3>9 DEF RoutingInv
    <3> QED
      BY <2>1, <3>6, <3>10, UpdateKeepsRouterInv
  <2> QED
    BY <1>9, <2>2, <2>3 DEF Choose
<1> QED
  BY <1>5, <1>6, <1>7, <1>8, <1>9 DEF RouteStep

\* Everything else the process does: flows come and go, the cache forgets, and
\* what a call holds stays as it is, or dies with the process.
LEMMA RouterStep == RouterInv /\ [Next]_vars => RouterInv'
<1> SUFFICES ASSUME RouterInv, [Next]_vars PROVE RouterInv'
  OBVIOUS
<1>1. StoresInv
  BY DEF RouterInv
<1>2. ASSUME StoresInv', UNCHANGED routings PROVE RouterInv'
  <2>1. \A m \in Messages : RoutingInv(routings[m])'
    BY <1>2 DEF RouterInv, RoutingInv, Embedded, Chosen
  <2> QED
    BY <1>2, <2>1 DEF RouterInv
<1>3. ASSUME UNCHANGED <<registry, vectors, cache>> PROVE StoresInv'
  BY <1>1, <1>3 DEF StoresInv
<1>4. ASSUME UNCHANGED router PROVE RouterInv'
  BY <1>2, <1>3, <1>4 DEF router
<1>5. ASSUME NEW d \in Descriptions, RegisterFlow(d[1], d[2]) PROVE RouterInv'
  <2>1. d[1] \in Flows /\ d[2] \in Texts /\ d = <<d[1], d[2]>>
    BY DescriptionPairs
  <2>2. /\ registry' = [registry EXCEPT ![d[1]] = d[2]]
        /\ vectors' \subseteq vectors \union {d}
        /\ UNCHANGED <<cache, routings>>
    BY <1>5, <2>1 DEF RegisterFlow
  <2>3. StoresInv'
    BY <1>1, <2>1, <2>2 DEF StoresInv
  <2> QED
    BY <1>2, <2>2, <2>3
<1>6. ASSUME NEW f \in Flows, UnregisterFlow(f) PROVE RouterInv'
  <2>1. StoresInv'
    BY <1>1, <1>6 DEF UnregisterFlow, StoresInv
  <2> QED
    BY <1>2, <1>6, <2>1 DEF UnregisterFlow
<1>7. ASSUME NEW k \in Keys, CacheExpires(k) PROVE RouterInv'
  <2>1. StoresInv'
    BY <1>1, <1>7 DEF CacheExpires, StoresInv
  <2> QED
    BY <1>2, <1>7, <2>1 DEF CacheExpires
<1>8. ASSUME NEW m \in Messages, NEW c \in Connections, Receive(c, m) PROVE RouterInv'
  BY <1>4, <1>8 DEF Receive
<1>9. ASSUME NEW m \in Messages, NEW session \in Sessions, NEW text \in Texts,
             Post(m, session, text)
      PROVE  RouterInv'
  BY <1>3, <1>9, RouteStarts DEF Post
<1>10. ASSUME NEW m \in Messages, MessageStep(m) PROVE RouterInv'
  <2>1. ASSUME NEW text \in Texts, SendStatus(m, text) PROVE RouterInv'
    BY <1>3, <2>1, RouteStarts DEF SendStatus
  <2>2. CASE RouteReturned(m) \/ Executed(m) \/ Save(m) \/ SendReply(m)
    BY <1>4, <2>2 DEF RouteReturned, Executed, Save, SendReply
  <2> QED
    BY <1>10, <2>1, <2>2, RouteStepInv DEF MessageStep
<1>11. ASSUME NEW c \in Connections,
              \/ Connect(c) \/ Subscribe(c) \/ Take(c) \/ StopSubscriber(c)
              \/ Forward(c) \/ WriteEvent(c) \/ ForwarderEnds(c)
              \/ Close(c) \/ HandlerReturns(c)
       PROVE  RouterInv'
  BY <1>4, <1>11 DEF Connect, Subscribe, Take, StopSubscriber, Forward, WriteEvent,
                     ForwarderEnds, Close, HandlerReturns
<1>12. CASE Publish
  BY <1>4, <1>12 DEF Publish
<1>13. CASE Crash
  <2>1. StoresInv'
    BY <1>1, <1>13 DEF Crash, RouterDies, StoresInv
  <2>2. \A m \in Messages :
           \/ routings'[m] = routings[m]
           \/ Routing(m) /\ routings'[m] = [routings[m] EXCEPT !.pc = "dead"]
    BY <1>13 DEF Crash, RouterDies
  <2>3. ASSUME NEW m \in Messages
        PROVE  RoutingInv(routings[m])' /\ routings'[m] \in RoutingSet \union {NoRouting}
    <3>1. CASE routings'[m] = routings[m]
      BY <3>1 DEF RouterInv, RoutingInv, Embedded, Chosen
    <3>2. CASE Routing(m) /\ routings'[m] = [routings[m] EXCEPT !.pc = "dead"]
      <4>1. routings[m] \in RoutingSet
        BY <3>2, RoutingFacts DEF Routing
      <4>2. routings'[m] \in RoutingSet /\ routings'[m].pc = "dead"
        BY <3>2, <4>1 DEF RoutingSet
      <4> QED
        BY <4>2 DEF RoutingInv
    <3> QED
      BY <2>2, <3>1, <3>2
  <2>4. routings' \in [Messages -> RoutingSet \union {NoRouting}]
    BY <1>13, <2>3 DEF Crash, RouterDies
  <2> QED
    BY <2>1, <2>3, <2>4 DEF RouterInv
<1>14. CASE UNCHANGED vars
  BY <1>4, <1>14 DEF vars
<1> QED
  BY <1>5, <1>6, <1>7, <1>8, <1>9, <1>10, <1>11, <1>12, <1>13, <1>14 DEF Next

LEMMA RouterInvariant == Spec => []RouterInv
<1> QED
  BY RouterInvInit, RouterStep, PTL DEF Spec

\* A message is routed to the graph of a flow that was registered in its process,
\* whose stored description is the nearest and near enough, whatever the hash, the
\* similarity, and what is registered, cached or lost meanwhile.
THEOREM RoutedToNearest == Spec => []RoutedToBest
<1>1. RouterInv => RoutedToBest
  <2> SUFFICES ASSUME RouterInv, NEW m \in Messages, routings[m].pc = "routed"
               PROVE  LET r == routings[m] IN
                      /\ r.embedding \in Texts /\ Hash[r.embedding] = Hash[r.text]
                      /\ r.graph \in Descriptions
                      /\ \E v \in r.seen \intersect Descriptions :
                            /\ v[1] = r.graph[1]
                            /\ Score[r.embedding, v[2]] >= MinScore
                            /\ \A other \in r.seen :
                                  Score[r.embedding, v[2]] >= Score[r.embedding, other[2]]
    BY DEF RoutedToBest
  <2> DEFINE r == routings[m]
  <2>1. /\ Embedded(r) /\ Chosen(r) /\ r.graph \in Descriptions
        /\ r.graph[1] = r.best[1] /\ Near(r.embedding, r.best) >= MinScore
    BY DEF RouterInv, RoutingInv, NoRouting
  <2>2. r.best \in r.seen \intersect Descriptions
    BY <2>1 DEF Chosen
  <2>3. Score[r.embedding, r.best[2]] >= MinScore
    BY <2>1 DEF Near
  <2>4. \A other \in r.seen : Score[r.embedding, r.best[2]] >= Score[r.embedding, other[2]]
    BY <2>1 DEF Chosen, Near
  <2> QED
    BY <2>1, <2>2, <2>3, <2>4 DEF Embedded
<1> QED
  BY <1>1, RouterInvariant, PTL

----------------------------------------------------------------------------
(* Types *)

\* What the fields of a connection hold.
LEMMA ConnectionFields ==
  ASSUME NEW k \in ConnectionSet
  PROVE  /\ k.arriving \in Seq(Events) /\ k.buffer \in Seq(Events)
         /\ k.writing \in Events \union {0} /\ k.missed \subseteq Events
         /\ k.since \in 0 .. MaxEvents
BY DEF ConnectionSet

ChatTyped ==
    /\ connections \in [Connections -> ConnectionSet]
    /\ \A c \in Connections : Len(connections[c].buffer) <= BufferSize
    /\ messages \in [Messages -> MessageSet \union {NoMessage}]
    /\ conversations \in [Sessions -> Records \union {NoRecord}]
    /\ published \in 0 .. MaxEvents
    /\ sent \in [Connections -> Seq(Frames)]

\* Where the call of Route stands that a message has made.
Progressed(m) ==
    /\ messages[m].pc \in {"status", "reply"} => messages[m].via \in Connections
    /\ messages[m].pc = "save" => messages[m].via \in Sessions
    /\ messages[m].pc \in {"execute", "save"} => routings[m].pc = "routed"
    /\ messages[m].pc \in {"reply", "done"} => routings[m].pc \in {"routed", "failed"}

LEMMA NoConnectionTyped ==
  NoConnection \in ConnectionSet /\ Len(NoConnection.buffer) = 0
BY ChatAssumption DEF NoConnection, ConnectionSet

LEMMA TypedInit == Init => ChatTyped
BY NoConnectionTyped, ChatAssumption DEF Init, ChatTyped

\* One connection changes.
LEMMA ConnectionChanges ==
  ASSUME ChatTyped, NEW c \in Connections, NEW k \in ConnectionSet, Len(k.buffer) <= BufferSize,
         connections' = [connections EXCEPT ![c] = k],
         UNCHANGED <<messages, conversations, published>>, sent' \in [Connections -> Seq(Frames)]
  PROVE  ChatTyped'
BY DEF ChatTyped

LEMMA WriteTyped ==
  ASSUME ChatTyped, NEW c \in Connections, NEW frame \in Frames, Write(c, frame)
  PROVE  sent' \in [Connections -> Seq(Frames)]
BY AppendProperties DEF ChatTyped, Write

LEMMA ConnectionStepTyped ==
  ASSUME ChatTyped, NEW c \in Connections,
         \/ Connect(c) \/ Subscribe(c) \/ Take(c) \/ StopSubscriber(c)
         \/ Forward(c) \/ WriteEvent(c) \/ ForwarderEnds(c)
         \/ Close(c) \/ HandlerReturns(c)
  PROVE  ChatTyped'
<1> DEFINE k == connections[c]
<1>1. k \in ConnectionSet /\ Len(k.buffer) <= BufferSize /\ DOMAIN connections = Connections
  BY DEF ChatTyped
<1>2. /\ k.arriving \in Seq(Events) /\ k.buffer \in Seq(Events)
      /\ k.writing \in Events \union {0} /\ k.missed \subseteq Events
  BY <1>1, ConnectionFields
<1>3. sent \in [Connections -> Seq(Frames)] /\ published \in 0 .. MaxEvents
  BY DEF ChatTyped
<1> HIDE DEF k
<1>4. CASE Connect(c)
  <2> DEFINE l == [k EXCEPT !.pc = "open", !.subscriber = "running", !.forwarder = "running"]
  <2>1. l \in ConnectionSet /\ l.buffer = k.buffer
    BY <1>1 DEF ConnectionSet
  <2>2. connections' = [connections EXCEPT ![c] = l]
    BY <1>4, <1>1 DEF Connect, k
  <2> HIDE DEF l
  <2> QED
    BY <1>1, <1>3, <1>4, <2>1, <2>2, ConnectionChanges DEF Connect
<1>5. CASE Subscribe(c)
  <2> DEFINE l == [k EXCEPT !.subscribed = TRUE, !.since = published]
  <2>1. l \in ConnectionSet /\ l.buffer = k.buffer
    BY <1>1, <1>3 DEF ConnectionSet
  <2>2. connections' = [connections EXCEPT ![c] = l]
    BY <1>5, <1>1 DEF Subscribe, k
  <2> HIDE DEF l
  <2> QED
    BY <1>1, <1>3, <1>5, <2>1, <2>2, ConnectionChanges DEF Subscribe
<1>6. CASE Take(c)
  <2> DEFINE event == Head(k.arriving)
             room == Len(k.buffer) < BufferSize
             buffer == IF room THEN Append(k.buffer, event) ELSE k.buffer
             missed == IF room THEN k.missed ELSE k.missed \union {event}
             l == [k EXCEPT !.arriving = Tail(k.arriving), !.buffer = buffer, !.missed = missed]
  <2>1. k.arriving # << >>
    BY <1>6 DEF Take, k
  <2>2. event \in Events /\ Tail(k.arriving) \in Seq(Events)
    BY <1>2, <2>1, HeadTailProperties
  <2>3. Append(k.buffer, event) \in Seq(Events) /\ Len(Append(k.buffer, event)) = Len(k.buffer) + 1
    BY <1>2, <2>2, AppendProperties
  <2>4. connections' = [connections EXCEPT ![c] = l]
    BY <1>6, <1>1 DEF Take, k
  <2>5. Len(k.buffer) \in Nat /\ BufferSize \in Nat
    BY <1>2, LenProperties, ChatAssumption
  <2> HIDE DEF event
  <2>6. buffer \in Seq(Events) /\ missed \subseteq Events /\ Len(buffer) <= BufferSize
    BY <1>1, <1>2, <2>2, <2>3, <2>5
  <2> HIDE DEF buffer, missed
  <2>7. l \in ConnectionSet /\ l.buffer = buffer
    BY <1>1, <2>2, <2>6 DEF ConnectionSet
  <2> HIDE DEF l
  <2>8. Len(l.buffer) <= BufferSize
    BY <2>6, <2>7
  <2> QED
    BY <1>3, <1>6, <2>4, <2>7, <2>8, ConnectionChanges DEF Take
<1>7. CASE StopSubscriber(c)
  <2> DEFINE l == [k EXCEPT !.subscriber = "ended", !.subscribed = FALSE, !.arriving = << >>]
  <2>1. l \in ConnectionSet /\ l.buffer = k.buffer
    BY <1>1, EmptySeq DEF ConnectionSet
  <2>2. connections' = [connections EXCEPT ![c] = l]
    BY <1>7, <1>1 DEF StopSubscriber, k
  <2> HIDE DEF l
  <2> QED
    BY <1>1, <1>3, <1>7, <2>1, <2>2, ConnectionChanges DEF StopSubscriber
<1>8. CASE Forward(c)
  <2> DEFINE l == [k EXCEPT !.writing = Head(k.buffer), !.buffer = Tail(k.buffer)]
  <2>1. k.buffer # << >>
    BY <1>8 DEF Forward, k
  <2>2. /\ Head(k.buffer) \in Events /\ Tail(k.buffer) \in Seq(Events)
        /\ Len(Tail(k.buffer)) = Len(k.buffer) - 1
    BY <1>2, <2>1, HeadTailProperties
  <2>3. l \in ConnectionSet /\ l.buffer = Tail(k.buffer)
    BY <1>1, <2>2 DEF ConnectionSet
  <2>4. connections' = [connections EXCEPT ![c] = l]
    BY <1>8, <1>1 DEF Forward, k
  <2>5. Len(k.buffer) \in Nat /\ BufferSize \in Nat
    BY <1>2, LenProperties, ChatAssumption
  <2> HIDE DEF l
  <2>6. Len(l.buffer) <= BufferSize
    BY <1>1, <2>2, <2>3, <2>5
  <2> QED
    BY <1>3, <1>8, <2>3, <2>4, <2>6, ConnectionChanges DEF Forward
<1>9. CASE WriteEvent(c)
  <2> DEFINE l == [k EXCEPT !.writing = 0]
             frame == [type |-> "event", event |-> k.writing]
  <2>1. frame \in Frames
    BY <1>2, <1>9 DEF WriteEvent, Frames, k
  <2>2. sent' \in [Connections -> Seq(Frames)]
    BY <1>9, <2>1, WriteTyped DEF WriteEvent, k
  <2>3. l \in ConnectionSet /\ l.buffer = k.buffer
    BY <1>1 DEF ConnectionSet
  <2>4. connections' = [connections EXCEPT ![c] = l]
    BY <1>9, <1>1 DEF WriteEvent, k
  <2> HIDE DEF l
  <2> QED
    BY <1>1, <1>9, <2>2, <2>3, <2>4, ConnectionChanges DEF WriteEvent
<1>10. CASE ForwarderEnds(c)
  <2> DEFINE l == [k EXCEPT !.forwarder = "ended"]
  <2>1. l \in ConnectionSet /\ l.buffer = k.buffer
    BY <1>1 DEF ConnectionSet
  <2>2. connections' = [connections EXCEPT ![c] = l]
    BY <1>10, <1>1 DEF ForwarderEnds, k
  <2> HIDE DEF l
  <2> QED
    BY <1>1, <1>3, <1>10, <2>1, <2>2, ConnectionChanges DEF ForwarderEnds
<1>11. ASSUME NEW pc \in {"closed", "gone"}, connections' = [connections EXCEPT ![c].pc = pc],
              UNCHANGED <<messages, conversations, published, sent>>
       PROVE  ChatTyped'
  <2> DEFINE l == [k EXCEPT !.pc = pc]
  <2>1. l \in ConnectionSet /\ l.buffer = k.buffer
    BY <1>1 DEF ConnectionSet
  <2>2. connections' = [connections EXCEPT ![c] = l]
    BY <1>11, <1>1 DEF k
  <2> HIDE DEF l
  <2> QED
    BY <1>1, <1>3, <1>11, <2>1, <2>2, ConnectionChanges
<1> QED
  BY <1>4, <1>5, <1>6, <1>7, <1>8, <1>9, <1>10, <1>11 DEF Close, HandlerReturns

\* What a message under way is.
LEMMA MessageFacts ==
  ASSUME ChatTyped, NEW m \in Messages, messages[m].pc # "none"
  PROVE  /\ messages[m] \in MessageSet
         /\ messages[m].via \in Connections \union Sessions
<1>1. messages[m] \in MessageSet
  BY DEF ChatTyped, NoMessage
<1> QED
  BY <1>1 DEF MessageSet

\* The flow a message was routed to is a flow.
LEMMA FlowTyped ==
  ASSUME RouterInv, NEW m \in Messages
  PROVE  FlowOf(m) \in Flows \union {None}
<1>1. CASE routings[m].pc = "routed"
  <2>1. routings[m].graph \in Descriptions
    BY <1>1 DEF RouterInv, RoutingInv, NoRouting
  <2> QED
    BY <1>1, <2>1, DescriptionPairs DEF FlowOf
<1> QED
  BY <1>1 DEF FlowOf

\* A message goes on.
LEMMA MessageChanges ==
  ASSUME ChatTyped, NEW m \in Messages, NEW pc \in {"status", "route", "execute", "reply", "save",
                                                    "done", "dead"},
         messages[m].pc # "none",
         messages' = [messages EXCEPT ![m].pc = pc],
         UNCHANGED <<connections, published>>,
         conversations' \in [Sessions -> Records \union {NoRecord}],
         sent' \in [Connections -> Seq(Frames)]
  PROVE  ChatTyped'
<1>1. messages[m] \in MessageSet
  BY MessageFacts
<1> DEFINE x == [messages[m] EXCEPT !.pc = pc]
<1>2. x \in MessageSet /\ messages' = [messages EXCEPT ![m] = x]
  BY <1>1 DEF MessageSet
<1> HIDE DEF x
<1> QED
  BY <1>2 DEF ChatTyped

LEMMA MessageStepTyped ==
  ASSUME ChatTyped, RouterInv, NEW m \in Messages, Progressed(m), MessageStep(m)
  PROVE  ChatTyped'
<1>1. /\ conversations \in [Sessions -> Records \union {NoRecord}]
      /\ sent \in [Connections -> Seq(Frames)]
  BY DEF ChatTyped
<1>2. CASE RouteStep(m) /\ UNCHANGED chat
  BY <1>2 DEF ChatTyped, chat
<1>3. ASSUME NEW text \in Texts, SendStatus(m, text) PROVE ChatTyped'
  <2>1. [type |-> "status", message |-> m] \in Frames
    BY DEF Frames
  <2>2. sent' \in [Connections -> Seq(Frames)]
    BY <1>3, <2>1, WriteTyped DEF SendStatus, Progressed
  <2> QED
    BY <1>1, <1>3, <2>2, MessageChanges DEF SendStatus
<1>4. CASE RouteReturned(m)
  <2>1. PICK pc \in {"execute", "reply", "done"} : messages' = [messages EXCEPT ![m].pc = pc]
    BY <1>4 DEF RouteReturned
  <2> QED
    BY <1>1, <1>4, <2>1, MessageChanges DEF RouteReturned
<1>5. CASE Executed(m)
  <2>1. PICK pc \in {"reply", "save"} : messages' = [messages EXCEPT ![m].pc = pc]
    BY <1>5 DEF Executed
  <2> QED
    BY <1>1, <1>5, <2>1, MessageChanges DEF Executed
<1>6. CASE Save(m)
  <2>1. [message |-> m, flow |-> FlowOf(m)] \in Records
    <3>1. routings[m].graph \in Descriptions /\ FlowOf(m) = routings[m].graph[1]
      BY <1>6 DEF Save, Progressed, RouterInv, RoutingInv, NoRouting, FlowOf
    <3> QED
      BY <3>1, DescriptionPairs DEF Records
  <2>2. conversations' \in [Sessions -> Records \union {NoRecord}]
    BY <1>1, <1>6, <2>1 DEF Save
  <2> QED
    BY <1>1, <1>6, <2>2, MessageChanges DEF Save
<1>7. CASE SendReply(m)
  <2>1. [type |-> "reply", message |-> m, flow |-> FlowOf(m)] \in Frames
    BY FlowTyped DEF Frames
  <2>2. sent' \in [Connections -> Seq(Frames)]
    BY <1>7, <2>1, WriteTyped DEF SendReply, Progressed
  <2> QED
    BY <1>1, <1>7, <2>2, MessageChanges DEF SendReply
<1> QED
  BY <1>2, <1>3, <1>4, <1>5, <1>6, <1>7 DEF MessageStep

\* The steps of whole processes.
LEMMA ProcessStepTyped ==
  ASSUME ChatTyped, Publish \/ Crash
  PROVE  ChatTyped'
<1>1. \A c \in Connections : /\ connections[c] \in ConnectionSet
                             /\ Len(connections[c].buffer) <= BufferSize
  BY DEF ChatTyped
<1>2. CASE Publish
  <2>1. published' \in Events /\ published' = published + 1
    BY <1>2, ChatAssumption DEF Publish, ChatTyped, Events
  <2>2. ASSUME NEW c \in Connections
        PROVE  connections'[c] \in ConnectionSet /\ connections'[c].buffer = connections[c].buffer
    <3> DEFINE k == connections[c]
               l == [k EXCEPT !.arriving = Append(k.arriving, published + 1)]
    <3>1. Append(k.arriving, published + 1) \in Seq(Events)
      BY <1>1, <2>1, ConnectionFields, AppendProperties
    <3>2. k \in ConnectionSet
      BY <1>1
    <3> HIDE DEF k
    <3>3. l \in ConnectionSet /\ l.buffer = k.buffer
      BY <3>1, <3>2 DEF ConnectionSet
    <3>4. connections'[c] = k \/ connections'[c] = l
      BY <1>2 DEF Publish, k
    <3> HIDE DEF l
    <3> QED
      BY <3>2, <3>3, <3>4 DEF k
  <2>3. connections' \in [Connections -> ConnectionSet]
    BY <1>2, <2>2 DEF Publish
  <2>4. published' \in 0 .. MaxEvents
    BY <2>1 DEF Events
  <2> QED
    BY <1>1, <1>2, <2>2, <2>3, <2>4 DEF Publish, ChatTyped
<1>3. CASE Crash
  <2> DEFINE dead == [NoConnection EXCEPT !.pc = "gone", !.subscriber = "ended",
                                          !.forwarder = "ended"]
  <2>1. dead \in ConnectionSet /\ Len(dead.buffer) = 0
    BY NoConnectionTyped DEF ConnectionSet
  <2>2. \A c \in Connections : connections'[c] \in {connections[c], dead}
    BY <1>3 DEF Crash
  <2> HIDE DEF dead
  <2>3. \A c \in Connections : /\ connections'[c] \in ConnectionSet
                               /\ Len(connections'[c].buffer) <= BufferSize
    BY <1>1, <2>1, <2>2, ChatAssumption
  <2>4. connections' \in [Connections -> ConnectionSet]
    BY <1>3, <2>3 DEF Crash
  <2>5. ASSUME NEW m \in Messages PROVE messages'[m] \in MessageSet \union {NoMessage}
    <3>1. CASE UnderWay(m)
      <4>1. messages[m] \in MessageSet
        BY <3>1, MessageFacts DEF UnderWay
      <4> QED
        BY <1>3, <3>1, <4>1 DEF Crash, MessageSet
    <3>2. CASE ~UnderWay(m)
      BY <1>3, <3>2 DEF Crash, ChatTyped
    <3> QED
      BY <3>1, <3>2
  <2>6. messages' \in [Messages -> MessageSet \union {NoMessage}]
    BY <1>3, <2>5 DEF Crash
  <2> QED
    BY <1>3, <2>3, <2>4, <2>6 DEF Crash, ChatTyped
<1> QED
  BY <1>2, <1>3

\* A call of Route that has ended stays as it ended.
LEMMA RoutingsStay ==
  ASSUME RouterInv, NEW m \in Messages, RouteStep(m)
  PROVE  /\ routings[m].pc \notin {"routed", "failed"}
         /\ \A n \in Messages \ {m} : routings'[n] = routings[n]
BY DEF RouteStep, LookUp, Embed, CacheEmbedding, Search, Choose, Moves, RouterInv

LEMMA ProgressedStep ==
  ASSUME ChatTyped, RouterInv, \A m \in Messages : Progressed(m), [Next]_vars,
         NEW n \in Messages
  PROVE  Progressed(n)'
<1>1. ASSUME UNCHANGED <<messages, routings>> PROVE Progressed(n)'
  BY <1>1 DEF Progressed
<1>2. ASSUME NEW d \in Descriptions, RegisterFlow(d[1], d[2]) /\ UNCHANGED chat
      PROVE  Progressed(n)'
  BY <1>1, <1>2 DEF RegisterFlow, chat
<1>3. ASSUME NEW f \in Flows, UnregisterFlow(f) /\ UNCHANGED chat PROVE Progressed(n)'
  BY <1>1, <1>3 DEF UnregisterFlow, chat
<1>4. ASSUME NEW k \in Keys, CacheExpires(k) /\ UNCHANGED chat PROVE Progressed(n)'
  BY <1>1, <1>4 DEF CacheExpires, chat
<1>5. ASSUME NEW m \in Messages, NEW c \in Connections, Receive(c, m) PROVE Progressed(n)'
  BY <1>5 DEF Receive, router, ChatTyped, Progressed
<1>6. ASSUME NEW m \in Messages, NEW session \in Sessions, NEW text \in Texts,
             Post(m, session, text)
      PROVE  Progressed(n)'
  BY <1>6 DEF Post, Route, ChatTyped, RouterInv, Progressed
<1>7. ASSUME NEW m \in Messages, MessageStep(m) PROVE Progressed(n)'
  <2>0. messages[m].pc # "none" => messages[m] \in MessageSet
    BY MessageFacts
  <2>1. ASSUME NEW text \in Texts, SendStatus(m, text) PROVE Progressed(n)'
    BY <2>0, <2>1 DEF SendStatus, Route, ChatTyped, RouterInv, Progressed, MessageSet
  <2>2. CASE RouteStep(m) /\ UNCHANGED chat
    BY <2>2, RoutingsStay DEF Progressed, chat
  <2>3. CASE RouteReturned(m)
    <3>1. UNCHANGED routings /\ messages[m] \in MessageSet
      BY <2>0, <2>3 DEF RouteReturned, router
    <3>2. PICK pc \in {"execute", "reply", "done"} :
             /\ messages' = [messages EXCEPT ![m].pc = pc]
             /\ pc = "execute" => routings[m].pc = "routed"
             /\ pc \in {"reply", "done"} => routings[m].pc = "failed"
             /\ pc = "reply" => messages[m].via \in Connections
      BY <2>3 DEF RouteReturned
    <3>3. CASE n # m
      BY <3>1, <3>2, <3>3 DEF ChatTyped, Progressed
    <3>4. CASE n = m
      <4>1. messages'[m].pc = pc /\ messages'[m].via = messages[m].via
        BY <3>1, <3>2 DEF ChatTyped, MessageSet
      <4> QED
        BY <3>1, <3>2, <3>4, <4>1 DEF Progressed
    <3> QED
      BY <3>3, <3>4
  <2>4. CASE Executed(m)
    BY <2>0, <2>4 DEF Executed, router, ChatTyped, Progressed, MessageSet
  <2>5. CASE Save(m)
    BY <2>0, <2>5 DEF Save, router, ChatTyped, Progressed, MessageSet
  <2>6. CASE SendReply(m)
    BY <2>0, <2>6 DEF SendReply, router, ChatTyped, Progressed, MessageSet
  <2> QED
    BY <1>7, <2>1, <2>2, <2>3, <2>4, <2>5, <2>6 DEF MessageStep
<1>8. ASSUME NEW c \in Connections,
             \/ Connect(c) \/ Subscribe(c) \/ Take(c) \/ StopSubscriber(c)
             \/ Forward(c) \/ WriteEvent(c) \/ ForwarderEnds(c)
             \/ Close(c) \/ HandlerReturns(c)
       PROVE  Progressed(n)'
  BY <1>1, <1>8 DEF Connect, Subscribe, Take, StopSubscriber, Forward, WriteEvent,
                    ForwarderEnds, Close, HandlerReturns, router
<1>9. CASE Publish
  BY <1>1, <1>9 DEF Publish, router
<1>10. CASE Crash
  <2>1. UnderWay(n) => messages[n] \in MessageSet
    BY MessageFacts DEF UnderWay
  <2>2. messages'[n].pc # "dead" => messages'[n] = messages[n] /\ ~UnderWay(n)
    BY <1>10, <2>1 DEF Crash, MessageSet
  <2>3. routings[n].pc \in {"routed", "failed"} => routings'[n] = routings[n]
    BY <1>10 DEF Crash, RouterDies, Routing
  <2> QED
    BY <2>2, <2>3 DEF Progressed, UnderWay
<1>11. CASE UNCHANGED vars
  BY <1>1, <1>11 DEF vars, router, chat
<1> QED
  BY <1>2, <1>3, <1>4, <1>5, <1>6, <1>7, <1>8, <1>9, <1>10, <1>11 DEF Next

Progressing == RouterInv /\ ChatTyped /\ \A m \in Messages : Progressed(m)

LEMMA ProgressingInit == Init => Progressing
<1> SUFFICES ASSUME Init PROVE \A m \in Messages : Progressed(m)
  BY RouterInvInit, TypedInit DEF Progressing
<1> QED
  BY DEF Init, NoMessage, Progressed

LEMMA ProgressingStep == Progressing /\ [Next]_vars => Progressing'
<1> SUFFICES ASSUME Progressing, [Next]_vars PROVE Progressing'
  OBVIOUS
<1>1. RouterInv'
  BY RouterStep DEF Progressing
<1>2. \A m \in Messages : Progressed(m)'
  BY ProgressedStep DEF Progressing
<1>3. ChatTyped'
  <2>1. ASSUME UNCHANGED chat PROVE ChatTyped'
    BY <2>1 DEF Progressing, ChatTyped, chat
  <2>2. ASSUME NEW m \in Messages, NEW c \in Connections, Receive(c, m) PROVE ChatTyped'
    <3>1. [pc |-> "status", via |-> c] \in MessageSet
      BY DEF MessageSet
    <3> QED
      BY <2>2, <3>1 DEF Receive, Progressing, ChatTyped
  <2>3. ASSUME NEW m \in Messages, NEW session \in Sessions, NEW text \in Texts,
               Post(m, session, text)
        PROVE  ChatTyped'
    <3>1. [pc |-> "route", via |-> session] \in MessageSet
      BY DEF MessageSet
    <3> QED
      BY <2>3, <3>1 DEF Post, Progressing, ChatTyped
  <2>4. ASSUME NEW m \in Messages, MessageStep(m) PROVE ChatTyped'
    BY <2>4, MessageStepTyped DEF Progressing
  <2>5. ASSUME NEW c \in Connections,
               \/ Connect(c) \/ Subscribe(c) \/ Take(c) \/ StopSubscriber(c)
               \/ Forward(c) \/ WriteEvent(c) \/ ForwarderEnds(c)
               \/ Close(c) \/ HandlerReturns(c)
        PROVE  ChatTyped'
    BY <2>5, ConnectionStepTyped DEF Progressing
  <2>6. CASE Publish \/ Crash
    BY <2>6, ProcessStepTyped DEF Progressing
  <2>7. CASE UNCHANGED vars
    BY <2>1, <2>7 DEF vars
  <2> QED
    BY <2>1, <2>2, <2>3, <2>4, <2>5, <2>6, <2>7 DEF Next
<1> QED
  BY <1>1, <1>2, <1>3 DEF Progressing

\* Every variable keeps its type, and no buffer holds more than it has room for.
THEOREM Typing == Spec => []TypeOK
<1>1. Progressing => TypeOK
  <2> SUFFICES ASSUME Progressing PROVE TypeOK
    OBVIOUS
  <2>1. vectors \subseteq Vectors
    BY RouterAssumption DEF Progressing, RouterInv, StoresInv, Vectors
  <2>2. RouterTypeOK
    BY <2>1 DEF Progressing, RouterInv, StoresInv, RouterTypeOK
  <2> QED
    BY <2>2 DEF Progressing, ChatTyped, TypeOK
<1> QED
  BY <1>1, ProgressingInit, ProgressingStep, PTL DEF Spec

----------------------------------------------------------------------------
(* Events on their way: queues of growing numbers *)

Elements(q) == {q[n] : n \in DOMAIN q}
Sorted(q)   == \A i, j \in DOMAIN q : i < j => q[i] < q[j]
Below(S, T) == \A a \in S, b \in T : a < b

LEMMA EmptyFacts == Elements(<< >>) = {} /\ Sorted(<< >>)
BY DEF Elements, Sorted

LEMMA AppendFacts ==
  ASSUME NEW q \in Seq(Events), NEW e \in Events
  PROVE  /\ Elements(Append(q, e)) = Elements(q) \union {e}
         /\ Sorted(q) /\ Below(Elements(q), {e}) => Sorted(Append(q, e))
<1>1. /\ Append(q, e) \in Seq(Events) /\ Len(q) \in Nat
      /\ DOMAIN q = 1 .. Len(q) /\ DOMAIN Append(q, e) = 1 .. Len(q) + 1
      /\ \A n \in 1 .. Len(q) : Append(q, e)[n] = q[n]
      /\ Append(q, e)[Len(q) + 1] = e
  BY AppendProperties, LenProperties
<1> DEFINE r == Append(q, e)
<1> HIDE DEF r
<1>2. \A n \in DOMAIN r : n \in DOMAIN q \/ n = Len(q) + 1
  BY <1>1 DEF r
<1>3. Elements(r) = Elements(q) \union {e}
  BY <1>1, <1>2 DEF Elements, r
<1>4. ASSUME Sorted(q), Below(Elements(q), {e}), NEW i \in DOMAIN r, NEW j \in DOMAIN r, i < j
      PROVE  r[i] < r[j]
  <2>1. i \in DOMAIN q
    BY <1>1, <1>2, <1>4 DEF r
  <2>2. CASE j \in DOMAIN q
    BY <1>1, <1>4, <2>1, <2>2 DEF Sorted, r
  <2>3. CASE j = Len(q) + 1
    BY <1>1, <1>4, <2>1, <2>3 DEF Below, Elements, r
  <2> QED
    BY <1>2, <2>2, <2>3
<1> QED
  BY <1>3, <1>4 DEF Sorted, r

LEMMA TailFacts ==
  ASSUME NEW q \in Seq(Events), q # << >>
  PROVE  /\ Head(q) \in Events
         /\ Tail(q) \in Seq(Events)
         /\ Elements(q) = {Head(q)} \union Elements(Tail(q))
         /\ Sorted(q) => Sorted(Tail(q)) /\ Below({Head(q)}, Elements(Tail(q)))
<1> DEFINE r == Tail(q)
<1>1. /\ Head(q) \in Events /\ r \in Seq(Events)
      /\ Len(q) \in Nat \ {0} /\ Len(r) = Len(q) - 1
      /\ \A n \in 1 .. Len(r) : r[n] = q[n + 1]
  BY HeadTailProperties, EmptySeq
<1>2. Head(q) = q[1]
  OBVIOUS
<1>3. DOMAIN q = 1 .. Len(q) /\ DOMAIN r = 1 .. Len(q) - 1
  BY <1>1, LenProperties
<1> HIDE DEF r
<1>4. \A n \in DOMAIN q : n = 1 \/ (n - 1 \in DOMAIN r /\ r[n - 1] = q[n])
  BY <1>1, <1>3
<1>5. \A n \in DOMAIN r : n + 1 \in DOMAIN q /\ r[n] = q[n + 1]
  BY <1>1, <1>3
<1>6. 1 \in DOMAIN q
  BY <1>1, <1>3
<1>7. Elements(q) = {Head(q)} \union Elements(r)
  BY <1>2, <1>4, <1>5, <1>6 DEF Elements
<1>8. ASSUME Sorted(q) PROVE Sorted(r)
  BY <1>3, <1>5, <1>8 DEF Sorted
<1>9. ASSUME Sorted(q) PROVE Below({Head(q)}, Elements(r))
  <2>1. \A n \in DOMAIN r : q[1] < r[n]
    BY <1>1, <1>3, <1>5, <1>6, <1>9 DEF Sorted
  <2> QED
    BY <1>2, <2>1 DEF Below, Elements
<1> QED
  BY <1>1, <1>7, <1>8, <1>9 DEF r

----------------------------------------------------------------------------
(* Frames of a connection *)

EventPositions(frames)     == {n \in DOMAIN frames : frames[n].type = "event"}
SentEvents(frames)         == {frames[n].event : n \in EventPositions(frames)}
FramesSorted(frames)       == \A i, j \in EventPositions(frames) :
                                 i < j => frames[i].event < frames[j].event
Positions(frames, type, m) == {n \in DOMAIN frames : frames[n].type = type
                                                     /\ frames[n].message = m}

LEMMA FrameAppended ==
  ASSUME NEW frames \in Seq(Frames), NEW f \in Frames
  PROVE  LET longer == Append(frames, f) IN
         /\ Len(frames) \in Nat
         /\ longer \in Seq(Frames)
         /\ DOMAIN frames = 1 .. Len(frames)
         /\ DOMAIN longer = DOMAIN frames \union {Len(frames) + 1}
         /\ Len(frames) + 1 \notin DOMAIN frames
         /\ \A n \in DOMAIN frames : longer[n] = frames[n] /\ n < Len(frames) + 1
         /\ longer[Len(frames) + 1] = f
BY AppendProperties, LenProperties

\* A frame that carries an event later than those before it.
LEMMA EventAppended ==
  ASSUME NEW frames \in Seq(Frames), NEW e \in Events, FramesSorted(frames),
         Below(SentEvents(frames), {e})
  PROVE  LET longer == Append(frames, [type |-> "event", event |-> e]) IN
         /\ SentEvents(longer) = SentEvents(frames) \union {e}
         /\ FramesSorted(longer)
         /\ \A type \in {"status", "reply"}, m \in Messages :
               Positions(longer, type, m) = Positions(frames, type, m)
         /\ \A n \in DOMAIN frames : longer[n] = frames[n]
<1> DEFINE f == [type |-> "event", event |-> e]
           longer == Append(frames, f)
           last == Len(frames) + 1
<1>1. f \in Frames /\ f.type = "event" /\ f.event = e
  BY DEF Frames
<1> HIDE DEF f
<1>2. /\ DOMAIN longer = DOMAIN frames \union {last}
      /\ \A n \in DOMAIN frames : longer[n] = frames[n] /\ n < last
      /\ longer[last] = f /\ last \notin DOMAIN frames
  BY <1>1, FrameAppended
<1> HIDE DEF longer
<1>3. EventPositions(longer) = EventPositions(frames) \union {last}
  BY <1>1, <1>2 DEF EventPositions
<1>4. SentEvents(longer) = SentEvents(frames) \union {e}
  BY <1>1, <1>2, <1>3 DEF SentEvents, EventPositions
<1>5. ASSUME NEW i \in EventPositions(longer), NEW j \in EventPositions(longer), i < j
      PROVE  longer[i].event < longer[j].event
  <2>1. i \in EventPositions(frames)
    <3>1. ASSUME i = last PROVE FALSE
      <4>1. j \in DOMAIN frames => j < last
        BY <1>2
      <4>2. DOMAIN frames \subseteq Nat /\ last \in Nat
        BY <1>1, FrameAppended
      <4> QED
        BY <1>3, <1>5, <3>1, <4>1, <4>2 DEF EventPositions
    <3> QED
      BY <1>3, <3>1
  <2>2. CASE j \in EventPositions(frames)
    BY <1>2, <1>5, <2>1, <2>2 DEF FramesSorted, EventPositions
  <2>3. CASE j = last
    BY <1>1, <1>2, <2>1, <2>3 DEF Below, SentEvents, EventPositions
  <2> QED
    BY <1>3, <2>2, <2>3
<1>6. \A type \in {"status", "reply"}, m \in Messages :
         Positions(longer, type, m) = Positions(frames, type, m)
  BY <1>1, <1>2 DEF Positions
<1> QED
  BY <1>2, <1>4, <1>5, <1>6 DEF FramesSorted, longer, f

\* A frame that carries none.
LEMMA AnswerAppended ==
  ASSUME NEW frames \in Seq(Frames), NEW f \in Frames, f.type \in {"status", "reply"}
  PROVE  LET longer == Append(frames, f) IN
         /\ SentEvents(longer) = SentEvents(frames)
         /\ FramesSorted(frames) => FramesSorted(longer)
         /\ \A type \in {"status", "reply"}, m \in Messages :
               Positions(longer, type, m) =
                  IF type = f.type /\ m = f.message
                  THEN Positions(frames, type, m) \union {Len(frames) + 1}
                  ELSE Positions(frames, type, m)
<1> DEFINE longer == Append(frames, f)
           last == Len(frames) + 1
<1>1. /\ DOMAIN longer = DOMAIN frames \union {last}
      /\ \A n \in DOMAIN frames : longer[n] = frames[n] /\ n < last
      /\ longer[last] = f /\ last \notin DOMAIN frames
  BY FrameAppended
<1> HIDE DEF longer
<1>2. EventPositions(longer) = EventPositions(frames)
  BY <1>1 DEF EventPositions
<1>3. SentEvents(longer) = SentEvents(frames)
  BY <1>1, <1>2 DEF SentEvents, EventPositions
<1>4. FramesSorted(frames) => FramesSorted(longer)
  BY <1>1, <1>2 DEF FramesSorted, EventPositions
<1>5. ASSUME NEW type \in {"status", "reply"}, NEW m \in Messages
      PROVE  Positions(longer, type, m) =
                IF type = f.type /\ m = f.message
                THEN Positions(frames, type, m) \union {last}
                ELSE Positions(frames, type, m)
  BY <1>1 DEF Positions
<1> QED
  BY <1>3, <1>4, <1>5 DEF longer

----------------------------------------------------------------------------
(* Events reach the client in order *)

Writing(k)  == {k.writing} \ {0}
Upcoming(k) == Elements(k.arriving) \union Elements(k.buffer) \union Writing(k)

\* Frames, the event being written, the buffer and what Redis has sent are one
\* sequence of growing numbers; while the connection is open, they and what the
\* buffer had no room for are all that was published since it was subscribed.
Ordered(k, frames) ==
    /\ Sorted(k.arriving) /\ Sorted(k.buffer) /\ FramesSorted(frames)
    /\ Below(Elements(k.buffer), Elements(k.arriving))
    /\ Below(Writing(k), Elements(k.buffer) \union Elements(k.arriving))
    /\ Below(SentEvents(frames), Upcoming(k))

Pipeline(k, frames, count) ==
    /\ Ordered(k, frames)
    /\ SentEvents(frames) \union Upcoming(k) \subseteq 1 .. count
    /\ k.since \in 0 .. count
    /\ k.pc = "none" => k = NoConnection
    /\ k.pc \in {"none", "open"} /\ ~k.subscribed =>
          SentEvents(frames) = {} /\ Upcoming(k) = {} /\ k.missed = {}
    /\ k.pc = "open" /\ k.subscribed =>
          (k.since + 1) .. count = SentEvents(frames) \union Upcoming(k) \union k.missed

LEMMA PipelineStarts == Pipeline(NoConnection, << >>, 0)
<1>1. SentEvents(<< >>) = {} /\ FramesSorted(<< >>)
  BY DEF SentEvents, FramesSorted, EventPositions
<1>2. Upcoming(NoConnection) = {} /\ Writing(NoConnection) = {}
  BY EmptyFacts DEF Upcoming, Writing, NoConnection
<1>3. /\ NoConnection.arriving = << >> /\ NoConnection.buffer = << >>
      /\ NoConnection.missed = {} /\ NoConnection.pc = "none" /\ NoConnection.since = 0
  BY DEF NoConnection
<1> QED
  BY <1>1, <1>2, <1>3, EmptyFacts DEF Pipeline, Ordered, Below

\* Steps that move no event.
LEMMA PipelineRests ==
  ASSUME NEW k, NEW l, NEW frames, NEW count, Pipeline(k, frames, count),
         l.arriving = k.arriving, l.buffer = k.buffer, l.writing = k.writing,
         l.missed = k.missed, l.since = k.since,
         \/ l.pc = k.pc /\ (l.subscribed <=> k.subscribed) /\ l.pc # "none"
         \/ l.pc \in {"closed", "gone"}
  PROVE  Pipeline(l, frames, count)
BY DEF Pipeline, Ordered, Upcoming, Writing

LEMMA ConnectKeeps ==
  ASSUME NEW count, NEW frames, Pipeline(NoConnection, frames, count)
  PROVE  Pipeline([NoConnection EXCEPT !.pc = "open", !.subscriber = "running",
                                       !.forwarder = "running"], frames, count)
<1> DEFINE l == [NoConnection EXCEPT !.pc = "open", !.subscriber = "running",
                                     !.forwarder = "running"]
<1>1. /\ l.arriving = NoConnection.arriving /\ l.buffer = NoConnection.buffer
      /\ l.writing = NoConnection.writing /\ l.missed = NoConnection.missed
      /\ l.since = NoConnection.since /\ l.pc = "open" /\ NoConnection.pc = "none"
  BY DEF NoConnection
<1>2. ~l.subscribed /\ ~NoConnection.subscribed
  BY DEF NoConnection
<1> HIDE DEF l
<1>3. Ordered(l, frames) /\ Upcoming(l) = Upcoming(NoConnection)
  BY <1>1 DEF Pipeline, Ordered, Upcoming, Writing
<1> QED
  BY <1>1, <1>2, <1>3 DEF Pipeline, l

LEMMA SubscribeKeeps ==
  ASSUME NEW k \in ConnectionSet, NEW count \in 0 .. MaxEvents, NEW frames,
         Pipeline(k, frames, count), ~k.subscribed, k.pc # "none"
  PROVE  Pipeline([k EXCEPT !.subscribed = TRUE, !.since = count], frames, count)
<1> DEFINE l == [k EXCEPT !.subscribed = TRUE, !.since = count]
<1>1. /\ l.arriving = k.arriving /\ l.buffer = k.buffer /\ l.writing = k.writing
      /\ l.missed = k.missed /\ l.pc = k.pc /\ l.since = count
  BY DEF ConnectionSet
<1>2. l.subscribed
  BY DEF ConnectionSet
<1> HIDE DEF l
<1>3. Ordered(l, frames) /\ Upcoming(l) = Upcoming(k)
  BY <1>1 DEF Pipeline, Ordered, Upcoming, Writing
<1>4. (count + 1) .. count = {}
  OBVIOUS
<1> QED
  <2>1. Pipeline(l, frames, count)
    BY <1>1, <1>2, <1>3, <1>4 DEF Pipeline
  <2> QED
    BY <2>1 DEF l

LEMMA TakeKeeps ==
  ASSUME NEW k \in ConnectionSet, NEW count, NEW frames, Pipeline(k, frames, count),
         k.arriving # << >>, NEW room \in BOOLEAN
  PROVE  Pipeline([k EXCEPT !.arriving = Tail(k.arriving),
                            !.buffer = IF room THEN Append(k.buffer, Head(k.arriving))
                                               ELSE k.buffer,
                            !.missed = IF room THEN k.missed
                                               ELSE k.missed \union {Head(k.arriving)}],
                  frames, count)
<1> DEFINE e == Head(k.arriving)
           buffer == IF room THEN Append(k.buffer, e) ELSE k.buffer
           missed == IF room THEN k.missed ELSE k.missed \union {e}
           l == [k EXCEPT !.arriving = Tail(k.arriving), !.buffer = buffer, !.missed = missed]
<1>1. k.arriving \in Seq(Events) /\ k.buffer \in Seq(Events)
  BY ConnectionFields
<1>2. /\ e \in Events
      /\ Elements(k.arriving) = {e} \union Elements(Tail(k.arriving))
      /\ Sorted(k.arriving) => Sorted(Tail(k.arriving)) /\ Below({e}, Elements(Tail(k.arriving)))
  BY <1>1, TailFacts
<1>3. /\ l.arriving = Tail(k.arriving) /\ l.buffer = buffer /\ l.missed = missed
      /\ l.writing = k.writing /\ l.since = k.since /\ l.pc = k.pc
  BY DEF ConnectionSet
<1>4. l.subscribed <=> k.subscribed
  BY DEF ConnectionSet
<1>5. Ordered(k, frames)
  BY DEF Pipeline
<1>6. Sorted(buffer) /\ Elements(buffer) \subseteq Elements(k.buffer) \union {e}
  <2>1. Below(Elements(k.buffer), {e})
    BY <1>2, <1>5 DEF Ordered, Below
  <2>2. /\ Elements(Append(k.buffer, e)) = Elements(k.buffer) \union {e}
        /\ Sorted(Append(k.buffer, e))
    BY <1>1, <1>2, <1>5, <2>1, AppendFacts DEF Ordered
  <2> HIDE DEF e
  <2> QED
    BY <1>5, <2>2 DEF Ordered
<1>7. Elements(buffer) \union missed = Elements(k.buffer) \union k.missed \union {e}
  <2>1. Elements(Append(k.buffer, e)) = Elements(k.buffer) \union {e}
    BY <1>1, <1>2, AppendFacts
  <2> HIDE DEF e
  <2> QED
    BY <2>1
<1> HIDE DEF e, buffer, missed, l
<1>8. Ordered(l, frames) /\ Upcoming(l) \subseteq Upcoming(k)
      /\ Upcoming(l) \union l.missed = Upcoming(k) \union k.missed
  <2>1. /\ Sorted(l.arriving) /\ Sorted(l.buffer)
        /\ Below({e}, Elements(l.arriving))
        /\ Elements(l.arriving) \subseteq Elements(k.arriving)
        /\ Elements(l.buffer) \subseteq Elements(k.buffer) \union {e}
        /\ Elements(k.arriving) = Elements(l.arriving) \union {e}
    BY <1>2, <1>3, <1>5, <1>6 DEF Ordered
  <2>2. Writing(l) = Writing(k)
    BY <1>3 DEF Writing
  <2>3. Below(Elements(l.buffer), Elements(l.arriving))
    BY <1>5, <2>1 DEF Ordered, Below
  <2>4. Below(Writing(l), Elements(l.buffer) \union Elements(l.arriving))
    BY <1>5, <2>1, <2>2 DEF Ordered, Below
  <2>5. Upcoming(l) \subseteq Upcoming(k)
    BY <2>1, <2>2 DEF Upcoming
  <2>6. Below(SentEvents(frames), Upcoming(l))
    BY <1>5, <2>5 DEF Ordered, Below
  <2>7. Upcoming(l) \union l.missed = Upcoming(k) \union k.missed
    BY <1>3, <1>7, <2>1, <2>2 DEF Upcoming
  <2> QED
    BY <1>5, <2>1, <2>3, <2>4, <2>5, <2>6, <2>7 DEF Ordered
<1>9. k.pc # "none"
  BY EmptyFacts DEF Pipeline, NoConnection
<1>10. k.pc = "open" => k.subscribed
  BY <1>2 DEF Pipeline, Upcoming
<1>11. SentEvents(frames) \union Upcoming(l) \subseteq 1 .. count
  BY <1>8 DEF Pipeline
<1>12. k.pc = "open" => (k.since + 1) .. count = SentEvents(frames) \union Upcoming(l) \union l.missed
  BY <1>8, <1>10 DEF Pipeline
<1> QED
  BY <1>3, <1>4, <1>8, <1>9, <1>10, <1>11, <1>12 DEF Pipeline, l, e, buffer, missed

LEMMA StopKeeps ==
  ASSUME NEW k \in ConnectionSet, NEW count, NEW frames, Pipeline(k, frames, count),
         k.pc = "gone"
  PROVE  Pipeline([k EXCEPT !.subscriber = "ended", !.subscribed = FALSE, !.arriving = << >>],
                  frames, count)
<1> DEFINE l == [k EXCEPT !.subscriber = "ended", !.subscribed = FALSE, !.arriving = << >>]
<1>1. /\ l.arriving = << >> /\ l.buffer = k.buffer /\ l.writing = k.writing /\ l.pc = "gone"
      /\ l.since = k.since
  BY DEF ConnectionSet
<1> HIDE DEF l
<1>2. Ordered(l, frames) /\ Upcoming(l) \subseteq Upcoming(k)
  BY <1>1, EmptyFacts DEF Pipeline, Ordered, Upcoming, Writing, Below
<1>3. Pipeline(l, frames, count)
  BY <1>1, <1>2 DEF Pipeline, Below
<1> QED
  BY <1>3 DEF l

LEMMA ForwardKeeps ==
  ASSUME NEW k \in ConnectionSet, NEW count, NEW frames, Pipeline(k, frames, count),
         k.writing = 0, k.buffer # << >>
  PROVE  Pipeline([k EXCEPT !.writing = Head(k.buffer), !.buffer = Tail(k.buffer)],
                  frames, count)
<1> DEFINE e == Head(k.buffer)
           l == [k EXCEPT !.writing = e, !.buffer = Tail(k.buffer)]
<1>1. /\ e \in Events
      /\ Elements(k.buffer) = {e} \union Elements(Tail(k.buffer))
      /\ Sorted(k.buffer) => Sorted(Tail(k.buffer)) /\ Below({e}, Elements(Tail(k.buffer)))
  BY ConnectionFields, TailFacts
<1>2. /\ l.arriving = k.arriving /\ l.buffer = Tail(k.buffer) /\ l.missed = k.missed
      /\ l.writing = e /\ l.since = k.since /\ l.pc = k.pc
  BY DEF ConnectionSet
<1>3. l.subscribed <=> k.subscribed
  BY DEF ConnectionSet
<1> HIDE DEF e, l
<1>4. Writing(l) = {e} /\ Writing(k) = {}
  BY <1>1, <1>2 DEF Writing, Events
<1>5. Upcoming(l) = Upcoming(k)
  BY <1>1, <1>2, <1>4 DEF Upcoming
<1>6. Ordered(l, frames)
  BY <1>1, <1>2, <1>4, <1>5 DEF Pipeline, Ordered, Below
<1>7. k.pc # "none"
  BY EmptyFacts DEF Pipeline, NoConnection
<1>8. Pipeline(l, frames, count)
  BY <1>2, <1>3, <1>5, <1>6, <1>7 DEF Pipeline
<1> QED
  BY <1>8 DEF l, e

\* The event that was being written is the next frame.
LEMMA WrittenKeeps ==
  ASSUME NEW k \in ConnectionSet, NEW count, NEW frames \in Seq(Frames),
         Pipeline(k, frames, count), k.writing # 0
  PROVE  Pipeline([k EXCEPT !.writing = 0],
                  Append(frames, [type |-> "event", event |-> k.writing]), count)
<1> DEFINE l == [k EXCEPT !.writing = 0]
           longer == Append(frames, [type |-> "event", event |-> k.writing])
<1>1. k.writing \in Events
  BY ConnectionFields
<1>2. /\ l.arriving = k.arriving /\ l.buffer = k.buffer /\ l.missed = k.missed
      /\ l.writing = 0 /\ l.since = k.since /\ l.pc = k.pc
  BY DEF ConnectionSet
<1>3. l.subscribed <=> k.subscribed
  BY DEF ConnectionSet
<1> HIDE DEF l
<1>4. Writing(l) = {} /\ Writing(k) = {k.writing}
  BY <1>2 DEF Writing
<1>5. Below(SentEvents(frames), {k.writing}) /\ FramesSorted(frames)
  BY <1>4 DEF Pipeline, Ordered, Upcoming, Below
<1>6. SentEvents(longer) = SentEvents(frames) \union {k.writing} /\ FramesSorted(longer)
  BY <1>1, <1>5, EventAppended
<1> HIDE DEF longer
<1>7. SentEvents(longer) \union Upcoming(l) = SentEvents(frames) \union Upcoming(k)
  BY <1>2, <1>4, <1>6 DEF Upcoming
<1>8. Ordered(l, longer)
  BY <1>2, <1>4, <1>6 DEF Pipeline, Ordered, Upcoming, Below
<1>9. k.pc # "none"
  BY DEF Pipeline, NoConnection
<1>10. k.writing \in Upcoming(k)
  BY <1>4 DEF Upcoming
<1>11. Pipeline(l, longer, count)
  BY <1>2, <1>3, <1>7, <1>8, <1>9, <1>10 DEF Pipeline
<1> QED
  BY <1>11 DEF l, longer

\* The event that nobody could be sent any more is gone.
LEMMA LostKeeps ==
  ASSUME NEW k \in ConnectionSet, NEW count, NEW frames, Pipeline(k, frames, count),
         k.pc # "open", k.writing # 0
  PROVE  Pipeline([k EXCEPT !.writing = 0], frames, count)
<1> DEFINE l == [k EXCEPT !.writing = 0]
<1>1. /\ l.arriving = k.arriving /\ l.buffer = k.buffer /\ l.writing = 0 /\ l.pc = k.pc
      /\ l.since = k.since
  BY DEF ConnectionSet
<1> HIDE DEF l
<1>2. k.pc # "none"
  BY DEF Pipeline, NoConnection
<1>3. Writing(l) = {} /\ Upcoming(l) \subseteq Upcoming(k)
  BY <1>1 DEF Upcoming, Writing
<1>4. Ordered(l, frames)
  BY <1>1, <1>3 DEF Pipeline, Ordered, Below
<1>5. Pipeline(l, frames, count)
  BY <1>1, <1>2, <1>3, <1>4 DEF Pipeline, Below
<1> QED
  BY <1>5 DEF l

\* A new event is later than all others.
LEMMA PublishKeeps ==
  ASSUME NEW k \in ConnectionSet, NEW count \in Nat, count + 1 \in Events, NEW frames,
         Pipeline(k, frames, count), k.subscribed
  PROVE  Pipeline([k EXCEPT !.arriving = Append(k.arriving, count + 1)], frames, count + 1)
<1> DEFINE e == count + 1
           l == [k EXCEPT !.arriving = Append(k.arriving, e)]
<1>1. k.arriving \in Seq(Events) /\ k.buffer \in Seq(Events) /\ k.writing \in Events \union {0}
      /\ k.since \in 0 .. MaxEvents
  BY ConnectionFields
<1>2. /\ l.arriving = Append(k.arriving, e) /\ l.buffer = k.buffer /\ l.missed = k.missed
      /\ l.writing = k.writing /\ l.since = k.since /\ l.pc = k.pc
  BY DEF ConnectionSet
<1>3. l.subscribed
  BY DEF ConnectionSet
<1>4. Below(SentEvents(frames) \union Upcoming(k), {e})
  <2>1. \A a \in 1 .. count : a < count + 1
    OBVIOUS
  <2> QED
    BY <2>1 DEF Pipeline, Below
<1>5. Below(Elements(k.arriving), {e}) /\ Sorted(k.arriving)
  BY <1>4 DEF Pipeline, Ordered, Upcoming, Below
<1>6. Elements(l.arriving) = Elements(k.arriving) \union {e} /\ Sorted(l.arriving)
  BY <1>1, <1>2, <1>5, AppendFacts
<1> HIDE DEF l
<1>7. Upcoming(l) = Upcoming(k) \union {e} /\ Writing(l) = Writing(k)
  BY <1>2, <1>6 DEF Upcoming, Writing
<1>8. Ordered(l, frames)
  BY <1>2, <1>4, <1>6, <1>7 DEF Pipeline, Ordered, Upcoming, Below
<1>9. k.pc # "none"
  BY DEF Pipeline, NoConnection
<1>10. SentEvents(frames) \union Upcoming(l) \subseteq 1 .. e /\ l.since \in 0 .. e
  <2>1. 1 .. count \subseteq 1 .. count + 1 /\ 0 .. count \subseteq 0 .. count + 1
        /\ count + 1 \in 1 .. count + 1
    OBVIOUS
  <2>2. SentEvents(frames) \union Upcoming(k) \subseteq 1 .. count /\ k.since \in 0 .. count
    BY DEF Pipeline
  <2> QED
    BY <1>2, <1>7, <2>1, <2>2
<1>11. k.pc = "open" => (k.since + 1) .. e = SentEvents(frames) \union Upcoming(l) \union l.missed
  <2>1. (k.since + 1) .. count + 1 = ((k.since + 1) .. count) \union {count + 1}
    BY DEF Pipeline
  <2>2. k.pc = "open" => (k.since + 1) .. count = SentEvents(frames) \union Upcoming(k) \union k.missed
    BY DEF Pipeline
  <2> QED
    BY <1>2, <1>7, <2>1, <2>2
<1>12. Pipeline(l, frames, e)
  BY <1>2, <1>3, <1>8, <1>9, <1>10, <1>11 DEF Pipeline
<1> QED
  BY <1>12 DEF l

LEMMA AnswerKeeps ==
  ASSUME NEW k, NEW count, NEW frames \in Seq(Frames), NEW f \in Frames,
         f.type \in {"status", "reply"}, Pipeline(k, frames, count)
  PROVE  Pipeline(k, Append(frames, f), count)
<1> DEFINE longer == Append(frames, f)
<1>1. SentEvents(longer) = SentEvents(frames) /\ (FramesSorted(frames) => FramesSorted(longer))
  BY AnswerAppended
<1> HIDE DEF longer
<1>2. Pipeline(k, longer, count)
  BY <1>1 DEF Pipeline, Ordered
<1> QED
  BY <1>2 DEF longer

\* The process dies: what was on its way is lost with it.
LEMMA CrashKeeps ==
  ASSUME NEW k, NEW count \in Nat, NEW frames, Pipeline(k, frames, count)
  PROVE  Pipeline([NoConnection EXCEPT !.pc = "gone", !.subscriber = "ended",
                                       !.forwarder = "ended"], frames, count)
<1> DEFINE l == [NoConnection EXCEPT !.pc = "gone", !.subscriber = "ended", !.forwarder = "ended"]
<1>1. /\ l.arriving = << >> /\ l.buffer = << >> /\ l.writing = 0 /\ l.pc = "gone" /\ l.since = 0
  BY DEF NoConnection
<1> HIDE DEF l
<1>2. Upcoming(l) = {} /\ Ordered(l, frames)
  BY <1>1, EmptyFacts DEF Pipeline, Ordered, Upcoming, Writing, Below
<1>3. Pipeline(l, frames, count)
  BY <1>1, <1>2 DEF Pipeline
<1> QED
  BY <1>3 DEF l

InFlow(c) == Pipeline(connections[c], sent[c], published)

LEMMA PipelineStep ==
  ASSUME Progressing, \A d \in Connections : InFlow(d), [Next]_vars, NEW c \in Connections
  PROVE  InFlow(c)'
<1> DEFINE k == connections[c]
<1>1. /\ k \in ConnectionSet /\ sent[c] \in Seq(Frames) /\ published \in 0 .. MaxEvents
      /\ DOMAIN connections = Connections /\ DOMAIN sent = Connections
      /\ published \in Nat
  BY ChatAssumption DEF Progressing, ChatTyped
<1>2. Pipeline(k, sent[c], published)
  BY DEF InFlow
<1> HIDE DEF k
<1>3. ASSUME connections'[c] = k, sent'[c] = sent[c], published' = published
      PROVE  InFlow(c)'
  BY <1>2, <1>3 DEF InFlow
<1>4. ASSUME UNCHANGED chat PROVE InFlow(c)'
  BY <1>3, <1>4 DEF chat, k
<1>5. ASSUME NEW m \in Messages, NEW d \in Connections, Receive(d, m) PROVE InFlow(c)'
  BY <1>3, <1>5 DEF Receive, k
<1>6. ASSUME NEW m \in Messages, NEW session \in Sessions, NEW text \in Texts,
             Post(m, session, text)
      PROVE  InFlow(c)'
  BY <1>3, <1>6 DEF Post, k
<1>7. ASSUME NEW d \in Connections, NEW f \in Frames, f.type \in {"status", "reply"},
             Write(d, f), UNCHANGED <<connections, published>>
      PROVE  InFlow(c)'
  <2>1. CASE sent'[c] = sent[c]
    BY <1>3, <1>7, <2>1 DEF k
  <2>2. CASE sent'[c] = Append(sent[c], f)
    <3>1. Pipeline(k, Append(sent[c], f), published)
      BY <1>1, <1>2, <1>7, AnswerKeeps
    <3> QED
      BY <1>7, <2>2, <3>1 DEF InFlow, k
  <2> QED
    BY <1>1, <1>7, <2>1, <2>2 DEF Write
<1>8. ASSUME NEW m \in Messages, MessageStep(m) PROVE InFlow(c)'
  <2>1. ASSUME NEW text \in Texts, SendStatus(m, text) PROVE InFlow(c)'
    <3>1. messages[m].via \in Connections
      BY <2>1 DEF SendStatus, Progressing, Progressed
    <3>2. [type |-> "status", message |-> m] \in Frames
      BY DEF Frames
    <3> QED
      BY <1>7, <2>1, <3>1, <3>2 DEF SendStatus
  <2>2. CASE SendReply(m)
    <3>1. messages[m].via \in Connections
      BY <2>2 DEF SendReply, Progressing, Progressed
    <3>2. [type |-> "reply", message |-> m, flow |-> FlowOf(m)] \in Frames
      BY FlowTyped DEF Frames, Progressing
    <3> QED
      BY <1>7, <2>2, <3>1, <3>2 DEF SendReply
  <2>3. CASE (RouteStep(m) /\ UNCHANGED chat) \/ RouteReturned(m) \/ Executed(m) \/ Save(m)
    BY <1>3, <2>3 DEF RouteReturned, Executed, Save, chat, k
  <2> QED
    BY <1>8, <2>1, <2>2, <2>3 DEF MessageStep
<1>9. ASSUME NEW d \in Connections,
             \/ Connect(d) \/ Subscribe(d) \/ Take(d) \/ StopSubscriber(d)
             \/ Forward(d) \/ WriteEvent(d) \/ ForwarderEnds(d)
             \/ Close(d) \/ HandlerReturns(d),
             d # c
       PROVE  InFlow(c)'
  BY <1>1, <1>3, <1>9 DEF Connect, Subscribe, Take, StopSubscriber, Forward, WriteEvent, Write,
                          ForwarderEnds, Close, HandlerReturns, k
<1>10. ASSUME NEW l, connections' = [connections EXCEPT ![c] = l], UNCHANGED <<sent, published>>,
              Pipeline(l, sent[c], published)
       PROVE  InFlow(c)'
  BY <1>1, <1>10 DEF InFlow
<1>11. CASE Connect(c)
  <2>1. k = NoConnection
    BY <1>11 DEF Connect, k
  <2> QED
    BY <1>2, <1>10, <1>11, <2>1, ConnectKeeps DEF Connect, k
<1>12. CASE Subscribe(c)
  <2>1. k.subscriber = "running" /\ ~k.subscribed
    BY <1>12 DEF Subscribe, k
  <2>2. k.pc # "none"
    BY <1>2, <2>1 DEF Pipeline, NoConnection
  <2> DEFINE l == [k EXCEPT !.subscribed = TRUE, !.since = published]
  <2>3. connections' = [connections EXCEPT ![c] = l] /\ UNCHANGED <<sent, published>>
    BY <1>1, <1>12 DEF Subscribe, k
  <2>4. Pipeline(l, sent[c], published)
    BY <1>1, <1>2, <2>1, <2>2, SubscribeKeeps
  <2> HIDE DEF l
  <2> QED
    BY <1>10, <2>3, <2>4
<1>13. CASE Take(c)
  <2>1. k.arriving # << >>
    BY <1>13 DEF Take, k
  <2> DEFINE l == [k EXCEPT !.arriving = Tail(k.arriving),
                         !.buffer = IF Len(k.buffer) < BufferSize
                                    THEN Append(k.buffer, Head(k.arriving)) ELSE k.buffer,
                         !.missed = IF Len(k.buffer) < BufferSize
                                    THEN k.missed ELSE k.missed \union {Head(k.arriving)}]
  <2>2. connections' = [connections EXCEPT ![c] = l] /\ UNCHANGED <<sent, published>>
    BY <1>1, <1>13 DEF Take, k
  <2>3. Pipeline(l, sent[c], published)
    BY <1>1, <1>2, <2>1, TakeKeeps
  <2> HIDE DEF l
  <2> QED
    BY <1>10, <2>2, <2>3
<1>14. CASE StopSubscriber(c)
  <2>1. k.pc = "gone"
    BY <1>14 DEF StopSubscriber, k
  <2> DEFINE l == [k EXCEPT !.subscriber = "ended", !.subscribed = FALSE, !.arriving = << >>]
  <2>2. connections' = [connections EXCEPT ![c] = l] /\ UNCHANGED <<sent, published>>
    BY <1>1, <1>14 DEF StopSubscriber, k
  <2>3. Pipeline(l, sent[c], published)
    BY <1>1, <1>2, <2>1, StopKeeps
  <2> HIDE DEF l
  <2> QED
    BY <1>10, <2>2, <2>3
<1>15. CASE Forward(c)
  <2>1. k.writing = 0 /\ k.buffer # << >>
    BY <1>15 DEF Forward, k
  <2> DEFINE l == [k EXCEPT !.writing = Head(k.buffer), !.buffer = Tail(k.buffer)]
  <2>2. connections' = [connections EXCEPT ![c] = l] /\ UNCHANGED <<sent, published>>
    BY <1>1, <1>15 DEF Forward, k
  <2>3. Pipeline(l, sent[c], published)
    BY <1>1, <1>2, <2>1, ForwardKeeps
  <2> HIDE DEF l
  <2> QED
    BY <1>10, <2>2, <2>3
<1>16. CASE WriteEvent(c)
  <2> DEFINE l == [k EXCEPT !.writing = 0]
  <2>1. k.writing # 0 /\ connections' = [connections EXCEPT ![c] = l] /\ published' = published
    BY <1>16 DEF WriteEvent, k
  <2>2. CASE k.pc = "open"
    <3>1. sent'[c] = Append(sent[c], [type |-> "event", event |-> k.writing])
      BY <1>1, <1>16, <2>2 DEF WriteEvent, Write, k
    <3>2. Pipeline(l, Append(sent[c], [type |-> "event", event |-> k.writing]), published)
      BY <1>1, <1>2, <2>1, WrittenKeeps
    <3> QED
      BY <1>1, <2>1, <3>1, <3>2 DEF InFlow
  <2>3. CASE k.pc # "open"
    <3>1. UNCHANGED sent
      BY <1>16, <2>3 DEF WriteEvent, Write, k
    <3>2. Pipeline(l, sent[c], published)
      BY <1>1, <1>2, <2>1, <2>3, LostKeeps
    <3> QED
      BY <1>10, <2>1, <3>1, <3>2
  <2> QED
    BY <2>2, <2>3
<1>17. CASE ForwarderEnds(c)
  <2> DEFINE l == [k EXCEPT !.forwarder = "ended"]
  <2>1. k.forwarder = "running" /\ connections' = [connections EXCEPT ![c] = l]
        /\ UNCHANGED <<sent, published>>
    BY <1>17 DEF ForwarderEnds, k
  <2>2. k.pc # "none"
    BY <1>2, <2>1 DEF Pipeline, NoConnection
  <2>3. /\ l.arriving = k.arriving /\ l.buffer = k.buffer /\ l.writing = k.writing
        /\ l.missed = k.missed /\ l.since = k.since /\ l.pc = k.pc
    BY <1>1 DEF ConnectionSet
  <2>4. l.subscribed <=> k.subscribed
    BY <1>1 DEF ConnectionSet
  <2> HIDE DEF l
  <2>5. Pipeline(l, sent[c], published)
    BY <1>2, <2>2, <2>3, <2>4, PipelineRests
  <2> QED
    BY <1>10, <2>1, <2>5
<1>18. ASSUME NEW pc \in {"closed", "gone"}, connections' = [connections EXCEPT ![c].pc = pc],
              UNCHANGED <<sent, published>>
       PROVE  InFlow(c)'
  <2> DEFINE l == [k EXCEPT !.pc = pc]
  <2>1. connections' = [connections EXCEPT ![c] = l]
    BY <1>18 DEF k
  <2>2. /\ l.arriving = k.arriving /\ l.buffer = k.buffer /\ l.writing = k.writing
        /\ l.missed = k.missed /\ l.since = k.since /\ l.pc = pc
    BY <1>1 DEF ConnectionSet
  <2> HIDE DEF l
  <2>3. Pipeline(l, sent[c], published)
    BY <1>2, <2>2, PipelineRests
  <2> QED
    BY <1>10, <1>18, <2>1, <2>3
<1>19. CASE Publish
  <2>1. published' = published + 1 /\ published + 1 \in Events /\ UNCHANGED sent
    BY <1>1, <1>19, ChatAssumption DEF Publish, Events
  <2>2. CASE k.subscribed
    <3>1. connections'[c] = [k EXCEPT !.arriving = Append(k.arriving, published + 1)]
      BY <1>19, <2>2 DEF Publish, k
    <3> QED
      BY <1>1, <1>2, <2>1, <2>2, <3>1, PublishKeeps DEF InFlow
  <2>3. CASE ~k.subscribed
    <3>1. connections'[c] = k
      BY <1>19, <2>3 DEF Publish, k
    <3>2. Pipeline(k, sent[c], published + 1)
      BY <1>1, <1>2, <2>3 DEF Pipeline
    <3> QED
      BY <2>1, <3>1, <3>2 DEF InFlow
  <2> QED
    BY <2>2, <2>3
<1>20. CASE Crash
  <2>1. UNCHANGED <<sent, published>>
    BY <1>20 DEF Crash
  <2>2. \/ connections'[c] = k
        \/ connections'[c] = [NoConnection EXCEPT !.pc = "gone", !.subscriber = "ended",
                                                  !.forwarder = "ended"]
    BY <1>20 DEF Crash, k
  <2> QED
    BY <1>1, <1>2, <1>3, <2>1, <2>2, CrashKeeps DEF InFlow
<1>21. CASE UNCHANGED vars
  BY <1>4, <1>21 DEF vars
<1>22. ASSUME \/ \E d \in Descriptions : RegisterFlow(d[1], d[2]) /\ UNCHANGED chat
              \/ \E f \in Flows : UnregisterFlow(f) /\ UNCHANGED chat
              \/ \E key \in Keys : CacheExpires(key) /\ UNCHANGED chat
       PROVE  InFlow(c)'
  BY <1>4, <1>22
<1>23. ASSUME NEW d \in Connections,
              \/ Connect(d) \/ Subscribe(d) \/ Take(d) \/ StopSubscriber(d)
              \/ Forward(d) \/ WriteEvent(d) \/ ForwarderEnds(d)
              \/ Close(d) \/ HandlerReturns(d)
       PROVE  InFlow(c)'
  BY <1>9, <1>11, <1>12, <1>13, <1>14, <1>15, <1>16, <1>17, <1>18, <1>23
     DEF Close, HandlerReturns
<1> QED
  BY <1>5, <1>6, <1>8, <1>19, <1>20, <1>21, <1>22, <1>23 DEF Next

----------------------------------------------------------------------------
(* Answers reach the client in order *)

StatusOf(c, m) == Positions(sent[c], "status", m)
ReplyOf(c, m)  == Positions(sent[c], "reply", m)

\* A message has frames on its own connection only; it has no status before it is
\* sent and no reply before it is done; and an open connection got the status.
Spoken(c, m) ==
    /\ messages[m].via = c => connections[c].pc # "none"
    /\ StatusOf(c, m) # {} \/ ReplyOf(c, m) # {} =>
          messages[m].via = c /\ messages[m].pc # "status"
    /\ ReplyOf(c, m) # {} => messages[m].pc = "done"
    /\ messages[m].via = c /\ messages[m].pc \in {"route", "execute", "reply"}
          /\ connections[c].pc = "open" => StatusOf(c, m) # {}
    /\ \A i, j \in StatusOf(c, m) : i = j
    /\ \A i, j \in ReplyOf(c, m) : i = j
    /\ \A i \in ReplyOf(c, m) : /\ \E k \in StatusOf(c, m) : k < i
                                /\ sent[c][i].flow = FlowOf(m)

\* A call of Route that a message has got its answer from changes no more.
LEMMA FlowStays ==
  ASSUME Progressing, [Next]_vars, NEW m \in Messages, messages[m].pc = "done"
  PROVE  FlowOf(m)' = FlowOf(m)
<1>1. routings[m].pc \in {"routed", "failed"}
  BY DEF Progressing, Progressed
<1>2. messages[m] # NoMessage
  BY DEF NoMessage
<1>3. SUFFICES routings'[m] = routings[m]
  BY DEF FlowOf
<1>4. ASSUME NEW n \in Messages, MessageStep(n) PROVE routings'[m] = routings[m]
  <2>1. ASSUME NEW text \in Texts, SendStatus(n, text) PROVE routings'[m] = routings[m]
    BY <2>1 DEF SendStatus, Route, Progressing, RouterInv
  <2>2. CASE RouteStep(n)
    BY <1>1, <2>2, RoutingsStay DEF Progressing
  <2>3. CASE RouteReturned(n) \/ Executed(n) \/ Save(n) \/ SendReply(n)
    BY <2>3 DEF RouteReturned, Executed, Save, SendReply, router
  <2> QED
    BY <1>4, <2>1, <2>2, <2>3 DEF MessageStep
<1>5. ASSUME NEW n \in Messages, NEW session \in Sessions, NEW text \in Texts,
             Post(n, session, text)
      PROVE  routings'[m] = routings[m]
  BY <1>2, <1>5 DEF Post, Route, Progressing, RouterInv
<1>6. ASSUME NEW n \in Messages, NEW c \in Connections, Receive(c, n)
      PROVE  routings'[m] = routings[m]
  BY <1>6 DEF Receive, router
<1>7. ASSUME \/ \E d \in Descriptions : RegisterFlow(d[1], d[2]) /\ UNCHANGED chat
             \/ \E f \in Flows : UnregisterFlow(f) /\ UNCHANGED chat
             \/ \E k \in Keys : CacheExpires(k) /\ UNCHANGED chat
      PROVE  routings'[m] = routings[m]
  BY <1>7 DEF RegisterFlow, UnregisterFlow, CacheExpires
<1>8. ASSUME NEW c \in Connections,
             \/ Connect(c) \/ Subscribe(c) \/ Take(c) \/ StopSubscriber(c)
             \/ Forward(c) \/ WriteEvent(c) \/ ForwarderEnds(c)
             \/ Close(c) \/ HandlerReturns(c)
      PROVE  routings'[m] = routings[m]
  BY <1>8 DEF Connect, Subscribe, Take, StopSubscriber, Forward, WriteEvent, ForwarderEnds,
              Close, HandlerReturns, router
<1>9. CASE Publish
  BY <1>9 DEF Publish, router
<1>10. CASE Crash
  BY <1>1, <1>10 DEF Crash, RouterDies, Routing
<1>11. CASE UNCHANGED vars
  BY <1>11 DEF vars, router
<1> QED
  BY <1>4, <1>5, <1>6, <1>7, <1>8, <1>9, <1>10, <1>11 DEF Next

\* Steps that write no answer and leave the message where it is.
LEMMA SpokenRests ==
  ASSUME NEW c \in Connections, NEW m \in Messages, Spoken(c, m),
         messages[m].pc = "done" => FlowOf(m)' = FlowOf(m),
         messages'[m] = messages[m],
         \A type \in {"status", "reply"} :
            Positions(sent[c], type, m)' = Positions(sent[c], type, m),
         \A n \in DOMAIN sent[c] : sent'[c][n] = sent[c][n],
         \/ connections'[c].pc = connections[c].pc
         \/ connections'[c].pc \in {"closed", "gone"}
         \/ messages[m].via # c
  PROVE  Spoken(c, m)'
<1>1. StatusOf(c, m)' = StatusOf(c, m) /\ ReplyOf(c, m)' = ReplyOf(c, m)
  BY DEF StatusOf, ReplyOf
<1>2. ReplyOf(c, m) \subseteq DOMAIN sent[c]
  BY DEF ReplyOf, Positions
<1>3. \A i \in ReplyOf(c, m) : sent'[c][i].flow = FlowOf(m)'
  BY <1>2 DEF Spoken
<1> QED
  BY <1>1, <1>3 DEF Spoken

\* A frame that is no answer to a message.
LEMMA OtherFrame ==
  ASSUME NEW c \in Connections, NEW m \in Messages, NEW f \in Frames, Progressing,
         Write(c, f), f.type # "event" => f.message # m, NEW d \in Connections
  PROVE  /\ \A type \in {"status", "reply"} :
               Positions(sent[d], type, m)' = Positions(sent[d], type, m)
         /\ \A n \in DOMAIN sent[d] : sent'[d][n] = sent[d][n]
<1>1. sent[d] \in Seq(Frames) /\ DOMAIN sent = Connections
  BY DEF Progressing, ChatTyped
<1>2. CASE sent'[d] = sent[d]
  BY <1>2 DEF Positions
<1>3. CASE sent'[d] = Append(sent[d], f)
  <2>1. /\ DOMAIN sent'[d] = DOMAIN sent[d] \union {Len(sent[d]) + 1}
        /\ \A n \in DOMAIN sent[d] : sent'[d][n] = sent[d][n]
        /\ sent'[d][Len(sent[d]) + 1] = f
    BY <1>1, <1>3, FrameAppended
  <2> QED
    BY <2>1 DEF Positions
<1> QED
  BY <1>1, <1>2, <1>3 DEF Write

\* The step of a message itself.
LEMMA MessageSpeaks ==
  ASSUME Progressing, NEW c \in Connections, NEW m \in Messages, Spoken(c, m),
         MessageStep(m), [Next]_vars
  PROVE  Spoken(c, m)'
<1>1. messages[m].pc # "none" => messages[m] \in MessageSet
  BY MessageFacts DEF Progressing
<1>2. /\ sent[c] \in Seq(Frames) /\ DOMAIN sent = Connections /\ DOMAIN messages = Messages
      /\ connections[c].pc \in {"none", "open", "closed", "gone"}
  BY DEF Progressing, ChatTyped, ConnectionSet
<1>3. Len(sent[c]) \in Nat
  BY <1>2, LenProperties
<1>4. ASSUME UNCHANGED <<sent, connections>>, messages[m].pc # "none", messages[m].pc # "done",
             messages'[m].via = messages[m].via,
             \/ messages[m].pc = "route" /\ messages'[m].pc \in {"execute", "reply", "done"}
             \/ messages[m].pc = "execute" /\ messages'[m].pc \in {"reply", "save"}
             \/ messages'[m].pc = "done"
             \/ messages[m].via # c /\ messages'[m].pc # "status"
             \/ connections[c].pc # "open" /\ messages'[m].pc # "status"
      PROVE  Spoken(c, m)'
  <2>1. StatusOf(c, m)' = StatusOf(c, m) /\ ReplyOf(c, m)' = ReplyOf(c, m)
    BY <1>4 DEF StatusOf, ReplyOf
  <2>2. ReplyOf(c, m) = {}
    BY <1>4 DEF Spoken
  <2> QED
    BY <1>4, <2>1, <2>2 DEF Spoken
<1>5. ASSUME NEW text \in Texts, SendStatus(m, text) PROVE Spoken(c, m)'
  <2> DEFINE f == [type |-> "status", message |-> m]
  <2>1. /\ messages[m].pc = "status" /\ messages'[m].pc = "route"
        /\ messages'[m].via = messages[m].via
        /\ Write(messages[m].via, f) /\ UNCHANGED connections
    BY <1>1, <1>2, <1>5 DEF SendStatus, MessageSet
  <2>2. CASE messages[m].via = c /\ connections[c].pc = "open"
    <3>1. f \in Frames /\ f.type = "status" /\ f.message = m
      BY DEF Frames
    <3>2. sent'[c] = Append(sent[c], f)
      BY <1>2, <2>1, <2>2 DEF Write
    <3> HIDE DEF f
    <3>3. StatusOf(c, m) = {} /\ ReplyOf(c, m) = {}
      BY <2>1 DEF Spoken
    <3>4. /\ StatusOf(c, m)' = StatusOf(c, m) \union {Len(sent[c]) + 1}
          /\ ReplyOf(c, m)' = ReplyOf(c, m)
      BY <1>2, <3>1, <3>2, AnswerAppended DEF StatusOf, ReplyOf
    <3> QED
      BY <2>1, <2>2, <3>3, <3>4 DEF Spoken
  <2>3. CASE messages[m].via # c \/ connections[c].pc # "open"
    <3>1. sent'[c] = sent[c]
      BY <1>2, <2>1, <2>3 DEF Write
    <3>2. StatusOf(c, m)' = StatusOf(c, m) /\ ReplyOf(c, m)' = ReplyOf(c, m)
      BY <3>1 DEF StatusOf, ReplyOf
    <3>3. StatusOf(c, m) = {} /\ ReplyOf(c, m) = {}
      BY <2>1 DEF Spoken
    <3> QED
      BY <2>1, <2>3, <3>2, <3>3 DEF Spoken
  <2> QED
    BY <2>2, <2>3
<1>6. CASE RouteStep(m) /\ UNCHANGED chat
  <2>1. messages[m].pc = "done" => FlowOf(m)' = FlowOf(m)
    BY FlowStays
  <2> QED
    BY <1>6, <2>1, SpokenRests DEF chat, Positions
<1>7. CASE RouteReturned(m)
  <2>1. PICK pc \in {"execute", "reply", "done"} : messages' = [messages EXCEPT ![m].pc = pc]
    BY <1>7 DEF RouteReturned
  <2>2. messages[m].pc = "route" /\ UNCHANGED <<sent, connections>>
    BY <1>7 DEF RouteReturned
  <2>3. messages'[m].pc = pc /\ messages'[m].via = messages[m].via
    BY <1>1, <1>2, <2>1, <2>2 DEF MessageSet
  <2> QED
    BY <1>4, <2>2, <2>3
<1>8. CASE Executed(m)
  <2>1. PICK pc \in {"reply", "save"} : messages' = [messages EXCEPT ![m].pc = pc]
    BY <1>8 DEF Executed
  <2>2. messages[m].pc = "execute" /\ UNCHANGED <<sent, connections>>
    BY <1>8 DEF Executed
  <2>3. messages'[m].pc = pc /\ messages'[m].via = messages[m].via
    BY <1>1, <1>2, <2>1, <2>2 DEF MessageSet
  <2> QED
    BY <1>4, <2>2, <2>3
<1>9. CASE Save(m)
  <2>1. /\ messages[m].pc = "save" /\ UNCHANGED <<sent, connections>>
        /\ messages' = [messages EXCEPT ![m].pc = "done"]
    BY <1>9 DEF Save
  <2>2. messages'[m].pc = "done" /\ messages'[m].via = messages[m].via
    BY <1>1, <1>2, <2>1 DEF MessageSet
  <2> QED
    BY <1>4, <2>1, <2>2
<1>10. CASE SendReply(m)
  <2> DEFINE f == [type |-> "reply", message |-> m, flow |-> FlowOf(m)]
  <2>1. /\ messages[m].pc = "reply" /\ messages'[m].pc = "done"
        /\ messages'[m].via = messages[m].via
        /\ Write(messages[m].via, f) /\ UNCHANGED <<connections, router>>
    BY <1>1, <1>2, <1>10 DEF SendReply, MessageSet
  <2>2. CASE messages[m].via = c /\ connections[c].pc = "open"
    <3>1. f \in Frames /\ f.type = "reply" /\ f.message = m /\ f.flow = FlowOf(m)
      BY FlowTyped DEF Frames, Progressing
    <3>2. sent'[c] = Append(sent[c], f)
      BY <1>2, <2>1, <2>2 DEF Write
    <3> HIDE DEF f
    <3>3. ReplyOf(c, m) = {} /\ StatusOf(c, m) # {}
      BY <2>1, <2>2 DEF Spoken
    <3>4. /\ ReplyOf(c, m)' = ReplyOf(c, m) \union {Len(sent[c]) + 1}
          /\ StatusOf(c, m)' = StatusOf(c, m)
      BY <1>2, <3>1, <3>2, AnswerAppended DEF StatusOf, ReplyOf
    <3>5. /\ sent'[c][Len(sent[c]) + 1] = f
          /\ \A n \in StatusOf(c, m) : n < Len(sent[c]) + 1
      BY <1>2, <3>1, <3>2, FrameAppended DEF StatusOf, Positions
    <3>6. FlowOf(m)' = FlowOf(m)
      BY <2>1 DEF FlowOf, router
    <3> QED
      BY <2>1, <2>2, <3>1, <3>3, <3>4, <3>5, <3>6 DEF Spoken
  <2>3. CASE messages[m].via # c \/ connections[c].pc # "open"
    <3>1. sent'[c] = sent[c]
      BY <1>2, <2>1, <2>3 DEF Write
    <3>2. StatusOf(c, m)' = StatusOf(c, m) /\ ReplyOf(c, m)' = ReplyOf(c, m)
      BY <3>1 DEF StatusOf, ReplyOf
    <3>3. ReplyOf(c, m) = {}
      BY <2>1 DEF Spoken
    <3> QED
      BY <2>1, <2>3, <3>2, <3>3 DEF Spoken
  <2> QED
    BY <2>2, <2>3
<1> QED
  BY <1>5, <1>6, <1>7, <1>8, <1>9, <1>10 DEF MessageStep

LEMMA SpokenStep ==
  ASSUME Progressing, [Next]_vars, NEW c \in Connections, NEW m \in Messages, Spoken(c, m)
  PROVE  Spoken(c, m)'
<1>1. messages[m].pc = "done" => FlowOf(m)' = FlowOf(m)
  BY FlowStays
<1>2. /\ DOMAIN connections = Connections /\ DOMAIN messages = Messages
      /\ connections[c] \in ConnectionSet
  BY DEF Progressing, ChatTyped
<1>3. ASSUME messages'[m] = messages[m], sent'[c] = sent[c],
             \/ connections'[c].pc = connections[c].pc
             \/ connections'[c].pc \in {"closed", "gone"}
             \/ messages[m].via # c
      PROVE  Spoken(c, m)'
  BY <1>1, <1>3, SpokenRests DEF Positions
<1>4. ASSUME NEW n \in Messages, MessageStep(n), n # m PROVE Spoken(c, m)'
  <2>1. ASSUME NEW d \in Connections, NEW f \in Frames, Write(d, f), f.message = n,
               UNCHANGED connections, messages'[m] = messages[m]
        PROVE  Spoken(c, m)'
    <3>1. f.message # m
      BY <1>4, <2>1
    <3> QED
      BY <1>1, <2>1, <3>1, OtherFrame, SpokenRests
  <2>2. ASSUME NEW text \in Texts, SendStatus(n, text) PROVE Spoken(c, m)'
    <3>1. messages[n].via \in Connections
      BY <2>2 DEF SendStatus, Progressing, Progressed
    <3>2. [type |-> "status", message |-> n] \in Frames
      BY DEF Frames
    <3> QED
      BY <1>2, <1>4, <2>1, <2>2, <3>1, <3>2 DEF SendStatus
  <2>3. CASE SendReply(n)
    <3>1. messages[n].via \in Connections
      BY <2>3 DEF SendReply, Progressing, Progressed
    <3>2. [type |-> "reply", message |-> n, flow |-> FlowOf(n)] \in Frames
      BY FlowTyped DEF Frames, Progressing
    <3> QED
      BY <1>2, <1>4, <2>1, <2>3, <3>1, <3>2 DEF SendReply
  <2>4. CASE (RouteStep(n) /\ UNCHANGED chat) \/ RouteReturned(n) \/ Executed(n) \/ Save(n)
    BY <1>2, <1>3, <1>4, <2>4 DEF RouteReturned, Executed, Save, chat
  <2> QED
    BY <1>4, <2>2, <2>3, <2>4 DEF MessageStep
<1>5. ASSUME messages[m] = NoMessage, UNCHANGED <<sent, connections>>,
             \/ messages'[m].via # c /\ messages'[m].pc # "none"
             \/ messages'[m].pc = "status" /\ connections[c].pc = "open"
      PROVE  Spoken(c, m)'
  <2>1. messages[m].via # c
    BY <1>5, ChatAssumption DEF NoMessage
  <2>2. StatusOf(c, m) = {} /\ ReplyOf(c, m) = {}
    BY <2>1 DEF Spoken
  <2>3. StatusOf(c, m)' = {} /\ ReplyOf(c, m)' = {}
    BY <1>5, <2>2 DEF StatusOf, ReplyOf
  <2> QED
    BY <1>5, <2>3 DEF Spoken
<1>6. ASSUME NEW n \in Messages, NEW d \in Connections, Receive(d, n) PROVE Spoken(c, m)'
  <2>1. CASE n # m
    BY <1>2, <1>3, <1>6, <2>1 DEF Receive
  <2>2. CASE n = m
    <3>1. messages'[m] = [pc |-> "status", via |-> d]
      BY <1>2, <1>6, <2>2 DEF Receive
    <3> QED
      BY <1>5, <1>6, <2>2, <3>1 DEF Receive
  <2> QED
    BY <2>1, <2>2
<1>7. ASSUME NEW n \in Messages, NEW session \in Sessions, NEW text \in Texts,
             Post(n, session, text)
      PROVE  Spoken(c, m)'
  <2>1. CASE n # m
    BY <1>2, <1>3, <1>7, <2>1 DEF Post
  <2>2. CASE n = m
    <3>1. messages'[m] = [pc |-> "route", via |-> session]
      BY <1>2, <1>7, <2>2 DEF Post
    <3>2. session # c
      BY ChatAssumption
    <3> QED
      BY <1>5, <1>7, <2>2, <3>1, <3>2 DEF Post
  <2> QED
    BY <2>1, <2>2
<1>8. ASSUME NEW d \in Connections,
             \/ Subscribe(d) \/ Take(d) \/ StopSubscriber(d) \/ Forward(d) \/ ForwarderEnds(d)
             \/ Close(d) \/ HandlerReturns(d)
      PROVE  Spoken(c, m)'
  <2>1. UNCHANGED <<messages, sent>>
    BY <1>8 DEF Subscribe, Take, StopSubscriber, Forward, ForwarderEnds, Close, HandlerReturns
  <2>2. \/ connections'[c].pc = connections[c].pc
        \/ connections'[c].pc \in {"closed", "gone"}
    <3>1. CASE Subscribe(d)
      BY <1>2, <3>1 DEF Subscribe, ConnectionSet
    <3>2. CASE Take(d)
      BY <1>2, <3>2 DEF Take, ConnectionSet
    <3>3. CASE StopSubscriber(d)
      BY <1>2, <3>3 DEF StopSubscriber, ConnectionSet
    <3>4. CASE Forward(d) \/ ForwarderEnds(d)
      BY <1>2, <3>4 DEF Forward, ForwarderEnds, ConnectionSet
    <3>5. CASE Close(d) \/ HandlerReturns(d)
      BY <1>2, <3>5 DEF Close, HandlerReturns, ConnectionSet
    <3> QED
      BY <1>8, <3>1, <3>2, <3>3, <3>4, <3>5
  <2> QED
    BY <1>3, <2>1, <2>2
<1>9. ASSUME NEW d \in Connections, Connect(d) PROVE Spoken(c, m)'
  <2>1. CASE d = c
    <3>1. connections[c].pc = "none"
      BY <1>9, <2>1 DEF Connect, NoConnection
    <3>2. messages[m].via # c
      BY <3>1 DEF Spoken
    <3> QED
      BY <1>3, <1>9, <3>2 DEF Connect
  <2>2. CASE d # c
    BY <1>2, <1>3, <1>9, <2>2 DEF Connect
  <2> QED
    BY <2>1, <2>2
<1>10. ASSUME NEW d \in Connections, WriteEvent(d) PROVE Spoken(c, m)'
  <2> DEFINE f == [type |-> "event", event |-> connections[d].writing]
  <2>1. connections[d].writing \in Events
    BY <1>10, ConnectionFields DEF WriteEvent, Progressing, ChatTyped
  <2>2. f \in Frames /\ f.type = "event"
    BY <2>1 DEF Frames
  <2>3. Write(d, f) /\ UNCHANGED messages
    BY <1>10 DEF WriteEvent
  <2>4. connections'[c].pc = connections[c].pc
    BY <1>2, <1>10 DEF WriteEvent, ConnectionSet
  <2> HIDE DEF f
  <2> QED
    BY <1>1, <2>2, <2>3, <2>4, OtherFrame, SpokenRests
<1>11. CASE Publish
  <2>1. connections'[c].pc = connections[c].pc
    BY <1>2, <1>11 DEF Publish, ConnectionSet
  <2> QED
    BY <1>3, <1>11, <2>1 DEF Publish
<1>12. CASE Crash
  <2>1. /\ UNCHANGED sent
        /\ \/ connections'[c].pc = connections[c].pc
           \/ connections'[c].pc = "gone"
    BY <1>12 DEF Crash, NoConnection
  <2>2. CASE ~UnderWay(m)
    BY <1>3, <1>12, <2>1, <2>2 DEF Crash
  <2>3. CASE UnderWay(m)
    <3>1. messages[m] \in MessageSet
      BY <2>3, MessageFacts DEF UnderWay, Progressing
    <3>2. messages'[m].pc = "dead" /\ messages'[m].via = messages[m].via
      BY <1>12, <2>3, <3>1 DEF Crash, MessageSet
    <3>3. ReplyOf(c, m) = {}
      BY <2>3 DEF Spoken, UnderWay
    <3>4. StatusOf(c, m)' = StatusOf(c, m) /\ ReplyOf(c, m)' = {}
      BY <2>1, <3>3 DEF StatusOf, ReplyOf
    <3> QED
      BY <2>1, <3>2, <3>4 DEF Spoken
  <2> QED
    BY <2>2, <2>3
<1>13. ASSUME UNCHANGED chat PROVE Spoken(c, m)'
  BY <1>3, <1>13 DEF chat
<1>14. CASE UNCHANGED vars
  BY <1>13, <1>14 DEF vars
<1>15. ASSUME NEW n \in Messages, MessageStep(n) PROVE Spoken(c, m)'
  BY <1>4, <1>15, MessageSpeaks
<1> QED
  BY <1>6, <1>7, <1>8, <1>9, <1>10, <1>11, <1>12, <1>13, <1>14, <1>15 DEF Next

\* The client of a WebSocket sees everything in order: the status of a message before
\* its reply, which names the flow the message was routed to, and the events as they
\* were published, without a gap but for those a full buffer had no room for.
THEOREM ClientsSeeOrder == Spec => []ClientSeesOrder
<1> DEFINE Inv == /\ Progressing
                  /\ \A c \in Connections : InFlow(c)
                  /\ \A c \in Connections, m \in Messages : Spoken(c, m)
<1>1. Init => Inv
  <2> SUFFICES ASSUME Init PROVE Inv
    OBVIOUS
  <2>1. \A c \in Connections : InFlow(c)
    BY PipelineStarts DEF Init, InFlow
  <2>2. ASSUME NEW c \in Connections, NEW m \in Messages PROVE Spoken(c, m)
    <3>1. StatusOf(c, m) = {} /\ ReplyOf(c, m) = {}
      BY DEF Init, StatusOf, ReplyOf, Positions
    <3>2. messages[m].via # c
      BY ChatAssumption DEF Init, NoMessage
    <3> QED
      BY <3>1, <3>2 DEF Spoken
  <2> QED
    BY <2>1, <2>2, ProgressingInit
<1>2. Inv /\ [Next]_vars => Inv'
  <2> SUFFICES ASSUME Inv, [Next]_vars PROVE Inv'
    OBVIOUS
  <2>1. Progressing'
    BY ProgressingStep
  <2>2. \A c \in Connections : InFlow(c)'
    BY PipelineStep
  <2>3. \A c \in Connections, m \in Messages : Spoken(c, m)'
    BY SpokenStep
  <2> QED
    BY <2>1, <2>2, <2>3
<1>3. Inv => ClientSeesOrder
  <2> SUFFICES ASSUME Inv, NEW c \in Connections
               PROVE
        LET conn  == connections[c]
            sentOf == {sent[c][n].event : n \in EventFrames(c)}
            onWay  == {conn.arriving[n] : n \in DOMAIN conn.arriving}
                      \union {conn.buffer[n] : n \in DOMAIN conn.buffer}
                      \union ({conn.writing} \ {0})
        IN
        /\ \A m \in Messages : \A i, j \in Framed(c, "reply", m) :
              /\ i = j
              /\ \E k \in Framed(c, "status", m) : k < i
              /\ sent[c][i].flow = FlowOf(m)
        /\ \A m \in Messages : \A i, j \in Framed(c, "status", m) : i = j
        /\ \A i, j \in EventFrames(c) : i < j => sent[c][i].event < sent[c][j].event
        /\ conn.pc = "open" /\ conn.subscribed =>
              (conn.since + 1) .. published = sentOf \union onWay \union conn.missed
    BY DEF ClientSeesOrder
  <2> DEFINE k == connections[c]
  <2>1. Pipeline(k, sent[c], published)
    BY DEF InFlow
  <2>2. \A m \in Messages : Spoken(c, m)
    OBVIOUS
  <2>3. \A m \in Messages : /\ Framed(c, "reply", m) = ReplyOf(c, m)
                            /\ Framed(c, "status", m) = StatusOf(c, m)
    BY DEF Framed, ReplyOf, StatusOf, Positions
  <2>4. EventFrames(c) = EventPositions(sent[c])
    BY DEF EventFrames, EventPositions
  <2>5. {sent[c][n].event : n \in EventFrames(c)} = SentEvents(sent[c])
    BY <2>4 DEF SentEvents
  <2>6. {k.arriving[n] : n \in DOMAIN k.arriving} \union {k.buffer[n] : n \in DOMAIN k.buffer}
           \union ({k.writing} \ {0}) = Upcoming(k)
    BY DEF Upcoming, Elements, Writing
  <2>7. \A i, j \in EventFrames(c) : i < j => sent[c][i].event < sent[c][j].event
    BY <2>1, <2>4 DEF Pipeline, Ordered, FramesSorted
  <2>8. k.pc = "open" /\ k.subscribed =>
           (k.since + 1) .. published = SentEvents(sent[c]) \union Upcoming(k) \union k.missed
    BY <2>1 DEF Pipeline
  <2>9. \A m \in Messages : /\ \A i, j \in Framed(c, "reply", m) :
                                  /\ i = j
                                  /\ \E l \in Framed(c, "status", m) : l < i
                                  /\ sent[c][i].flow = FlowOf(m)
                            /\ \A i, j \in Framed(c, "status", m) : i = j
    BY <2>2, <2>3 DEF Spoken
  <2> QED
    BY <2>5, <2>6, <2>7, <2>8, <2>9
<1> QED
  BY <1>1, <1>2, <1>3, PTL DEF Spec
=============================================================================
