-------------------------------- MODULE Chat --------------------------------
(***************************************************************************)
(* Chat over HTTP and over WebSockets (internal/chat/handler.go), with the *)
(* event bus that feeds the latter (internal/shared/events.go) and the     *)
(* semantic router.                                                        *)
(*                                                                         *)
(* A WebSocket has a goroutine that reads messages, one for each message   *)
(* that routes it and executes the flow, one that takes events from Redis  *)
(* into a buffer, and one that forwards the buffer to the client.  All of  *)
(* them write to one connection, each frame whole.  A client that does not *)
(* read holds up writers for as long as the connection is open.            *)
(*                                                                         *)
(* The flow itself is one step here: FlowOrchestrator models it.  Events   *)
(* are numbered as they are published, by whichever run: every connection  *)
(* is subscribed to the one channel of the orchestrator.                   *)
(***************************************************************************)
EXTENDS SemanticRouter, Sequences

CONSTANTS
    Connections,
    Sessions,     \* sessions of messages sent by HTTP
    BufferSize,   \* events that a subscriber's channel holds
    MaxEvents     \* bound: events published

ASSUME ChatAssumption ==
    /\ {BufferSize, MaxEvents} \subseteq Nat
    /\ Connections \intersect Sessions = {}
    /\ None \notin Messages \union Connections \union Sessions

VARIABLES
    connections,
    messages,      \* messages, by HTTP or by a connection
    conversations, \* the record of each session in Redis
    published,     \* number of events published
    \* history
    sent           \* the frames each connection has carried

chat == <<connections, messages, conversations, published, sent>>
vars == <<router, chat>>

----------------------------------------------------------------------------
(* Types *)

Events == 1 .. MaxEvents

\* "closed": reading has failed; "gone": the handler has returned, and the context
\* of the request is done.
ConnectionSet ==
    [pc         : {"none", "open", "closed", "gone"},
     subscriber : {"none", "running", "ended"},
     subscribed : BOOLEAN,                \* Redis sends it events
     arriving   : Seq(Events),            \* sent by Redis
     buffer     : Seq(Events),
     forwarder  : {"none", "running", "ended"},
     writing    : Events \union {0},      \* the event it is forwarding
     since      : 0 .. MaxEvents,         \* history: published before it subscribed
     missed     : SUBSET Events]          \* history: dropped at a full buffer
NoConnection ==
    [pc |-> "none", subscriber |-> "none", subscribed |-> FALSE, arriving |-> << >>,
     buffer |-> << >>, forwarder |-> "none", writing |-> 0, since |-> 0, missed |-> {}]

MessageSet == [pc  : {"status", "route", "execute", "reply", "save", "done", "dead"},
               via : Connections \union Sessions]
NoMessage  == [pc |-> "none", via |-> None]

Records  == [message : Messages, flow : Flows]
NoRecord == [message |-> None, flow |-> None]

Frames == [type : {"event"}, event : Events]
          \union [type : {"status"}, message : Messages]
          \union [type : {"reply"}, message : Messages, flow : Flows \union {None}]

Live(c) == connections[c].pc \in {"open", "closed", "gone"}

\* A message that a goroutine is at work on.
UnderWay(m) == messages[m].pc \notin {"none", "done", "dead"}

\* The flow a message was routed to, if it was.
FlowOf(m) == IF routings[m].pc = "routed" THEN routings[m].graph[1] ELSE None

----------------------------------------------------------------------------
Init ==
    /\ RouterInit
    /\ connections = [c \in Connections |-> NoConnection]
    /\ messages = [m \in Messages |-> NoMessage]
    /\ conversations = [s \in Sessions |-> NoRecord]
    /\ published = 0
    /\ sent = [c \in Connections |-> << >>]

\* A frame is written, or not any more; the error is ignored.
Write(c, frame) ==
    sent' = IF connections[c].pc = "open" THEN [sent EXCEPT ![c] = Append(@, frame)] ELSE sent

\* HandleWebSocket up to its loop.
Connect(c) ==
    /\ connections[c] = NoConnection
    /\ connections' = [connections EXCEPT ![c].pc = "open", ![c].subscriber = "running",
                                          ![c].forwarder = "running"]
    /\ UNCHANGED <<router, messages, conversations, published, sent>>

\* Redis has received the request to subscribe.
Subscribe(c) ==
    /\ connections[c].subscriber = "running" /\ ~connections[c].subscribed
    /\ connections[c].pc # "gone"
    /\ connections' = [connections EXCEPT ![c].subscribed = TRUE, ![c].since = published]
    /\ UNCHANGED <<router, messages, conversations, published, sent>>

\* A run publishes an event; one that nobody is subscribed to is left out.
Publish ==
    /\ \E c \in Connections : connections[c].subscribed
    /\ published < MaxEvents
    /\ published' = published + 1
    /\ connections' = [c \in Connections |->
           IF connections[c].subscribed
           THEN [connections[c] EXCEPT !.arriving = Append(@, published + 1)]
           ELSE connections[c]]
    /\ UNCHANGED <<router, messages, conversations, sent>>

\* Mutant: a full buffer makes room by dropping its oldest event.
TakeDropsOldest(c) ==
    LET event == Head(connections[c].arriving) IN
    /\ connections[c].subscriber = "running" /\ connections[c].arriving # << >>
    /\ connections' = [connections EXCEPT
           ![c].arriving = Tail(@),
           ![c].buffer = IF Len(@) < BufferSize THEN Append(@, event)
                                                ELSE Append(Tail(@), event)]
    /\ UNCHANGED <<router, messages, conversations, published, sent>>

\* Mutant: the buffer has no limit.
TakeAlways(c) ==
    LET event == Head(connections[c].arriving) IN
    /\ connections[c].subscriber = "running" /\ connections[c].arriving # << >>
    /\ connections' = [connections EXCEPT ![c].arriving = Tail(@),
                                          ![c].buffer = Append(@, event)]
    /\ UNCHANGED <<router, messages, conversations, published, sent>>

\* The subscriber puts an event into the buffer, or drops it if that is full.
Take(c) ==
    LET event == Head(connections[c].arriving)
        room  == Len(connections[c].buffer) < BufferSize
    IN
    /\ connections[c].subscriber = "running" /\ connections[c].arriving # << >>
    /\ connections' = [connections EXCEPT
           ![c].arriving = Tail(@),
           ![c].buffer = IF room THEN Append(@, event) ELSE @,
           ![c].missed = IF room THEN @ ELSE @ \union {event}]
    /\ UNCHANGED <<router, messages, conversations, published, sent>>

\* Mutant: the subscriber waits for Redis to end the subscription.
StopWithRedis(c) ==
    /\ connections[c].subscriber = "running" /\ connections[c].pc = "gone"
    /\ ~connections[c].subscribed
    /\ connections' = [connections EXCEPT ![c].subscriber = "ended",
                           ![c].subscribed = FALSE, ![c].arriving = << >>]
    /\ UNCHANGED <<router, messages, conversations, published, sent>>

\* The subscriber sees that the context is done; the channel is closed.
StopSubscriber(c) ==
    /\ connections[c].subscriber = "running" /\ connections[c].pc = "gone"
    /\ connections' = [connections EXCEPT ![c].subscriber = "ended",
                           ![c].subscribed = FALSE, ![c].arriving = << >>]
    /\ UNCHANGED <<router, messages, conversations, published, sent>>

\* The forwarder takes an event, writes it, and ends with the channel.
Forward(c) ==
    /\ connections[c].forwarder = "running" /\ connections[c].writing = 0
    /\ connections[c].buffer # << >>
    /\ connections' = [connections EXCEPT ![c].writing = Head(connections[c].buffer),
                                          ![c].buffer = Tail(@)]
    /\ UNCHANGED <<router, messages, conversations, published, sent>>

WriteEvent(c) ==
    /\ connections[c].writing # 0
    /\ Write(c, [type |-> "event", event |-> connections[c].writing])
    /\ connections' = [connections EXCEPT ![c].writing = 0]
    /\ UNCHANGED <<router, messages, conversations, published>>

ForwarderEnds(c) ==
    /\ connections[c].forwarder = "running" /\ connections[c].writing = 0
    /\ connections[c].buffer = << >> /\ connections[c].subscriber = "ended"
    /\ connections' = [connections EXCEPT ![c].forwarder = "ended"]
    /\ UNCHANGED <<router, messages, conversations, published, sent>>

\* The reader gets a message and starts a goroutine for it.
Receive(c, m) ==
    /\ connections[c].pc = "open"
    /\ messages[m] = NoMessage
    /\ messages' = [messages EXCEPT ![m] = [pc |-> "status", via |-> c]]
    /\ UNCHANGED <<router, connections, conversations, published, sent>>

\* "processing" is written, then the text of the message is routed.
SendStatus(m, text) ==
    /\ messages[m].pc = "status"
    /\ Write(messages[m].via, [type |-> "status", message |-> m])
    /\ messages' = [messages EXCEPT ![m].pc = "route"]
    /\ Route(m, text)
    /\ UNCHANGED <<registry, vectors, cache, connections, conversations, published>>

\* HandleMessage.
Post(m, session, text) ==
    /\ messages[m] = NoMessage
    /\ messages' = [messages EXCEPT ![m] = [pc |-> "route", via |-> session]]
    /\ Route(m, text)
    /\ UNCHANGED <<registry, vectors, cache, connections, conversations, published, sent>>

\* A message that cannot be routed is answered so; by HTTP that is the end of it,
\* and the conversation stays as it was.
RouteReturned(m) ==
    LET unrouted == IF messages[m].via \in Connections THEN "reply" ELSE "done" IN
    /\ messages[m].pc = "route"
    /\ \/ routings[m].pc = "routed" /\ messages' = [messages EXCEPT ![m].pc = "execute"]
       \/ routings[m].pc = "failed" /\ messages' = [messages EXCEPT ![m].pc = unrouted]
    /\ UNCHANGED <<router, connections, conversations, published, sent>>

\* The flow ends, pauses, fails or is cancelled.
Executed(m) ==
    /\ messages[m].pc = "execute"
    /\ messages' = [messages EXCEPT ![m].pc =
           IF messages[m].via \in Connections THEN "reply" ELSE "save"]
    /\ UNCHANGED <<router, connections, conversations, published, sent>>

\* SetConversationContext writes the whole record; its error is ignored.
Save(m) ==
    /\ messages[m].pc = "save"
    /\ conversations' \in {conversations,
           [conversations EXCEPT ![messages[m].via] = [message |-> m, flow |-> FlowOf(m)]]}
    /\ messages' = [messages EXCEPT ![m].pc = "done"]
    /\ UNCHANGED <<router, connections, published, sent>>

SendReply(m) ==
    /\ messages[m].pc = "reply"
    /\ Write(messages[m].via, [type |-> "reply", message |-> m, flow |-> FlowOf(m)])
    /\ messages' = [messages EXCEPT ![m].pc = "done"]
    /\ UNCHANGED <<router, connections, conversations, published>>

\* Reading fails: the client has closed the connection, or is gone, or has sent
\* what is no message.
Close(c) ==
    /\ connections[c].pc = "open"
    /\ connections' = [connections EXCEPT ![c].pc = "closed"]
    /\ UNCHANGED <<router, messages, conversations, published, sent>>

\* The handler returns, and the server cancels the context of the request.
HandlerReturns(c) ==
    /\ connections[c].pc = "closed"
    /\ connections' = [connections EXCEPT ![c].pc = "gone"]
    /\ UNCHANGED <<router, messages, conversations, published, sent>>

\* The process dies.
Crash ==
    /\ RouterDies
    /\ connections' = [c \in Connections |->
           IF Live(c) THEN [NoConnection EXCEPT !.pc = "gone", !.subscriber = "ended",
                                                !.forwarder = "ended"]
                      ELSE connections[c]]
    /\ messages' = [m \in Messages |->
           IF UnderWay(m) THEN [messages[m] EXCEPT !.pc = "dead"] ELSE messages[m]]
    /\ UNCHANGED <<conversations, published, sent>>

----------------------------------------------------------------------------
\* A step of the goroutine of a message.
MessageStep(m) ==
    \/ \E text \in Texts : SendStatus(m, text)
    \/ RouteStep(m) /\ UNCHANGED chat
    \/ RouteReturned(m) \/ Executed(m) \/ Save(m) \/ SendReply(m)

Next ==
    \/ \E d \in Descriptions : RegisterFlow(d[1], d[2]) /\ UNCHANGED chat
    \/ \E f \in Flows : UnregisterFlow(f) /\ UNCHANGED chat
    \/ \E k \in Keys : CacheExpires(k) /\ UNCHANGED chat
    \/ \E m \in Messages :
          \/ \E c \in Connections : Receive(c, m)
          \/ \E session \in Sessions, text \in Texts : Post(m, session, text)
          \/ MessageStep(m)
    \/ \E c \in Connections :
          \/ Connect(c) \/ Subscribe(c) \/ Take(c) \/ StopSubscriber(c)
          \/ Forward(c) \/ WriteEvent(c) \/ ForwarderEnds(c)
          \/ Close(c) \/ HandlerReturns(c)
    \/ Publish
    \/ Crash

Spec == Init /\ [][Next]_vars

\* A client need not read: a write to an open connection may never end.
MayBlock(m) == messages[m].pc \in {"status", "reply"} /\ connections[messages[m].via].pc = "open"

\* Goroutines go on; Redis, the database and the embedding service answer or
\* report an error; a flow ends (RequestsEnd of FlowOrchestrator).
Fairness ==
    /\ \A m \in Messages : WF_vars(~MayBlock(m) /\ MessageStep(m))
    /\ \A c \in Connections :
          /\ WF_vars(HandlerReturns(c))
          /\ WF_vars(StopSubscriber(c))
          /\ WF_vars(Forward(c) \/ ForwarderEnds(c))
          /\ WF_vars(connections[c].pc # "open" /\ WriteEvent(c))

FairSpec == Spec /\ Fairness

----------------------------------------------------------------------------
(* What chat promises *)

\* Every variable holds values of its type, and no buffer more than it has room for.
TypeOK ==
    /\ RouterTypeOK
    /\ connections \in [Connections -> ConnectionSet]
    /\ \A c \in Connections : Len(connections[c].buffer) <= BufferSize
    /\ messages \in [Messages -> MessageSet \union {NoMessage}]
    /\ conversations \in [Sessions -> Records \union {NoRecord}]
    /\ published \in 0 .. MaxEvents
    /\ sent \in [Connections -> Seq(Frames)]

\* Positions of the frames of a connection that satisfy a condition.
EventFrames(c)    == {n \in DOMAIN sent[c] : sent[c][n].type = "event"}
Framed(c, type, m) == {n \in DOMAIN sent[c] : sent[c][n].type = type /\ sent[c][n].message = m}

\* Whatever goroutines write to a connection, its client gets the status of a
\* message before its reply, each at most once, and the reply names the flow that
\* this very message was routed to; and it gets events in the order they were
\* published, each once, and all of those published since it was subscribed that
\* are not on their way to it, except what a full buffer made the bus drop.
ClientSeesOrder ==
    \A c \in Connections :
        LET conn  == connections[c]
            sentOf == {sent[c][n].event : n \in EventFrames(c)}
            onWay  == {conn.arriving[n] : n \in DOMAIN conn.arriving}
                      \union {conn.buffer[n] : n \in DOMAIN conn.buffer}
                      \union ({conn.writing} \ {0})
        IN
        /\ \A m \in Messages : \A i, j \in Framed(c, "reply", m) :
              /\ i = j
              /\ \E k \in Framed(c, "status", m) : k < i
              /\ sent[c][i].flow = FlowOf(m)
        /\ \A m \in Messages : \A i, j \in Framed(c, "status", m) : i = j
        /\ \A i, j \in EventFrames(c) : i < j => sent[c][i].event < sent[c][j].event
        /\ conn.pc = "open" /\ conn.subscribed =>
              (conn.since + 1) .. published = sentOf \union onWay \union conn.missed

\* Nothing that works for a connection: its subscriber, its forwarder, and a
\* goroutine for each of its messages.
Quiet(c) ==
    /\ connections[c].subscriber = "ended" /\ ~connections[c].subscribed
    /\ connections[c].forwarder = "ended"
    /\ \A m \in Messages : messages[m].via = c => ~UnderWay(m)

\* When a connection is closed, whatever its client left unread and wherever its
\* messages are, all that works for it ends, the subscription in Redis included.
ChatEnds == \A c \in Connections : connections[c].pc = "closed" ~> Quiet(c)
=============================================================================
