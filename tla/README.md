# Genoma in TLA+

A verification development for the Genoma runtime (Go, `src/`): TLA+ modules that
follow the code, TLC runs over small instances, and TLAPS proofs for all instances.

Genoma stores nodes (a script with an input and an output contract) and flows (a graph
of nodes) in PostgreSQL, executes flows by running the scripts in Docker containers,
keeps the state of runs and schedules in Redis, and is driven over HTTP, WebSocket and
MCP. There are no tests in the repository; the properties below are what its code, its
comments and its README promise.

## 1. The system

| component | state | operations | talks to |
|---|---|---|---|
| `FlowScheduler` `core/scheduler.go` | none of its own | `Schedule`, `Cancel`, `List`, ticker `Start` / `runDue` | StateBus (round trips), the executor callback of `main.go` |
| `FlowOrchestrator` `core/orchestrator.go`, `node.go` | map of cycle counters per run, one mutex for all; per request a `runState` | `Execute`, `Resume`; inside: `executeNode`, `resolveNextNodes`, `executeNext`, fork and join by `errgroup` | StateBus, sandbox, contract validator, event bus |
| `FlowGraph` `core/graph.go` | nodes, edges, entry, a lock | building, `Validate`, `GetNextNodes`, `GetEdge`, `TopologicalLayers` | called by handlers and orchestrator |
| `StateBus` `core/state.go` | Redis keys: node states, run records (1 h, waiting 72 h), HITL records (72 h), schedules (7 d) with set and index, conversation contexts, embeddings | one or a few Redis commands each, no transactions | Redis |
| ADI handlers `adi/handler.go` | none | one per HTTP route | all of the above and the stores |
| `RelationalRepo` `persistence/relational.go` | tables of nodes, flows, links | upserts, deletes, queries | PostgreSQL |
| `UnifiedPersistence` `persistence/unified.go`, `document.go`, `vector.go` | entities, documents, vectors, audit log | `CreateEntity` (one transaction), `DeleteEntity` (three statements), search | PostgreSQL |
| `SemanticRouter` `core/router.go` | registry of flows in memory, vectors in the store | `RegisterFlow`, `Route` | embedding service, embedding cache |
| `SandboxExecutor` `sandbox/` | a container per call | `Execute`, `ParseOutput` | Docker |
| `ContractValidator` `core/contracts.go` | one compiler for all goroutines | `ValidateInput`, `ValidateOutput` | a JSON Schema library |
| `EventBus` `shared/events.go` | Redis channels, a buffer of 64 per subscriber | `Publish`, `Subscribe` | Redis |
| chat `chat/handler.go` | a conversation record per session in Redis, WebSockets with three kinds of goroutines | `HandleMessage`, `HandleWebSocket`, `GetSessionHistory` | router, orchestrator, event bus, StateBus |
| `ToolRegistry`, `Builder`, MCP server, middleware, configuration | a map under a lock, or nothing | | |

What is hard, and what makes a component correct:

- **Scheduler.** Ticker, goroutines and cancel requests each read a record, decide, and
  write the whole record back in later round trips; the write of record, set and index
  is a pipeline without a transaction; records expire; the process may die anywhere.
  Correct means: an accepted schedule can be found while it is pending, is started at
  most once and in the end, and a cancellation that was confirmed is final.
- **Orchestrator.** Goroutines of forks share counters, cancel each other, and write
  the same records; a pause is three writes; a resume works on a copy of the record;
  the map of counters is shared by all requests of a run and deleted by whichever ends
  first. Correct means: every request is answered, loops are bounded, failures reach the
  run's status, a paused run can be resumed and a settled one cannot.
- **Graph.** Validation sees what the database holds, which nobody checked before.
  Correct means: `Validate` accepts exactly the graphs whose nodes can all be reached,
  layers respect the edges, building never leaves a dangling edge.
- **Stores.** Several statements per operation, cascades, read-modify-write upserts:
  a reader may see a mixture, an update may be lost or bring back what was deleted.
- **Router.** The registry is lost with the process, the vectors are not and only grow;
  embeddings are cached under a hash of the text; registrations go on while a message is
  routed. Correct means: a message is routed to a registered flow whose description is
  near enough and the nearest of those stored, by the embedding of a text with its hash.
- **Validator and sandbox.** All goroutines share one compiler without a lock. Each of six
  requests to Docker may fail, scripts need not end, output is read only after the end,
  cut at a limit and parsed line by line. Correct means: a value accepted meets its schema,
  a node succeeds only with what its script returned, every execution ends, and no
  container outlives it.
- **Chat and events.** Goroutines of messages and the forwarder of events write to one
  connection; events are dropped at a full buffer; clients leave or do not read. Correct
  means: a client sees events in order and each reply after its status, and a closed
  connection leaves nothing behind.

## 2. Modules

| module | models |
|---|---|
| `FlowScheduler` | scheduler, its part of the state bus, the callback of `main.go`, the schedule handlers |
| `FlowScheduler_proofs` | theorems about it |
| `FlowEdges` | `Edge`, `GetNextNodes`, `GetEdge`, as pure operators |
| `FlowOrchestrator` | orchestrator, its part of the state bus, the handlers that execute and resume (extends `FlowEdges`) |
| `FlowRunLifecycle` | abstract: what a client that polls a run's status may rely on; `FlowOrchestrator` implements it: the safety part is proved, the whole checked |
| `FlowTasks_proofs` | about a request's goroutines: paths, the tree they form, what each step does to them, types, cancellation; the lemma `FirstEdge` about `GetEdge` |
| `FlowOrchestrator_proofs` | theorems about runs (extends `FlowTasks_proofs`) |
| `FlowGraph` | building, loading, validating and layering a graph |
| `FlowGraph_proofs` | theorems about it |
| `FlowStore` | nodes, flows and links in PostgreSQL, the handlers that write them, the loader of flows |
| `FlowStore_proofs` | theorems about it |
| `KnowledgeStore` | entities, documents, vectors and audit log in PostgreSQL, the handlers that create, search and delete |
| `KnowledgeStore_proofs` | theorems about it |
| `ContractValidator` | the check of inputs and outputs with the shared compiler |
| `SandboxExecutor` | the execution of a script in a container, request by request |
| `NodeExecution` | one node from input to output, composed of the two above; test runs of scripts |
| `NodeExecution_proofs` | theorems about them |
| `SemanticRouter` | registry, stored vectors, cache of embeddings, the choice of a flow |
| `Chat` | chat over HTTP and WebSockets with the event bus, on top of `SemanticRouter` |
| `Chat_proofs` | theorems about both |
| `MCFlowScheduler`, `MCFlowOrchestrator`, `MCFlowGraph`, `MCFlowStore`, `MCKnowledgeStore`, `MCNodeExecution`, `MCChat` | small instances for TLC |

The components meet as follows. A schedule that is due is handed to the callback of
`main.go`, which loads the flow and calls the orchestrator: `FlowScheduler` models the call
by its possible results. Handlers load a flow before they execute or resume it:
`FlowStore` models the load up to the graph that the orchestrator gets, `FlowGraph` what
`Validate` makes of that graph, and `FlowOrchestrator` runs a graph that is given, a
sequence of edges that it reads with `FlowEdges`; `Valid` in `FlowStore` is the condition that
`ValidateAcceptsExactly` in `FlowGraph_proofs` shows `Validate` to decide. What
`FlowOrchestrator` takes for one step of a goroutine, a script that succeeds or fails,
`NodeExecution` spells out: it extends `ContractValidator` and `SandboxExecutor`, which
have actions but no `Next` of their own. `Chat` extends `SemanticRouter` in the same way,
and takes the execution of the chosen flow for one step, which `RequestsEnd` of
`FlowOrchestrator` shows to end.

### FlowScheduler

A step is one round trip to Redis, so that ticker, goroutines and requests interleave as
they may in the program. `record`, `allSet` and `index` are the three places a schedule
lives in. `reading` are the ids of a tick's snapshot of the index whose records are
still to be read (`DueSchedules`), `picked` those found `PENDING` (`TickGet`); `jobs`
are the goroutines of `runDue` (`JobMark`, `JobUnindex`, `JobExecute`, `JobReturn`,
`JobFinish`); `requests` are calls of `Cancel` (`CancelGet`, `CancelSet`,
`CancelUnindex`). `SetSchedule` is a pipeline: when it reports an error, any prefix of
its commands may have been carried out (`Outcomes`). An error of a `JobMark` ends the
goroutine, errors of removals are ignored, as in the code. `ClockTick` lets records
expire `TTL` after their last write, but while the process is up not before the ticks in the
last unit of time have found a schedule that is due and pending: a unit is more than the
ten seconds between two ticks (`scheduler.go:74`), and a record lives seven days
(`state.go:31`). `Crash` empties the process; shutdown does the
same, because `main` returns as soon as the listener is closed (`main.go:231`).

Abstracted: the input of a schedule, the name of the run, and the order in which a tick
reads its snapshot. `Results` are what the callback returns: a finished run, a run that
waits for a human (an error to `main.go:150`), another error; a run that failed is a
result without an error, hence `DONE` (`NilErr`).

### FlowOrchestrator

A request (`ExecuteFlow` or `SubmitFeedback`) owns a tree of goroutines, named by the
path of forks that leads to them, each step of a path being the edge that the branch
follows: `GetNextNodes` yields the set of edges to follow, as indices of `Edges`. A
goroutine enters a node, runs its script, resolves the next nodes one candidate at a time under `mu`, and goes on, forks or ends
(`EnterNode`, `ScriptFails`, `ScriptReturns`, `Resolve`, `Follow`, `Join`,
`ReturnFromBranch`, `ReturnFromRoot`). A pause is `PauseHITL` then `PauseRun`; the
request then ends with `Persist`, `ResumeDelete`, `Cleanup` as its kind asks. A write
into a map that another request has deleted (`Resolve` with the run not in `live`)
panics with the mutex locked: in the goroutine of a request the recovery middleware
catches the panic and the deferred clean-up waits for the mutex for ever (`stuck`); in
any other goroutine the process dies (`ProcessDies`).

Nodes may be deleted while a run is paused (`Deletable`). A resume loads the flow again
and does not validate it, so that it runs a graph in which nodes are `missing` while the
edges to them are still there; a goroutine that reaches one fails.

Abstracted: what a script returns, to the set of conditional edges it satisfies; events,
logs and the merging of outputs; the two writes of a node's state on a bad input
(`RUNNING`, then `FAILED`) are one step, as are the snapshot, the encoding and the write of a
HITL record (`PauseHITL`). Run records do not expire here.

`budget` counts injected failures; `traversals`, `makes`, `forked` and `answered` are
history, for the properties only. `Resumable` says what a pause must leave behind: a HITL
record, of a node that waits according to the record and to Redis. Where two branches of a
run met at one node (`Met`, from `traversals` and `forked`) they write one record of that
node in turn, and nothing is promised of its status.

### FlowRunLifecycle

`none` to `RUNNING`, then `WAITING_FEEDBACK`, then a final status that is never left, and
no run stays `RUNNING`. The refinement mapping is `status <- flowRun`.

### FlowGraph

Each round of the loops of `Validate` and `TopologicalLayers` is a step; methods that
take the write lock wait for the end, `SetEntryNode`, which takes only the read lock,
does not. `Load` is `loadFlowGraph`: any nodes, edges and entry, unchecked. The queue of
the search and the walk over Go's maps are sets: any order is explored. The layer's keys
leave the map and the degrees of their targets sink in one step; the code does both key
by key, and `KeysStayDeleted`, which is proved, is the reason why it makes no
difference. Edges are a map
from identities to contents, because the code compares pointers: two equal edges are two
edges. Of these methods the program itself calls `AddNode` (`main.go:146`,
`handler.go:654`), `Validate` and what the orchestrator needs; `RemoveNode`, `AddEdge`,
`RemoveEdge`, `SetEntryNode` and `TopologicalLayers` are exported and have no caller, so
that `BuiltIntact`, `LayersRespectEdges` and `CyclicIsExact` are about the package's
interface and not about what the server does.

### FlowStore

A step is one SQL statement; a statement sees what was committed before it (READ
COMMITTED, PostgreSQL's default). `node`, `flow` and `links` are the three tables. An
`UpdateNode` is a `SELECT` (`UpdateGet`) and an upsert of the whole row (`UpdateSave`). A
`CreateFlow` is one transaction (`FlowBegin`, a `FlowLink` per node, `FlowCommit` or
`FlowRollback`); what it links is locked against deletion by the check of the foreign key
(`Locked`). A load reads the flow, the ids of its nodes, and then each node (`LoadFlow`,
`LoadLinks`, `LoadNode`), with no transaction around it; it ends in `Execute`, which
validates (`LoadExecute`), or in `Resume`, which does not (`LoadResume`). Failing
queries and clients that leave are `UpdateFails`, `FlowRollback` and `LoadBreaks`.

Abstracted: an update sets one column (the code sets those that the request names), a
node has as many columns as `Fields` has members, and of names, contracts and configuration
nothing is kept. Answers to clients are not modelled, and a load that was turned down keeps
only the reason. Edges that cannot be parsed are dropped, as in `handler.go:657-660`.

`fresh`, `linked`, `there`, `kept`, `born`, `gone` and `dropped` are history.

### KnowledgeStore

A step is one SQL statement or one call of the embedding service, and each may fail.
`refs`, `docs`, `vectors` and `audit` are the tables. A creation collects its rows in
`wrote`, and `Publish` makes them visible at once; the embedding service is called while
the transaction is open, and an entity that cannot be embedded is created without a
vector (`CreateEmbed`). The commit may be carried out though its answer is lost
(`CreateCommitUnknown`), and what follows it (`CreateReadRef`, `CreateReadDoc`) may fail
though the entity exists. A deletion is `DeleteGet`, `DeleteAudit`, `DeleteVectors`,
`DeleteRef`: the errors of the second and third are ignored, that of the last leaves behind
what the first ones did. A search is one query of the vectors, then two queries per result
(`SearchReadRef`, `SearchReadDoc`); a result that cannot be read is skipped without an
error. `Crash` ends everything that is under way.

Abstracted: which vectors are nearest (any of the right number), payloads, metadata and
timestamps. The audit log is a set of pairs. `reply`, `born`, `plain`, `begun`,
`unaudited`, `hits` and `unread` are history.

### ContractValidator

The compiler is a library: a map of documents (`documents`) and a map of compiled schemas
(`compiled`), both keyed by node and direction. A call of `validate` adds the schema,
which is refused if the name is taken, in two steps because other goroutines may come
between look-up and store (`Add`, `Store`), then compiles and checks (`Compile`). What is
compiled is kept, whatever schema a later call brings. Schemas that cannot be compiled,
and pairs of a schema and a value that meets it, are given. A write to a Go map that
races with another access may end the process: that is `Crash` of `NodeExecution`.
The library is not part of the repository. After a document that did not compile was met in
a race it may refuse calls to which the model gives the verdict on their own schema; the
properties allow it to refuse whatever raced. `fresh` and `rivals` are history: which calls were alone with their contract from the
start of the process, and with which schemas others raced.

### SandboxExecutor

A step is one request to Docker: `Create`, `Prepare` (copy and attach), `StartContainer`,
`WaitReturns`, `Read`, and `RemoveContainer`, which is deferred once there is a container.
Each may fail, because Docker fails or because the context is done. A request that failed
may have been carried out. The script is an actor of its own
(`EmitLine`, `ScriptEnds`): it prints until its buffer is full, and ends when and how it
likes. `Timeout` stands for the sandbox's own timeout, for the end of the context and for
a failed wait alike; it may win over a script that has just ended. `Read` takes any part
of the output, because a stream may break, cuts it at the limit and parses it
(`ParseOutput`: the last of the result lines before a line too long for the scanner, and the
nil map if there is none).

Abstracted: the security check, to a refusal that may always happen; log and error lines;
limits other than time and output. `torn` and `abandoned` are history: streams that broke,
and containers of whose creation or removal Docker said that it failed.

### NodeExecution

`EnterNode` begins the check of the input, `InputChecked` calls the sandbox,
`SandboxReturned` begins the check of the output, `OutputChecked` settles the node.
`RunTest` is the route that runs a script without a node. Other executions in the process
matter by their validations only (`OtherValidates`). The version of a node, a pair of
contracts, is that of the flow as it was loaded, so that versions may be in use side by
side. A crash empties the compiler and leaves containers.

### SemanticRouter

`registry` is the map in memory, by the description each flow was registered with;
`vectors` what the database holds, any descriptions of earlier processes included;
`cache` the text whose embedding is under each key, initially anything an earlier process
may have left. A call of `Route` is `LookUp`, `Embed`, `CacheEmbedding`, `Search`,
`Choose`, one round trip each. An embedding is named by its text, and similarity is a
table of numbers. The search is exact. `RegisterFlow` is one step with the outcomes a
failure between its parts can leave. `seen` is history.

### Chat

A connection has the goroutine that reads messages (`Receive`, `Close`, `HandlerReturns`),
one that takes events from Redis into the buffer (`Subscribe`, `Take`, `StopSubscriber`)
and one that forwards them (`Forward`, `WriteEvent`, `ForwarderEnds`). A message has a
goroutine: `SendStatus` or `Post`, the steps of the router, `RouteReturned`, `Executed`,
`Save` or `SendReply`. All write whole frames into one connection (`Write`); writes to a
closed one are lost without notice. The record of a conversation is written whole, and its
error is ignored. Events are numbers in the order of publication.

Abstracted: what an event or reply says, and whose run an event is about, since every
connection gets the events of all. An event that cannot be decoded (`events.go:59-62`) does
not occur, because `Publish` alone writes the channel and encodes what it is given; the
subscriber's end at a closed channel (`events.go:55-57`) does not either, because only the
subscriber itself closes it. Redis is taken to deliver: a reconnect may lose events, without
a drop being logged. No property is about `conversations`: the record of a session is that
of the message saved last, and a reader gets it in one query. `sent`, `since` and `missed` are history.

## 3. Runs

| run | shows | bounds |
|---|---|---|
| `scheduler` | pending schedules stay in the index, nothing is started twice, early cancellations are final, no stale copy restores `PENDING`; due schedules are picked or settle otherwise; where nothing fails each gets a final status and keeps it until its record expires, whichever of goroutine and cancellation writes last, unless it is due later than its record lives, and a `RUNNING` one has a goroutine | 1 schedule, 2 goroutines, 2 cancel requests, due times 1..3, records live 2, 1 failed round trip, 1 crash |
| `scheduler_cancel_race` (violation) | a confirmed cancellation is overwritten by a goroutine | 1 schedule |
| `orchestrator_lifecycle` | the life cycle is implemented | 2 runs of a loop with a pause, a failing script and a bad input, 2 requests, a node deleted while a run waits |
| `orchestrator_forks` | every request is answered, runs are completely paused or settled, failures reach the run, the first one stops all below its fork | fork in a fork, branches that meet at a node; two nodes may pause, one fails, one loses its node; 2 services of the run, 1 crash, 1 disconnect |
| `orchestrator_overlap` | edges are followed at most `max_cycles` times per map of counters | 2 requests of one run at once, branches that meet at a node, 1 lost write |
| `feedback_twice` (violation) | overlapping feedback leaves the mutex locked | 2 requests |
| `two_branches_pause` (violation) | one pause replaces another, which is never answered | a fork, 2 pausing nodes |
| `flow_graph` | validation and layers are exact, building keeps graphs intact | 3 nodes; built graphs with up to 3 edges; stored graphs with up to 3 of all edges, dangling ones included |
| `flow_store` | creation is all or nothing under deletions, loads for execution amount to snapshots and are turned down for a reason, only stale updates clobber | 2 nodes of 2 columns with 2 values, 1 flow (a chain with edges that can or cannot be parsed), 2 updates, 1 creation, 1 load |
| `knowledge_store` | creation is atomic, deletions are logged, searches and answers tell the truth | 2 entities, 1 creation, 2 deletions, 1 search of at most 2 results, failures of every statement, crashes |
| `node_execution` | verdicts are sound, no container outlives its call, success is earned, every execution ends | 1 execution or test run, 1 more validation at a time, a node in 3 versions (without contracts, sound ones, one that does not compile), 2 inputs, a buffer of 3 lines, output cut at 2, failures of every request to Docker, a crash |
| `chat` | messages go to the best flow, clients see frames in order, types and buffer hold, closed connections end | 2 flows, 2 texts under one cache key, 1 message, 1 connection, 1 session, a buffer of 1, 2 events, failures of every round trip, crashes |

The bounds are the least at which every case occurs: two goroutines for two ticks that
find one schedule, a life of records that ends before and after the due time, a failed
round trip at each place a pipeline can be cut, a fork below a fork for a cancellation
that must travel two levels, a loop whose limit is reached, a triangle for cycles with and
without a feedback edge, two updates of one row and two columns for a lost one, two
deletions of one entity, an output of which the last line is cut off and the one before is
a result, a validation that races with another of the same node. Schedules share nothing
but the goroutines' time, so that one is enough. One message is enough in `chat` because
messages meet in the registry, the vectors and the cache only: registrations go on at any
time, and the cache begins with anything that messages before it may have left; a flow keeps one description in
the run (that one replaced meanwhile is told apart is proved, `RoutedToNearest`); two
events and a buffer of one for an event that is dropped between the one in the buffer and
the one on its way. No property counts higher than two actors on one record. The
scheduler, the stores, the graph, the router and chat are proved for instances of every
size, as are the orchestrator and the execution of nodes; there the runs are the evidence
that the theorems speak of states that occur.

**Fairness.** Scheduler: the ticker fires every ten seconds and each goroutine, handler
and round trip it starts returns (clients have timeouts), time passes, and a dead process
is restarted (`docker-compose.yml:32`). Nobody has to create or cancel schedules.
Orchestrator: steps of requests and goroutines go on once enabled; scripts end because
each has a timeout (`orchestrator.go:256-266`). Clients need not send anything, scripts
need not succeed, nothing has to fail. Execution of a node: the goroutine goes on, Docker
answers each request or reports an error, and the timeout of the sandbox passes
(`executor.go:171`); a script need not print, read or end. Chat: the goroutine of a message
goes on unless it writes to an open connection, whose client need not read; the handler
returns once reading has failed (`handler.go:169-171`), the subscriber sees that its context
is done (`events.go`), and the forwarder takes events and writes them once the connection
is closed. Clients need not close connections.

**Preconditions.** The clock of the scheduler waits for ticks in the last unit of a record's
life (see `FlowScheduler`); a process that is up and fails to read Redis for days is left out. `TickOverlap = FALSE` says that the marks of a tick's goroutines are
written before the next tick reads: with slower marks the code does start a schedule
twice. `Overlap = FALSE` says that a client waits for an answer before it sends more
feedback for that run; `RequestsEnd` needs it, and `feedback_twice` shows what happens
otherwise.

**Deadlock** is not checked: requests are finitely many, bounded counters run out, and
the systems may rest when nobody asks for anything. In `knowledge_store`, where requests
come back, it is checked.

Where the code and its words differ, and no run states it:

- A resume makes new counters (`orchestrator.go:465`), though `graph.go:36-37` limits
  traversals "in a single flow run".
- A run that failed while a sibling branch paused keeps its HITL record and accepts
  feedback that `handler.go:587` means to refuse.
- An edge stored without `max_cycles` has a limit of zero (`handler.go:658`), though
  `graph.go:37` names a default of three.
- `max_retries` has no effect: `CanRetry` asks for the status `FAILED` (`node.go:116`),
  and the instance is `RUNNING` when it is asked (`orchestrator.go:273`); the repository's
  README says that the orchestrator
  "enforces timeouts and retries" (`README.md:334`).
- A schedule due more than seven days ahead is accepted and expires before it is due
  (`state.go:31`, `state.go:209`); the repository's README offers to "Schedule flow
  executions for a future timestamp" (`README.md:13`)
  without a limit. `AcceptedIsSettled` therefore speaks of schedules that are due before
  their records expire.
- An update of a node writes back all columns as it read them (`handler.go:176-222`), so
  that it may undo another update or bring back a deleted node, without its links.
- `DeleteEntity` runs its statements one by one (`unified.go`), though the type is there
  for "ensuring consistency via transactions" (`unified.go:28-29`): cut off after the
  second one, it leaves an entity that no search finds and the log of a deletion
  that did not happen.
- `CreateEntity` reads the entity back after the commit and reports a failure of that
  read, though the entity has been created.
- `RegisterFlow` (`router.go:124`) and `UnregisterFlow` have no caller in the program, so
  that `Route` finds no flow and every chat message is answered that it could not be
  understood, though `README.md:125` says "routed to best flow". The model calls
  them at any time.
- The second validation of a contract in one process is refused, because the compiler
  already has a document of that name (`contracts.go:51`): a node with a schema works once
  per process. `VerdictsAreSound` therefore says that what is accepted deserved it, and
  promises the right verdict to the first call only.
- The sandbox waits for as long as its own limits say, 30 seconds by default
  (`executor.go:171`, `limits.go:33`), whatever longer time the node was given
  (`README.md:292` shows `"timeout_sec": 120`).
- A script that exits with zero and prints no result line succeeds with no output
  (`protocol.go`); so does one whose result is longer than the output limit or than a line
  the scanner takes, and one that prints several results succeeds with the last that was
  read.
- A request to create a container that Docker carries out but does not answer leaves the
  container, because only a known id is removed.
- The middleware's `responseWriter` (`middleware.go:91`) hides `http.Hijacker` and has no
  `Unwrap`, so that `websocket.Accept` probably refuses every upgrade. The model takes
  an upgrade to succeed.
- Every WebSocket gets the events of all runs, though `handler.go:153` says "for this
  session".
- Messages over a WebSocket do not write the record of the conversation;
  `GetSessionHistory` returns the last message over HTTP only.
- The migrations create an approximate index for vectors (`ivfflat`), `docker/init.sql`
  does not (`init.sql:125`): the model's search, which is exact, is that of the latter.

## 4. Proofs

All theorems hold for every value of the constants that meets the named assumptions:
`SchedulerAssumption`, `GraphAssumption`, `NamesAssumption` (no node or run is called
`"none"`), `BoundsAssumption`, `BodiesAssumption`, `FieldsAssumption`,
`EntitiesAssumption`, `TopKAssumption`, `SchemasAssumption`, `OutputAssumption`,
`ExecutionsAssumption`, `RouterAssumption`, `ChatAssumption`. TLC evaluates each of them in
the runs.

**Scheduler** (`FlowScheduler_proofs`). `Typing`. `AcceptedIsFound`: a pending schedule is
in the index; `NeverPendingAgain`: no late writer restores `PENDING`; `EarlyCancelIsFinal`:
a cancellation confirmed before any tick had read the record stays. Their invariant is
`Known` (whatever names a schedule names one that was created) and `Marked` (a goroutine
past its mark, a cancel request past its write and a past execution each show that the
schedule has left `PENDING`); `PendingIsIndexed` is inductive with it, and `EarlyCancelIsFinal` adds
`Unclaimed`: nobody holds a schedule cancelled that early. `ExecutedAtMostOnce`
needs `Exclusive` (of the ticks' picks and the goroutines, one at most holds a schedule)
and assumes `TickOverlap = FALSE`. `RunningIsAttended` is inductive with the types: where
nothing failed, only a goroutine that goes on writes `RUNNING`, and the write that ends it
replaces what it wrote.

**Graph** (`FlowGraph_proofs`). `BuiltStaysIntact`: building never
leaves a dangling edge (inductive as it stands). `ValidateAcceptsExactly`: the search
visits only reachable nodes, and at its end they are closed under edges (`SearchInv`), so
`Validate` accepts a graph iff its edges and its entry are nodes of it and every set of
nodes that contains the entry and is closed under edges contains them all. Stated with
closed sets, reachability needs no induction over paths. `LayersAreExact`, `CyclesAreExact`,
`DeletedKeysStayDeleted`: the invariant `LayersInv` says that the degrees count the edges
that come in from nodes not yet placed (`Degrees`), that each node is in one layer at most
(`PlacedOnce`), after its predecessors (`Ordered`) and not later than needed (`Prompt`,
`LastLayerFrees`), and that a set of nodes each of which has a predecessor in the set is
never placed (`KnotsUnplaced`).

**Orchestrator** (`FlowTasks_proofs`, `FlowOrchestrator_proofs`). `CancelledGroupsStop`: below a goroutine
that keeps an error, none starts a node. Its invariant is `ServedInv`: the goroutines of a
request form a tree (`Tree`: every goroutine but the request's own has a parent that waits
at a join, results belong to joins and returns, whatever is below a result is cancelled, and nothing
else is while the client is there), requests are at the stage that their goroutines allow
(`Served`), and Redis holds values of its types. `Typing` adds the counters. For each
action a lemma named after it (`EnterNodeIs`, `FollowIs`, ...) says point by point what it
changes, so that later proofs need not unfold it.

`LoopsAreBounded`: an edge is followed at most as often as its limit allows for each map of
counters; `CountersInv` says that counters are never lower than the history of traversals
since the map was made (`Counted`), however many requests and goroutines share them.
`CountersOutliveTheirRun`, for clients that wait for their answer (`Overlap = FALSE`): two
requests are never in one run (`Alone`), and a request past its first step has its map, so
that the mutex stays free and no goroutine is stuck (`Unlocked`) - what `feedback_twice`
refutes without that assumption. `NothingSwallowed`, from `SuccessInv`: as long as no
pause was answered, a run is served by the request that began it (`OneExecution`), a node
that has begun and not succeeded is being run by a goroutine, or the request holds an error
or a pause that it cannot lose (`Doomed`, `Accounted`).

`PausesCanBeAnswered`, for clients that wait and runs that nothing disturbs from outside. A
run is looked at by itself (`RunOf`), and its request with the goroutines as plain values, so
that most of the argument is about values and not about steps. `InForce` says that a run
nobody serves has concluded (`Concluded`, the three ways of `PausedOrSettled`) and one that
is served is in order (`Orderly`): at the stage that its status allows (`StageOk`), with one
goroutine and one `RUNNING` node at a time unless it forked (`ForksOk`), and with a record
of each pause as soon as it is written (`PauseOk`). The hard part is the pause of a node
that another branch reaches as well. Each visit of a node, under way or still to come, was paid
for by an edge that was followed, so that where two visits come together, or one comes to a
node that has a state already, the run has reentered the node (`VisitOk`, `Reentered`) and
`PausedOrSettled` promises nothing of that node's status. `Doomed` excludes that a new run
succeeds with a pause open. The assumption matters twice: a second request of one run would
be a second tree of goroutines, and would find `hitl` changed after it was read.

`StatusKeepsLifecycle` adds that in such runs, unless they forked, each change of the status
is a step of `FlowRunLifecycle`; `ImplementsLifecycle` makes it the refinement of `Spec` by
`Lifecycle!Spec`, for flows that do not fork and no disturbance: the mapping is
`status <- flowRun`, and every step that leaves `flowRun` alone stutters. A failed run that
forked may be resumed and end in `SUCCESS` (section 3), hence the restriction.

**Flow store** (`FlowStore_proofs`). `Typing`, with the foreign keys. `FlowsAreWhole` from
`LinksInv`: what a transaction has linked is there and locked (`Reserved`,
`ForeignKeys`). `FreshUpdatesAreClean` from `UpdatesInv`: a fresh update holds the row of
the table but for one column. `LoadsAreSnapshots` and `RefusalsHaveReasons` from
`LoadsInv`: what a load knows of the flow, links and rows at each stage (`Begun`,
`Snapshot`, `Missing`, `Reason`).

**Knowledge store** (`KnowledgeStore_proofs`). `Typing`. `CreationIsAtomic`,
`HidingHasReasons`, `LogPrecedesDeletion` and `RepliesHold` from `TablesInv`: which rows
an open transaction has written at each statement, that its entity is not born before the
commit, and what each statement of a deletion has left behind. `SearchesAreSound` from
`SearchesInv`: what a search still has to read, has read and has skipped makes up its
hits; it rests on `GoneStaysGone`, that no step brings a deleted entity back.

**Execution of nodes** (`NodeExecution_proofs`). `VerdictsAlwaysSound`,
`ContainersAreRemoved`, for any number of goroutines and scripts. The invariant `NodeInv`
has three parts. `ValidatorInv`: a call past its look-up finds in the compiler its own
schema or that of a call it raced with (`FindsNear`, which needs that such calls know of
each other, `Overlap`); one that is fresh is alone with its contract and finds its own
(`Alone`); verdicts given are sound (`Sound`). `SandboxInv`: a container is there for a
call that is under way and past `create`, or for one of the reasons the property names
(`Reasons`). `ExecutionsTyped` gives the versions and inputs that validations are started
with. `Types` adds what a script has printed, what was read of it and what was parsed.
`NodesEarnSuccess`: a node succeeds only with what a script that ended well has printed,
and, where no call raced, with an input and an output that meet their contracts.
`EarnedInv` follows the output through the stages of an execution (`Progress`): what `Read` took is a part of what a script that ended with zero
has printed (`Ended`), what `ParseOutput` makes of it is the value of a result line of it
or the nil map (`ParsedValue`), and the verdict given is that on this value (`Kept`,
`Answered`).

**Router and chat** (`Chat_proofs`). `RoutedToNearest` from `RouterInv`: registry, vectors
and cache hold descriptions and texts with their hashes (`StoresInv`), and a call holds at
each stage an embedding of a text with its hash (`Embedded`) and the nearest of what
it has seen (`Chosen`). `Typing` from `Progressing`, which adds that a message is as far as
its call of `Route` allows (`Progressed`). `ClientsSeeOrder` has two halves. `Pipeline`:
frames, the event being written, the buffer and what Redis has sent are one sequence of
growing numbers, nothing is in it that was not published, and nothing published is missing
but what a full buffer dropped. `Spoken`: a message has frames on its own connection only,
a status before its reply, each once, and the reply names its flow, which does not change
once the message is answered (`FlowStays`).

**Only model-checked.** Liveness: `DueIsPicked`, `AcceptedIsSettled`, `RequestsEnd`,
`ExecutionsEnd`, `ChatEnds`, and of the refinement `RunLifecycle` the promise that a run
does not stay `RUNNING` (TLAPS does not reason about fairness here; the safety half is
`ImplementsLifecycle`). Every invariant and every other action property that a run checks is
stated by a theorem. Beyond the prover's reach are liveness and `ENABLED`, induction over
data (hence reachability by closed sets, above), and recursive operators, of which the
modules have none. `KeysStayDeleted` is proved only: it follows from the exactness of the layers, which
`flow_graph` checks.

## 5. Not modelled

| part | why |
|---|---|
| MCP server, middleware, responses, identifiers | translate requests and answers, keep no state |
| `ToolRegistry`, `Builder` | a map under a lock that no script can reach; a one-shot generator of text |
| ADI handlers that only read: lists, health, lookups | single queries without a state change that another step relies on |
| configuration, migrations | read once at the start |
| `ValidateSchema`, `EnsureImage`, `Publish` and `Subscribe` of the state bus, the repositories' other methods | have no caller |
| expiry of run records, HITL records and conversations | not modelled; a pause that outlives its run record is the case that would matter |

## 6. Plan

Written, in this order: scheduler, orchestrator with its life cycle, graph, flow store,
knowledge store, execution of nodes with validator and sandbox, router and chat with the
event bus; each with its runs and then its proofs. What is left:

1. A proof for overlapping feedback and failures: what of `PausedOrSettled` is left when a
   write is lost or the process dies, stated and checked before it is proved.
2. Expiry of run and HITL records in `FlowOrchestrator`: a pause that outlives its run,
   feedback after the run record is gone.
3. Composition: scheduler, store and orchestrator, with `FlowScheduler`'s results
   replaced by the orchestrator's, and edges that were changed during a pause.
