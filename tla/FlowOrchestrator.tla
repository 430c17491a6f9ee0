-------------------------- MODULE FlowOrchestrator --------------------------
(***************************************************************************)
(* The orchestrator (internal/core/orchestrator.go) with the part of the   *)
(* state bus it writes (internal/core/state.go) and the HTTP handlers that *)
(* call it (internal/adi/handler.go: ExecuteFlow, SubmitFeedback).         *)
(*                                                                         *)
(* A request executes a new run of the flow or resumes a paused one.  It   *)
(* walks the graph: a node's script runs in the sandbox, its output tells  *)
(* which edges to follow; several edges fork one goroutine each, and the   *)
(* first of them to fail cancels the context of its siblings.  A script    *)
(* may pause the run to wait for a human: a record with all that is needed *)
(* to go on is left in Redis, and a later request resumes from it.         *)
(*                                                                         *)
(* Each round trip to Redis, each critical section of fo.mu and each       *)
(* script is a step of its own.  Goroutines are named by the request and   *)
(* the path of forks that leads to them, each step of the path being the   *)
(* edge that the branch follows; << >> is the goroutine of the request.    *)
(***************************************************************************)
EXTENDS FlowEdges, FiniteSets, SequencesExt

CONSTANTS
    Nodes,          \* the nodes of the flow
    Edges,          \* its edges, a sequence
    Entry,          \* its entry node
    MaxRetries,     \* max_retries of each node
    Awaits,         \* nodes whose script may ask for human feedback
    Fails,          \* pairs of a node and a step of it that may fail
    Deletable,      \* nodes that may be deleted while a run is paused
    Runs,           \* ids of runs
    Requests,       \* HTTP requests served at the same time
    MaxDepth,       \* bound: nesting of forks
    MaxServed,      \* bound: requests that execute or resume one run
    MaxFaults,      \* bound: lost writes to Redis
    MaxCrashes,     \* bound: times the process dies
    MaxDisconnects, \* bound: clients that go away before the answer
    Overlap         \* may feedback be submitted while a request of the run is
                    \* still being served?  FALSE: clients wait for the answer

Steps == {"input", "script", "output"}

ASSUME GraphAssumption ==
    /\ Edges \in Seq(EdgeSet(Nodes, Int))
    /\ Entry \in Nodes
    /\ MaxRetries \in [Nodes -> Nat]
    /\ Awaits \subseteq Nodes
    /\ Fails \subseteq Nodes \X Steps
    /\ Deletable \subseteq Nodes
ASSUME NamesAssumption == "none" \notin Nodes \union Runs
ASSUME BoundsAssumption ==
    /\ {MaxDepth, MaxServed, MaxFaults, MaxCrashes, MaxDisconnects} \subseteq Nat
    /\ Overlap \in BOOLEAN

VARIABLES
    \* Redis
    flowRun,       \* status in the record of each run
    hitl,          \* the record of a run that waits for a human
    nodeState,     \* status in the record of each node of each run
    \* the orchestrator
    live,          \* runs that have a map of cycle counters
    cycleCounters, \* the counters; zero where there is no map, as Go reads it
    mu,            \* the mutex of the counters
    \* the requests under way
    requests,
    nodeRuns,      \* runState.nodeRuns of each request
    tasks,         \* goroutines of each request
    \* budgets and history
    budget,
    traversals,    \* how often each run has followed each pair of nodes
    makes,         \* how often a map of counters was made for each run
    forked,        \* runs of which several branches ran side by side
    answered       \* nodes of each run whose pause was answered by feedback

redis   == <<flowRun, hitl, nodeState>>
memory  == <<live, cycleCounters, mu>>
serving == <<requests, nodeRuns, tasks>>
history == <<traversals, makes, forked, answered>>
vars    == <<redis, memory, serving, budget, history>>

----------------------------------------------------------------------------
(* Types *)

Pairs == Nodes \X Nodes
Paths == UNION {[1 .. k -> DOMAIN Edges] : k \in 0 .. MaxDepth}
Root  == << >>

RunStatuses  == {"none", "RUNNING", "WAITING_FEEDBACK", "SUCCESS", "FAILED"}
Outcomes     == {"none", "ok", "failed", "await"}

\* A node instance: the goroutine that made it, its status, its attempts.
Restored  == <<0>>
Instances == [by       : Paths \union {Restored},
              status   : RunStatuses,
              attempts : 0 .. 1]
NoInstance == [by |-> Restored, status |-> "none", attempts |-> 0]

\* HITLState: where the run waits, and the node instances at that time.
HITLStates == [node : Nodes, runs : [Nodes -> Instances]]
NoHITL     == [node |-> "none", runs |-> [n \in Nodes |-> NoInstance]]

TaskPCs == {"enter", "sandbox", "pauseHITL", "pauseRun", "resolve", "join",
            "return", "stuck"}
TaskSet == [node      : Nodes,
            pc        : TaskPCs,
            todo      : SUBSET DOMAIN Edges,   \* edges not yet looked at
            next      : SUBSET DOMAIN Edges,   \* edges to follow
            result    : Outcomes,
            cancelled : BOOLEAN]
NoTask  == [node |-> "none", pc |-> "none", todo |-> {}, next |-> {},
            result |-> "none", cancelled |-> FALSE]

RequestSet == [kind   : {"execute", "resume"},
               run    : Runs,
               pc     : {"counters", "running", "persist", "delete", "cleanup"},
               result : Outcomes,
               gone   : BOOLEAN,
               missing : SUBSET Nodes,   \* nodes its copy of the graph lacks
               hitl   : HITLStates \union {NoHITL}]
NoRequest == [kind |-> "none", run |-> "none", pc |-> "none", result |-> "none",
              gone |-> FALSE, missing |-> {}, hitl |-> NoHITL]

Active(r)     == requests[r] # NoRequest
Idle(run)     == \A r \in Requests : requests[r].run # run
Run(r)        == requests[r].run
NoCounts      == [e \in Pairs |-> 0]
NoTasks       == [p \in Paths |-> NoTask]
NoInstances   == [n \in Nodes |-> NoInstance]
Child(p, i)   == Append(p, i)
Children(r, p) == {q \in Paths : q # Root /\ Front(q) = p /\ tasks[r][q] # NoTask}

----------------------------------------------------------------------------
Init ==
    /\ flowRun = [run \in Runs |-> "none"]
    /\ hitl = [run \in Runs |-> NoHITL]
    /\ nodeState = [run \in Runs |-> [n \in Nodes |-> "none"]]
    /\ live = {}
    /\ cycleCounters = [run \in Runs |-> NoCounts]
    /\ mu = "free"
    /\ requests = [r \in Requests |-> NoRequest]
    /\ nodeRuns = [r \in Requests |-> NoInstances]
    /\ tasks = [r \in Requests |-> NoTasks]
    /\ budget = [faults |-> 0, crashes |-> 0, disconnects |-> 0]
    /\ traversals = [run \in Runs |-> NoCounts]
    /\ makes = [run \in Runs |-> 0]
    /\ forked = {}
    /\ answered = [run \in Runs |-> {}]

----------------------------------------------------------------------------
(* Shared steps *)

\* A write to Redis whose error is ignored.  It is lost if the context of the
\* writer is done; otherwise losing it costs a fault.
Write(done, lost) ==
    /\ done => lost
    /\ lost /\ ~done => budget.faults < MaxFaults
    /\ budget' = IF lost /\ ~done THEN [budget EXCEPT !.faults = @ + 1] ELSE budget

\* The status of goroutine p's instance of a node, and StateBus.SetNodeState.
\* The instance may have been replaced in the map by another goroutine's.
SetInstance(r, p, node, status, lost) ==
    /\ nodeRuns' = [nodeRuns EXCEPT ![r][node] =
                        IF @.by = p THEN [@ EXCEPT !.status = status] ELSE @]
    /\ nodeState' = IF lost THEN nodeState
                    ELSE [nodeState EXCEPT ![Run(r)][node] = status]

\* Mutant: a resume goes on with the counters that Execute has deleted.
MakeCountersOnce(run) ==
    /\ mu = "free"
    /\ live' = IF makes[run] = 0 THEN live \union {run} ELSE live
    /\ cycleCounters' = [cycleCounters EXCEPT ![run] = NoCounts]
    /\ makes' = [makes EXCEPT ![run] = @ + 1]
    /\ UNCHANGED <<mu, traversals, forked>>

\* A new map of counters for a run, made under the mutex.
MakeCounters(run) ==
    /\ mu = "free"
    /\ live' = live \union {run}
    /\ cycleCounters' = [cycleCounters EXCEPT ![run] = NoCounts]
    /\ makes' = [makes EXCEPT ![run] = @ + 1]
    /\ UNCHANGED <<mu, traversals, forked>>

\* A goroutine about to enter a node.
TaskAt(node, cancelled) ==
    [NoTask EXCEPT !.node = node, !.pc = "enter", !.cancelled = cancelled]

\* A goroutine returns to its caller with a result.
Returning(task, result) == [task EXCEPT !.pc = "return", !.result = result]

\* The process dies: requests, goroutines, counters and the mutex are gone.
ProcessDies ==
    /\ live' = {}
    /\ cycleCounters' = [run \in Runs |-> NoCounts]
    /\ mu' = "free"
    /\ requests' = [r \in Requests |-> NoRequest]
    /\ nodeRuns' = [r \in Requests |-> NoInstances]
    /\ tasks' = [r \in Requests |-> NoTasks]
    /\ UNCHANGED <<redis, history>>

----------------------------------------------------------------------------
(* Execute *)

\* A new run: its record is written first; an error ends the request, and the
\* record is there or not (not there: nothing has happened).
ExecuteBegin(r, run) ==
    /\ requests[r] = NoRequest
    /\ flowRun[run] = "none" /\ makes[run] = 0 /\ Idle(run)
    /\ flowRun' = [flowRun EXCEPT ![run] = "RUNNING"]
    /\ \E err \in BOOLEAN :   \* the write was carried out, but reports an error
          /\ Write(FALSE, err)
          /\ requests' = IF err THEN requests ELSE [requests EXCEPT ![r] =
                [NoRequest EXCEPT !.kind = "execute", !.run = run, !.pc = "counters"]]
    /\ UNCHANGED <<hitl, nodeState, memory, nodeRuns, tasks, history>>

\* Then its counters, and the entry node on the request's own goroutine.
ExecuteCounters(r) ==
    /\ requests[r].kind = "execute" /\ requests[r].pc = "counters"
    /\ MakeCounters(Run(r))
    /\ requests' = [requests EXCEPT ![r].pc = "running"]
    /\ tasks' = [tasks EXCEPT ![r][Root] = TaskAt(Entry, requests[r].gone)]
    /\ UNCHANGED <<redis, nodeRuns, budget, answered>>

\* Mutant: the result is stored as it is.
PersistResult(r) ==
    /\ requests[r].pc = "persist"
    /\ flowRun' = [flowRun EXCEPT ![Run(r)] = requests[r].result]
    /\ requests' = [requests EXCEPT ![r].pc = "cleanup"]
    /\ UNCHANGED <<hitl, nodeState, memory, nodeRuns, tasks, budget, history>>

\* The end of Execute and of Resume: the final status, unless the run waits.
Persist(r) ==
    /\ requests[r].pc = "persist"
    /\ \E lost \in BOOLEAN :
          /\ Write(requests[r].gone, lost)
          /\ flowRun' = IF lost THEN flowRun
                        ELSE [flowRun EXCEPT ![Run(r)] =
                                 IF requests[r].result = "ok" THEN "SUCCESS" ELSE "FAILED"]
    /\ requests' = [requests EXCEPT ![r].pc =
                        IF requests[r].kind = "resume" THEN "delete" ELSE "cleanup"]
    /\ UNCHANGED <<hitl, nodeState, memory, nodeRuns, tasks, history>>

\* The deferred deletion of the counters; then the answer is sent.
Cleanup(r) ==
    /\ requests[r].pc = "cleanup"
    /\ mu = "free"
    /\ live' = live \ {Run(r)}
    /\ cycleCounters' = [cycleCounters EXCEPT ![Run(r)] = NoCounts]
    /\ requests' = [requests EXCEPT ![r] = NoRequest]
    /\ nodeRuns' = [nodeRuns EXCEPT ![r] = NoInstances]
    /\ UNCHANGED <<redis, mu, tasks, budget, history>>

----------------------------------------------------------------------------
(* SubmitFeedback and Resume *)

\* The handler reads the HITL record, and nothing else, to decide whether the
\* run waits for feedback.
SubmitFeedback(r, run) ==
    /\ requests[r] = NoRequest
    /\ Overlap \/ Idle(run)
    /\ makes[run] < MaxServed
    /\ hitl[run] # NoHITL
    /\ requests' = [requests EXCEPT ![r] =
           [NoRequest EXCEPT !.kind = "resume", !.run = run, !.pc = "counters",
                             !.hitl = hitl[run]]]
    /\ UNCHANGED <<redis, memory, nodeRuns, tasks, budget, history>>

\* The flow is loaded from the database next; if that fails, so does the request.
FeedbackAbandoned(r) ==
    /\ requests[r].kind = "resume" /\ requests[r].pc = "counters"
    /\ budget.faults < MaxFaults
    /\ budget' = [budget EXCEPT !.faults = @ + 1]
    /\ requests' = [requests EXCEPT ![r] = NoRequest]
    /\ UNCHANGED <<redis, memory, nodeRuns, tasks, history>>

\* Resume: fresh counters, the node instances of the record, and the edges of
\* the waiting node with the feedback added to its output.  The graph was loaded
\* again, without the nodes deleted meanwhile, but with all edges, unvalidated.
ResumeCounters(r) ==
    LET state == requests[r].hitl IN
    /\ requests[r].kind = "resume" /\ requests[r].pc = "counters"
    /\ MakeCounters(Run(r))
    /\ \E missing \in SUBSET Deletable :
          requests' = [requests EXCEPT ![r].pc = "running", ![r].missing = missing]
    /\ nodeRuns' = [nodeRuns EXCEPT ![r] = state.runs]
    /\ \E holds \in SUBSET ConditionalFrom(Edges, state.node) :
          tasks' = [tasks EXCEPT ![r][Root] =
                       [TaskAt(state.node, requests[r].gone) EXCEPT
                           !.pc = "resolve",
                           !.todo = GetNextNodes(Edges, state.node, holds)]]
    /\ answered' = [answered EXCEPT ![Run(r)] = @ \union {state.node}]
    /\ UNCHANGED <<redis, budget>>

\* Mutant: the HITL record of a resumed run is kept.
ResumeKeepsHITL(r) ==
    /\ requests[r].pc = "delete"
    /\ requests' = [requests EXCEPT ![r].pc = "cleanup"]
    /\ UNCHANGED <<redis, memory, nodeRuns, tasks, budget, history>>

\* After the final status, the HITL record is deleted.
ResumeDelete(r) ==
    /\ requests[r].pc = "delete"
    /\ \E lost \in BOOLEAN :
          /\ Write(requests[r].gone, lost)
          /\ hitl' = IF lost THEN hitl ELSE [hitl EXCEPT ![Run(r)] = NoHITL]
    /\ requests' = [requests EXCEPT ![r].pc = "cleanup"]
    /\ UNCHANGED <<flowRun, nodeState, memory, nodeRuns, tasks, history>>

----------------------------------------------------------------------------
(* executeNode, one goroutine at a time *)

MayFail(node, step) == <<node, step>> \in Fails

\* NodeInstance.CanRetry.
CanRetry(status, attempts, node) == status = "FAILED" /\ attempts < MaxRetries[node]

\* A goroutine whose context is done returns, like one whose node is missing;
\* otherwise it makes a new instance of the node, RUNNING at its first attempt,
\* and checks the input's contract.
EnterNode(r, p) ==
    LET task == tasks[r][p]
        node == task.node
    IN
    /\ task.pc = "enter"
    /\ \/ /\ task.cancelled \/ node \in requests[r].missing
          /\ tasks' = [tasks EXCEPT ![r][p] = Returning(@, "failed")]
          /\ UNCHANGED <<nodeRuns, nodeState, budget>>
       \/ /\ ~task.cancelled /\ node \notin requests[r].missing
          /\ \E lost \in BOOLEAN, status \in {"RUNNING", "FAILED"} :
                /\ status = "FAILED" => MayFail(node, "input")
                /\ Write(FALSE, lost)
                /\ nodeRuns' = [nodeRuns EXCEPT ![r][node] =
                                   [by |-> p, status |-> status, attempts |-> 1]]
                /\ nodeState' = IF lost THEN nodeState
                                ELSE [nodeState EXCEPT ![Run(r)][node] = status]
                /\ tasks' = [tasks EXCEPT ![r][p] =
                                 IF status = "FAILED" THEN Returning(@, "failed")
                                 ELSE [@ EXCEPT !.pc = "sandbox"]]
    /\ UNCHANGED <<flowRun, hitl, memory, requests, history>>

\* The script fails, times out or is cancelled.  The instance is RUNNING at its
\* first attempt when the code asks whether it may be retried.
ScriptFails(r, p) ==
    LET task == tasks[r][p]
        node == task.node
    IN
    /\ task.pc = "sandbox"
    /\ task.cancelled \/ MayFail(node, "script")
    /\ IF CanRetry("RUNNING", 1, node)
       THEN /\ tasks' = [tasks EXCEPT ![r][p].pc = "enter"]
            /\ UNCHANGED <<nodeRuns, nodeState, budget>>
       ELSE /\ \E lost \in BOOLEAN :
                  /\ Write(task.cancelled, lost)
                  /\ SetInstance(r, p, node, "FAILED", lost)
            /\ tasks' = [tasks EXCEPT ![r][p] = Returning(@, "failed")]
    /\ UNCHANGED <<flowRun, hitl, memory, requests, history>>

\* The script returns an output: one that violates its contract fails the node,
\* one that asks for a human pauses the run, any other decides the edges.
ScriptReturns(r, p) ==
    LET task == tasks[r][p]
        node == task.node
    IN
    /\ task.pc = "sandbox"
    /\ \E lost \in BOOLEAN :
          /\ Write(task.cancelled, lost)
          /\ \/ /\ MayFail(node, "output")
                /\ SetInstance(r, p, node, "FAILED", lost)
                /\ tasks' = [tasks EXCEPT ![r][p] = Returning(@, "failed")]
             \/ /\ node \in Awaits
                /\ nodeRuns' = [nodeRuns EXCEPT ![r][node] =
                      [by |-> p, status |-> "WAITING_FEEDBACK", attempts |-> 1]]
                /\ nodeState' = IF lost THEN nodeState
                      ELSE [nodeState EXCEPT ![Run(r)][node] = "WAITING_FEEDBACK"]
                /\ tasks' = [tasks EXCEPT ![r][p].pc = "pauseHITL"]
             \/ /\ SetInstance(r, p, node, "SUCCESS", lost)
                /\ \E holds \in SUBSET ConditionalFrom(Edges, node) :
                      tasks' = [tasks EXCEPT ![r][p].pc = "resolve",
                                             ![r][p].todo = GetNextNodes(Edges, node, holds)]
    /\ UNCHANGED <<flowRun, hitl, memory, requests, history>>

\* The pause: the HITL record with the instances of all nodes so far.
PauseHITL(r, p) ==
    LET task == tasks[r][p] IN
    /\ task.pc = "pauseHITL"
    /\ \E lost \in BOOLEAN :
          /\ Write(task.cancelled, lost)
          /\ hitl' = IF lost THEN hitl ELSE [hitl EXCEPT ![Run(r)] =
                        [node |-> task.node,
                         runs |-> [n \in Nodes |-> [nodeRuns[r][n] EXCEPT !.by = Restored]]]]
    /\ tasks' = [tasks EXCEPT ![r][p].pc = "pauseRun"]
    /\ UNCHANGED <<flowRun, nodeState, memory, requests, nodeRuns, history>>

\* Then the record of the run, in a write of its own.
PauseRun(r, p) ==
    LET task == tasks[r][p] IN
    /\ task.pc = "pauseRun"
    /\ \E lost \in BOOLEAN :
          /\ Write(task.cancelled, lost)
          /\ flowRun' = IF lost THEN flowRun
                        ELSE [flowRun EXCEPT ![Run(r)] = "WAITING_FEEDBACK"]
    /\ tasks' = [tasks EXCEPT ![r][p] = Returning(@, "await")]
    /\ UNCHANGED <<hitl, nodeState, memory, requests, nodeRuns, history>>

----------------------------------------------------------------------------
(* resolveNextNodes, fork and join *)

\* Mutant: the limit is exceeded by one.
PastLimit(count, edge) == count > edge.maxCycles

\* An edge that was followed max_cycles times is skipped.
AtLimit(count, edge) == count >= edge.maxCycles

\* The next candidate, under the mutex: skipped if its edge has reached its limit,
\* else counted and followed.  Where the map of counters is gone the write
\* panics with the mutex locked: the deferred deletion of the request's own
\* goroutine then waits for the mutex for ever; another goroutine has no such
\* deferred call and takes the process down.
Resolve(r, p) ==
    LET task  == tasks[r][p]
        run   == Run(r)
        i     == Min(task.todo)
        pair  == <<task.node, Edges[i].to>>
        full  == AtLimit(cycleCounters[run][pair], GetEdge(Edges, pair[1], pair[2]))
    IN
    /\ task.pc = "resolve" /\ task.todo # {}
    /\ mu = "free"
    /\ UNCHANGED budget
    /\ \/ /\ full
          /\ tasks' = [tasks EXCEPT ![r][p].todo = @ \ {i}]
          /\ UNCHANGED <<redis, memory, requests, nodeRuns, history>>
       \/ /\ ~full
          /\ run \in live
          /\ cycleCounters' = [cycleCounters EXCEPT ![run][pair] = @ + 1]
          /\ traversals' = [traversals EXCEPT ![run][pair] = @ + 1]
          /\ tasks' = [tasks EXCEPT ![r][p].todo = @ \ {i},
                                    ![r][p].next = @ \union {i}]
          /\ UNCHANGED <<redis, live, mu, requests, nodeRuns, makes, forked, answered>>
       \/ /\ ~full
          /\ run \notin live
          /\ \/ /\ p = Root
                /\ mu' = "poisoned"
                /\ tasks' = [tasks EXCEPT ![r][p].pc = "stuck"]
                /\ UNCHANGED <<redis, live, cycleCounters, requests, nodeRuns, history>>
             \/ /\ p # Root
                /\ ProcessDies

\* No edge ends the chain of nodes, one continues it on the same goroutine, and
\* several fork a goroutine each.
Follow(r, p) ==
    LET task == tasks[r][p]
        next == task.next
    IN
    /\ task.pc = "resolve" /\ task.todo = {}
    /\ \/ /\ next = {}
          /\ tasks' = [tasks EXCEPT ![r][p] = Returning(@, "ok")]
          /\ UNCHANGED forked
       \/ /\ \E i \in next :
                /\ next = {i}
                /\ tasks' = [tasks EXCEPT ![r][p] = TaskAt(Edges[i].to, task.cancelled)]
          /\ UNCHANGED forked
       \/ /\ \E i, j \in next : i # j
          /\ Len(p) < MaxDepth
          /\ tasks' = [tasks EXCEPT ![r] = [q \in Paths |->
                          IF q = p THEN [task EXCEPT !.pc = "join", !.next = {}]
                          ELSE IF \E i \in next : q = Child(p, i)
                               THEN TaskAt(Edges[Last(q)].to, task.cancelled)
                               ELSE tasks[r][q]]]
          /\ forked' = forked \union {Run(r)}
    /\ UNCHANGED <<redis, memory, requests, nodeRuns, budget, traversals, makes, answered>>

\* Mutant: the cancellation reaches the branches of the fork, not those below.
CancelsBranches(parent, q) == q # Root /\ Front(q) = parent

\* The contexts that a group's error cancels: all those derived from it.
Cancels(parent, q) == IsStrictPrefix(parent, q)

\* A branch returns: the first error of a group is kept and cancels the context
\* of everything below the goroutine that forked.
ReturnFromBranch(r, p) ==
    LET result == tasks[r][p].result
        parent == Front(p)
        first  == result # "ok" /\ tasks[r][parent].result = "none"
    IN
    /\ p # Root
    /\ tasks[r][p].pc = "return"
    /\ tasks' = [tasks EXCEPT ![r] = [q \in Paths |->
          IF q = p THEN NoTask
          ELSE IF q = parent /\ first THEN [tasks[r][q] EXCEPT !.result = result]
          ELSE IF Cancels(parent, q) /\ first /\ tasks[r][q] # NoTask
               THEN [tasks[r][q] EXCEPT !.cancelled = TRUE]
          ELSE tasks[r][q]]]
    /\ UNCHANGED <<redis, memory, requests, nodeRuns, budget, history>>

\* Mutant: the errors of the branches are not returned.
JoinIgnoresErrors(r, p) ==
    /\ tasks[r][p].pc = "join"
    /\ Children(r, p) = {}
    /\ tasks' = [tasks EXCEPT ![r][p] = Returning(@, "ok")]
    /\ UNCHANGED <<redis, memory, requests, nodeRuns, budget, history>>

\* The fork returns when all its branches have: the first error, or success.
Join(r, p) ==
    LET task == tasks[r][p] IN
    /\ task.pc = "join"
    /\ Children(r, p) = {}
    /\ tasks' = [tasks EXCEPT ![r][p] =
                     Returning(@, IF @.result = "none" THEN "ok" ELSE @.result)]
    /\ UNCHANGED <<redis, memory, requests, nodeRuns, budget, history>>

\* Mutant: a pause is taken for an error.
ReturnPauseAsError(r) ==
    /\ tasks[r][Root].pc = "return"
    /\ tasks' = [tasks EXCEPT ![r][Root] = NoTask]
    /\ requests' = [requests EXCEPT ![r].result = tasks[r][Root].result,
                                    ![r].pc = "persist"]
    /\ UNCHANGED <<redis, memory, nodeRuns, budget, history>>

\* The request's own goroutine is back in Execute or Resume; a run that waits
\* has been written already.
ReturnFromRoot(r) ==
    LET result == tasks[r][Root].result IN
    /\ tasks[r][Root].pc = "return"
    /\ tasks' = [tasks EXCEPT ![r][Root] = NoTask]
    /\ requests' = [requests EXCEPT
          ![r].result = result,
          ![r].pc = IF result = "await" THEN "cleanup" ELSE "persist"]
    /\ UNCHANGED <<redis, memory, nodeRuns, budget, history>>

----------------------------------------------------------------------------
(* The client and the process *)

\* The client goes away before the answer: the request's context is done.
Disconnect(r) ==
    /\ Active(r) /\ ~requests[r].gone
    /\ budget.disconnects < MaxDisconnects
    /\ budget' = [budget EXCEPT !.disconnects = @ + 1]
    /\ requests' = [requests EXCEPT ![r].gone = TRUE]
    /\ tasks' = [tasks EXCEPT ![r] = [p \in Paths |->
                    IF tasks[r][p] = NoTask THEN NoTask
                    ELSE [tasks[r][p] EXCEPT !.cancelled = TRUE]]]
    /\ UNCHANGED <<redis, memory, nodeRuns, history>>

\* The process dies and is started again.
Crash ==
    /\ \E r \in Requests : Active(r)
    /\ budget.crashes < MaxCrashes
    /\ budget' = [budget EXCEPT !.crashes = @ + 1]
    /\ ProcessDies

Task(r, p) ==
    \/ EnterNode(r, p) \/ ScriptFails(r, p) \/ ScriptReturns(r, p)
    \/ PauseHITL(r, p) \/ PauseRun(r, p)
    \/ Resolve(r, p) \/ Follow(r, p)
    \/ ReturnFromBranch(r, p) \/ Join(r, p)

Serve(r) ==
    \/ ExecuteCounters(r) \/ ResumeCounters(r)
    \/ ReturnFromRoot(r) \/ Persist(r) \/ ResumeDelete(r) \/ Cleanup(r)

Next ==
    \/ \E r \in Requests, run \in Runs : ExecuteBegin(r, run) \/ SubmitFeedback(r, run)
    \/ \E r \in Requests : Serve(r) \/ FeedbackAbandoned(r) \/ Disconnect(r)
    \/ \E r \in Requests, p \in Paths : Task(r, p)
    \/ Crash

Spec == Init /\ [][Next]_vars

\* Every request that is being served and every goroutine goes on: scripts end
\* (the sandbox enforces a timeout), Redis answers or reports an error, and the
\* mutex is held for no longer than a step, unless it is poisoned.
Fairness ==
    /\ \A r \in Requests : WF_vars(Serve(r))
    /\ \A r \in Requests, p \in Paths : WF_vars(Task(r, p))

FairSpec == Spec /\ Fairness

----------------------------------------------------------------------------
(* What the orchestrator promises *)

\* Every variable holds values of its type.
TypeOK ==
    /\ flowRun \in [Runs -> RunStatuses]
    /\ hitl \in [Runs -> HITLStates \union {NoHITL}]
    /\ nodeState \in [Runs -> [Nodes -> RunStatuses]]
    /\ live \subseteq Runs
    /\ cycleCounters \in [Runs -> [Pairs -> Nat]]
    /\ mu \in {"free", "poisoned"}
    /\ requests \in [Requests -> RequestSet \union {NoRequest}]
    /\ nodeRuns \in [Requests -> [Nodes -> Instances]]
    /\ tasks \in [Requests -> [Paths -> TaskSet \union {NoTask}]]
    /\ budget \in [faults : Nat, crashes : Nat, disconnects : Nat]
    /\ traversals \in [Runs -> [Pairs -> Nat]]
    /\ makes \in [Runs -> Nat]
    /\ forked \subseteq Runs
    /\ answered \in [Runs -> SUBSET Nodes]

\* The limit of the edge that leads from one node of a pair to the other; a
\* limit below zero lets nothing through, like zero.
Limit(pair) ==
    LET max == GetEdge(Edges, pair[1], pair[2]).maxCycles
    IN  IF max > 0 THEN max ELSE 0

Joined == {pair \in Pairs : \E i \in DOMAIN Edges :
                              Edges[i].from = pair[1] /\ Edges[i].to = pair[2]}

\* No run follows an edge more often than its limit allows for each map of
\* counters it was given: goroutines that count the same edge at once, resumes
\* that overlap and crashes cannot exceed it.  So no loop of the graph is endless.
CycleBudget ==
    \A run \in Runs, pair \in Joined :
        traversals[run][pair] <= makes[run] * Limit(pair)

Undisturbed == budget = [faults |-> 0, crashes |-> 0, disconnects |-> 0]

\* Branches of the run may have met at a node: the run forked, and reached the node
\* more than once, as its entry or along an edge.
Met(run, node) ==
    /\ run \in forked
    /\ \E n \in Nodes :
          /\ traversals[run][<<n, node>>] > 0
          /\ \/ node = Entry
             \/ traversals[run][<<n, node>>] > 1
             \/ \E m \in Nodes \ {n} : traversals[run][<<m, node>>] > 0

\* A paused run can be resumed: its HITL record and Redis agree that the node of the
\* record waits, and no node of the record is RUNNING.  Where branches ran side by
\* side there may be nodes that were cut off, and where two of them met at the node
\* that waits, the later one has the last word on its state.
Resumable(run) ==
    /\ hitl[run] # NoHITL
    /\ \/ /\ hitl[run].runs[hitl[run].node].status = "WAITING_FEEDBACK"
          /\ nodeState[run][hitl[run].node] = "WAITING_FEEDBACK"
       \/ Met(run, hitl[run].node)
    /\ run \in forked \/ \A n \in Nodes : hitl[run].runs[n].status # "RUNNING"

\* An undisturbed run is, between requests, either settled, with no pause left to
\* answer, or paused, with all that is needed to resume it from a node that did
\* pause, whatever nodes were deleted during the pause.  Only where branches ran side
\* by side may a failed run still have a pause.
PausedOrSettled ==
    Undisturbed => \A run \in Runs : Idle(run) /\ flowRun[run] # "none" =>
        \/ flowRun[run] = "SUCCESS" /\ hitl[run] = NoHITL
        \/ flowRun[run] = "FAILED" /\ (run \in forked \/ hitl[run] = NoHITL)
        \/ flowRun[run] = "WAITING_FEEDBACK" /\ Resumable(run)

\* As long as no pause of it was answered, a run is recorded as SUCCESS only if
\* every node that any of its branches entered has succeeded, even if clients go
\* away: no branch's failure or pause is swallowed by the joins above it.
SuccessMeansAllSucceeded ==
    budget.faults = 0 => \A run \in Runs : flowRun[run] = "SUCCESS" /\ answered[run] = {} =>
        \A n \in Nodes : nodeState[run][n] \in {"none", "SUCCESS"}

\* Once a branch has failed or paused, no goroutine below the same fork, however
\* deep, starts another node.
FirstErrorStopsGroup ==
    [][\A r \in Requests, p, q \in Paths :
          /\ tasks[r][p].pc = "enter" /\ tasks'[r][p].pc = "sandbox"
          /\ IsStrictPrefix(q, p)
          => tasks[r][q].result = "none"]_vars

\* Every request is answered in the end: forks join, loops end, and no goroutine
\* waits for ever, if clients wait for answers before they send more feedback.
RequestsEnd == \A r \in Requests : Active(r) ~> ~Active(r)

\* The status of a run follows its life cycle: once final it stays so, and an
\* undisturbed run does not stay RUNNING.
Lifecycle == INSTANCE FlowRunLifecycle WITH status <- flowRun
RunLifecycle == Lifecycle!FairSpec

\* What README.md:12 says ("flows can pause and request human feedback before
\* continuing"): a run ends in SUCCESS only after every node that paused it has
\* got its feedback.
EveryPauseAnswered ==
    \A run \in Runs : flowRun[run] = "SUCCESS" =>
        \A n \in Nodes : nodeState[run][n] = "WAITING_FEEDBACK" => n \in answered[run]
=============================================================================
