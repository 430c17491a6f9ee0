----------------------- MODULE FlowOrchestrator_proofs -----------------------
(***************************************************************************)
(* Proofs about the orchestrator, for every flow, any number of requests,  *)
(* runs, branches and failures, and whether or not requests overlap.       *)
(***************************************************************************)
EXTENDS FlowTasks_proofs

\* The edge found between two nodes that an edge joins has a limit.
LEMMA EdgeFound ==
  ASSUME NEW pair \in Joined
  PROVE  GetEdge(Edges, pair[1], pair[2]).maxCycles \in Int
<1>1. PICK i \in DOMAIN Edges : Edges[i].from = pair[1] /\ Edges[i].to = pair[2]
  BY DEF Joined
<1>2. GetEdge(Edges, pair[1], pair[2]) \in EdgeSet(Nodes, Int)
  BY <1>1, FirstEdge, GraphAssumption
<1> QED
  BY <1>2 DEF EdgeSet

LEMMA LimitType == \A pair \in Joined : Limit(pair) \in Nat
BY EdgeFound DEF Limit

----------------------------------------------------------------------------
(* Cycle counters *)

CountersTyped ==
    /\ cycleCounters \in [Runs -> [Pairs -> Nat]]
    /\ traversals \in [Runs -> [Pairs -> Nat]]
    /\ makes \in [Runs -> Nat]

\* What a run has followed: no more than its limit for each map of counters it no
\* longer has, and what the map it has, if any, counts.
Counted(run, pair) ==
    /\ cycleCounters[run][pair] <= Limit(pair)
    /\ run \in live =>
          /\ makes[run] > 0
          /\ traversals[run][pair] <= Limit(pair) * (makes[run] - 1) + cycleCounters[run][pair]
    /\ run \notin live =>
          /\ cycleCounters[run][pair] = 0
          /\ traversals[run][pair] <= Limit(pair) * makes[run]

CountersInv == CountersTyped /\ \A run \in Runs, pair \in Joined : Counted(run, pair)

LEMMA CountersInit == Init => CountersInv
<1> SUFFICES ASSUME Init PROVE CountersInv
  OBVIOUS
<1>1. CountersTyped
  BY DEF Init, CountersTyped, NoCounts
<1>2. ASSUME NEW run \in Runs, NEW pair \in Joined PROVE Counted(run, pair)
  <2>1. Limit(pair) \in Nat /\ pair \in Pairs
    BY LimitType DEF Joined
  <2> QED
    BY <2>1 DEF Init, Counted, NoCounts
<1> QED
  BY <1>1, <1>2 DEF CountersInv

\* Steps that touch neither the counters nor the history.
LEMMA CountersUntouched ==
  ASSUME CountersInv, UNCHANGED <<live, cycleCounters, traversals, makes>>
  PROVE  CountersInv'
BY DEF CountersInv, CountersTyped, Counted

\* What a map of counters is worth when it is thrown away.
LEMMA Discarded ==
  ASSUME CountersInv, NEW run \in Runs, NEW pair \in Joined
  PROVE  traversals[run][pair] <= Limit(pair) * makes[run]
<1>1. Counted(run, pair) /\ makes[run] \in Nat /\ Limit(pair) \in Nat /\ pair \in Pairs
  BY LimitType DEF CountersInv, CountersTyped, Joined
<1>2. cycleCounters[run][pair] \in Nat /\ traversals[run][pair] \in Nat
  BY <1>1 DEF CountersInv, CountersTyped
<1>3. Limit(pair) * makes[run] = Limit(pair) * (makes[run] - 1) + Limit(pair)
  BY <1>1
<1>4. Limit(pair) * (makes[run] - 1) \in Int /\ Limit(pair) * makes[run] \in Int
  BY <1>1
<1> HIDE DEF Limit
<1> QED
  BY <1>1, <1>2, <1>3, <1>4 DEF Counted

LEMMA MakeCountersOk ==
  ASSUME CountersInv, NEW run, MakeCounters(run) PROVE CountersInv'
<1> USE DEF MakeCounters
<1>1. CountersTyped'
  <2>1. NoCounts \in [Pairs -> Nat]
    BY DEF NoCounts
  <2> DEFINE f == [cycleCounters EXCEPT ![run] = NoCounts]
             g == [makes EXCEPT ![run] = @ + 1]
  <2>2. f \in [Runs -> [Pairs -> Nat]]
    BY <2>1 DEF CountersInv, CountersTyped
  <2>3. g \in [Runs -> Nat]
    <3>1. CASE run \in Runs
      BY <3>1 DEF CountersInv, CountersTyped
    <3>2. CASE run \notin Runs
      BY <3>2 DEF CountersInv, CountersTyped
    <3> QED
      BY <3>1, <3>2
  <2> QED
    BY <2>2, <2>3 DEF CountersInv, CountersTyped
<1>2. ASSUME NEW other \in Runs, NEW pair \in Joined PROVE Counted(other, pair)'
  <2>1. CASE other = run
    <3>1. traversals[run][pair] <= Limit(pair) * makes[run]
      BY <2>1, Discarded
    <3>2. /\ makes'[run] = makes[run] + 1 /\ makes[run] \in Nat
          /\ cycleCounters'[run][pair] = 0 /\ run \in live'
          /\ traversals'[run][pair] = traversals[run][pair] /\ traversals[run][pair] \in Nat
      BY <2>1 DEF CountersInv, CountersTyped, NoCounts, Joined
    <3>3. Limit(pair)' = Limit(pair) /\ Limit(pair) \in Nat
      BY LimitType DEF Limit
    <3>4. Limit(pair) * (makes'[run] - 1) = Limit(pair) * makes[run]
      BY <3>2, <3>3
    <3>5. Limit(pair) * makes[run] \in Int
      BY <3>2, <3>3
    <3> QED
      BY <2>1, <3>1, <3>2, <3>3, <3>4, <3>5 DEF Counted
  <2>2. CASE other # run
    <3>1. Counted(other, pair)
      BY DEF CountersInv
    <3> QED
      BY <2>2, <3>1 DEF Counted, CountersInv, CountersTyped
  <2> QED
    BY <2>1, <2>2
<1>3. \A other \in Runs, pair \in Joined : Counted(other, pair)'
  BY <1>2
<1> QED
  BY <1>1, <1>3 DEF CountersInv

LEMMA CleanupOk ==
  ASSUME CountersInv, NEW r \in Requests, Cleanup(r) PROVE CountersInv'
<1> USE DEF Cleanup, history
<1>1. CountersTyped'
  <2>1. NoCounts \in [Pairs -> Nat]
    BY DEF NoCounts
  <2> QED
    BY <2>1 DEF CountersInv, CountersTyped
<1>2. ASSUME NEW run \in Runs, NEW pair \in Joined PROVE Counted(run, pair)'
  <2>1. Counted(run, pair) /\ traversals[run][pair] <= Limit(pair) * makes[run]
    BY Discarded DEF CountersInv
  <2>2. Limit(pair) \in Nat /\ pair \in Pairs
    BY LimitType DEF Joined
  <2>3. CASE run = Run(r)
    BY <2>1, <2>2, <2>3 DEF Counted, CountersInv, CountersTyped, NoCounts
  <2>4. CASE run # Run(r)
    BY <2>1, <2>4 DEF Counted, CountersInv, CountersTyped
  <2> QED
    BY <2>3, <2>4
<1>3. \A run \in Runs, pair \in Joined : Counted(run, pair)'
  BY <1>2
<1> QED
  BY <1>1, <1>3 DEF CountersInv

LEMMA ProcessDiesOk == CountersInv /\ ProcessDies => CountersInv'
<1> SUFFICES ASSUME CountersInv, ProcessDies PROVE CountersInv'
  OBVIOUS
<1> USE DEF ProcessDies, history
<1>1. CountersTyped'
  BY DEF CountersInv, CountersTyped, NoCounts
<1>2. ASSUME NEW run \in Runs, NEW pair \in Joined PROVE Counted(run, pair)'
  <2>1. traversals[run][pair] <= Limit(pair) * makes[run]
    BY Discarded
  <2>2. Limit(pair) \in Nat /\ pair \in Pairs
    BY LimitType DEF Joined
  <2> QED
    BY <2>1, <2>2 DEF Counted, NoCounts
<1>3. \A run \in Runs, pair \in Joined : Counted(run, pair)'
  BY <1>2
<1> QED
  BY <1>1, <1>3 DEF CountersInv

\* A step that follows an edge below its limit: counter and history grow together.
LEMMA FollowedOk ==
  ASSUME CountersInv, NEW run \in live, NEW pair,
         ~AtLimit(cycleCounters[run][pair], GetEdge(Edges, pair[1], pair[2])),
         cycleCounters' = [cycleCounters EXCEPT ![run][pair] = @ + 1],
         traversals' = [traversals EXCEPT ![run][pair] = @ + 1],
         UNCHANGED <<live, makes>>
  PROVE  CountersInv'
<1>1. CountersTyped'
  <2>1. ASSUME NEW f \in [Runs -> [Pairs -> Nat]]
        PROVE  [f EXCEPT ![run][pair] = @ + 1] \in [Runs -> [Pairs -> Nat]]
    <3>1. CASE run \in Runs /\ pair \in Pairs
      BY <3>1
    <3>2. CASE run \notin Runs
      BY <3>2
    <3>3. CASE pair \notin Pairs
      BY <3>3
    <3> QED
      BY <3>1, <3>2, <3>3
  <2> QED
    BY <2>1 DEF CountersInv, CountersTyped
<1>2. ASSUME NEW other \in Runs, NEW p \in Joined PROVE Counted(other, p)'
  <2>1. /\ Counted(other, p) /\ p \in Pairs /\ Limit(p) \in Nat /\ makes[other] \in Nat
        /\ cycleCounters[other][p] \in Nat /\ traversals[other][p] \in Nat
    BY LimitType DEF CountersInv, CountersTyped, Joined
  <2>2. CASE other = run /\ p = pair
    <3>1. cycleCounters[run][pair] + 1 <= Limit(pair)
      <4>1. GetEdge(Edges, pair[1], pair[2]).maxCycles \in Int
        BY <2>2, EdgeFound
      <4> QED
        BY <2>1, <2>2, <4>1 DEF AtLimit, Limit
    <3>2. /\ cycleCounters'[run][pair] = cycleCounters[run][pair] + 1
          /\ traversals'[run][pair] = traversals[run][pair] + 1
      BY <2>1, <2>2 DEF CountersInv, CountersTyped
    <3>3. Limit(pair) * (makes[run] - 1) \in Int
      BY <2>1, <2>2
    <3> HIDE DEF Limit
    <3> QED
      BY <2>1, <2>2, <3>1, <3>2, <3>3 DEF Counted
  <2>3. CASE other # run \/ p # pair
    <3>1. cycleCounters'[other][p] = cycleCounters[other][p] /\ traversals'[other][p] = traversals[other][p]
      BY <2>1, <2>3 DEF CountersInv, CountersTyped
    <3> QED
      BY <2>1, <3>1 DEF Counted
  <2> QED
    BY <2>2, <2>3
<1>3. \A other \in Runs, p \in Joined : Counted(other, p)'
  BY <1>2
<1> QED
  BY <1>1, <1>3 DEF CountersInv

LEMMA ResolveOk ==
  ASSUME CountersInv, NEW r \in Requests, NEW p \in Paths, Resolve(r, p) PROVE CountersInv'
<1> DEFINE run  == Run(r)
           i    == Min(tasks[r][p].todo)
           pair == <<tasks[r][p].node, Edges[i].to>>
           full == AtLimit(cycleCounters[run][pair], GetEdge(Edges, pair[1], pair[2]))
<1>1. CASE UNCHANGED <<memory, history>>
  BY <1>1, CountersUntouched DEF memory, history
<1>2. CASE /\ ~full /\ run \in live
           /\ cycleCounters' = [cycleCounters EXCEPT ![run][pair] = @ + 1]
           /\ traversals' = [traversals EXCEPT ![run][pair] = @ + 1]
           /\ UNCHANGED <<live, makes>>
  <2> HIDE DEF run, pair
  <2> QED
    BY <1>2, FollowedOk
<1>3. CASE UNCHANGED <<live, cycleCounters, history>>
  BY <1>3, CountersUntouched DEF history
<1>4. CASE ProcessDies
  BY <1>4, ProcessDiesOk
<1> QED
  BY <1>1, <1>2, <1>3, <1>4 DEF Resolve

LEMMA CountersStep == CountersInv /\ [Next]_vars => CountersInv'
<1> SUFFICES ASSUME CountersInv, [Next]_vars PROVE CountersInv'
  OBVIOUS
<1>1. CASE UNCHANGED <<live, cycleCounters, traversals, makes>>
  BY <1>1, CountersUntouched
<1>2. ASSUME NEW r \in Requests, NEW run \in Runs, ExecuteBegin(r, run) \/ SubmitFeedback(r, run)
      PROVE  CountersInv'
  BY <1>1, <1>2 DEF ExecuteBegin, SubmitFeedback, memory, history
<1>3. ASSUME NEW r \in Requests, Serve(r) PROVE CountersInv'
  <2>1. CASE ExecuteCounters(r) \/ ResumeCounters(r)
    BY <2>1, MakeCountersOk DEF ExecuteCounters, ResumeCounters
  <2>2. CASE ReturnFromRoot(r) \/ Persist(r) \/ ResumeDelete(r)
    BY <1>1, <2>2 DEF ReturnFromRoot, Persist, ResumeDelete, memory, history
  <2>3. CASE Cleanup(r)
    BY <2>3, CleanupOk
  <2> QED
    BY <1>3, <2>1, <2>2, <2>3 DEF Serve
<1>4. ASSUME NEW r \in Requests, FeedbackAbandoned(r) \/ Disconnect(r) PROVE CountersInv'
  BY <1>1, <1>4 DEF FeedbackAbandoned, Disconnect, memory, history
<1>5. ASSUME NEW r \in Requests, NEW p \in Paths, Task(r, p) PROVE CountersInv'
  <2>1. CASE EnterNode(r, p) \/ ScriptFails(r, p) \/ ScriptReturns(r, p)
    BY <1>1, <2>1 DEF EnterNode, ScriptFails, ScriptReturns, memory, history
  <2>2. CASE PauseHITL(r, p) \/ PauseRun(r, p) \/ Follow(r, p)
    BY <1>1, <2>2 DEF PauseHITL, PauseRun, Follow, memory, history
  <2>3. CASE ReturnFromBranch(r, p) \/ Join(r, p)
    BY <1>1, <2>3 DEF ReturnFromBranch, Join, memory, history
  <2>4. CASE Resolve(r, p)
    BY <2>4, ResolveOk
  <2> QED
    BY <1>5, <2>1, <2>2, <2>3, <2>4 DEF Task
<1>6. CASE Crash
  BY <1>6, ProcessDiesOk DEF Crash
<1>7. CASE UNCHANGED vars
  BY <1>1, <1>7 DEF vars, memory, history
<1> QED
  BY <1>2, <1>3, <1>4, <1>5, <1>6, <1>7 DEF Next

\* However requests for a run overlap, branches meet and the process crashes, a run follows
\* an edge at most max_cycles times for each map of counters it was given.
THEOREM LoopsAreBounded == Spec => []CycleBudget
<1>1. CountersInv => CycleBudget
  <2> SUFFICES ASSUME CountersInv, NEW run \in Runs, NEW pair \in Joined
               PROVE  traversals[run][pair] <= makes[run] * Limit(pair)
    BY DEF CycleBudget
  <2>1. makes[run] \in Nat /\ Limit(pair) \in Nat
    BY LimitType DEF CountersInv, CountersTyped
  <2> HIDE DEF Limit
  <2>2. Limit(pair) * makes[run] = makes[run] * Limit(pair)
    BY <2>1
  <2> QED
    BY <2>2, Discarded
<1> QED
  BY <1>1, CountersInit, CountersStep, PTL DEF Spec

----------------------------------------------------------------------------
(* Types *)

MemoryTyped ==
    /\ live \subseteq Runs
    /\ mu \in {"free", "poisoned"}
    /\ forked \subseteq Runs
    /\ answered \in [Runs -> SUBSET Nodes]

LEMMA MemoryStep == ServedInv /\ MemoryTyped /\ [Next]_vars => MemoryTyped'
<1> SUFFICES ASSUME ServedInv, MemoryTyped, [Next]_vars PROVE MemoryTyped'
  OBVIOUS
<1>1. UNCHANGED <<live, mu, forked, answered>> => MemoryTyped'
  BY DEF MemoryTyped
<1>2. ProcessDies => MemoryTyped'
  BY DEF ProcessDies, MemoryTyped, history
<1>3. ASSUME NEW r \in Requests, NEW run \in Runs, ExecuteBegin(r, run) \/ SubmitFeedback(r, run)
      PROVE  MemoryTyped'
  BY <1>1, <1>3 DEF ExecuteBegin, SubmitFeedback, memory, history
<1>4. ASSUME NEW r \in Requests, Serve(r) PROVE MemoryTyped'
  <2>1. CASE ExecuteCounters(r) \/ ResumeCounters(r)
    <3>1. Run(r) \in Runs /\ MakeCounters(Run(r))
      BY <2>1, CountersIs
    <3>2. answered' \in [Runs -> SUBSET Nodes]
      <4>1. \/ answered' = answered
            \/ /\ requests[r].hitl \in HITLStates
               /\ answered' = [answered EXCEPT ![Run(r)] = @ \union {requests[r].hitl.node}]
        BY <2>1, CountersIs
      <4>2. \A h \in HITLStates : h.node \in Nodes
        BY DEF HITLStates
      <4> QED
        BY <3>1, <4>1, <4>2 DEF MemoryTyped
    <3> QED
      BY <3>1, <3>2 DEF MakeCounters, MemoryTyped
  <2>2. CASE ReturnFromRoot(r) \/ Persist(r) \/ ResumeDelete(r)
    BY <1>1, <2>2 DEF ReturnFromRoot, Persist, ResumeDelete, memory, history
  <2>3. CASE Cleanup(r)
    BY <2>3 DEF Cleanup, MemoryTyped, history
  <2> QED
    BY <1>4, <2>1, <2>2, <2>3 DEF Serve
<1>5. ASSUME NEW r \in Requests, FeedbackAbandoned(r) \/ Disconnect(r) PROVE MemoryTyped'
  BY <1>1, <1>5 DEF FeedbackAbandoned, Disconnect, memory, history
<1>6. ASSUME NEW r \in Requests, NEW p \in Paths, Task(r, p) PROVE MemoryTyped'
  <2>1. CASE EnterNode(r, p) \/ ScriptFails(r, p) \/ ScriptReturns(r, p)
    BY <1>1, <2>1 DEF EnterNode, ScriptFails, ScriptReturns, memory, history
  <2>2. CASE PauseHITL(r, p) \/ PauseRun(r, p) \/ ReturnFromBranch(r, p) \/ Join(r, p)
    BY <1>1, <2>2 DEF PauseHITL, PauseRun, ReturnFromBranch, Join, memory, history
  <2>3. CASE Resolve(r, p)
    <3>1. \/ ProcessDies
          \/ UNCHANGED <<live, forked, answered>> /\ mu' \in {mu, "poisoned"}
      BY <2>3 DEF Resolve, memory, history
    <3> QED
      BY <1>2, <3>1 DEF MemoryTyped
  <2>4. CASE Follow(r, p)
    <3>1. tasks[r][p].pc = "resolve"
      BY <2>4, FollowIs
    <3>2. Run(r) \in Runs
      BY <3>1, Running DEF ServedInv
    <3>3. UNCHANGED <<live, mu, answered>> /\ forked' \in {forked, forked \union {Run(r)}}
      BY <2>4 DEF Follow, memory
    <3> QED
      BY <3>2, <3>3 DEF MemoryTyped
  <2> QED
    BY <1>6, <2>1, <2>2, <2>3, <2>4 DEF Task
<1>7. CASE Crash
  BY <1>2, <1>7 DEF Crash
<1>8. CASE UNCHANGED vars
  BY <1>1, <1>8 DEF vars, memory, history
<1> QED
  BY <1>3, <1>4, <1>5, <1>6, <1>7, <1>8 DEF Next

Typed == ServedInv /\ CountersInv /\ MemoryTyped

LEMMA TypedInit == Init => Typed
<1>1. Init => MemoryTyped
  BY DEF Init, MemoryTyped
<1> QED
  BY <1>1, ServedInvInit, CountersInit DEF Typed

LEMMA TypedStep == Typed /\ [Next]_vars => Typed'
BY ServedInvStep, CountersStep, MemoryStep DEF Typed

\* Every variable holds values of its type: whatever branches, requests, faults and
\* crashes come together, what the orchestrator keeps and writes is well-formed.
THEOREM Typing == Spec => []TypeOK
<1>1. Typed => TypeOK
  BY DEF Typed, ServedInv, Served, RedisTyped, HITLTyped, BudgetTyped,
         CountersInv, CountersTyped, MemoryTyped, TypeOK
<1> QED
  BY <1>1, TypedInit, TypedStep, PTL DEF Spec

----------------------------------------------------------------------------
(* How a step changes the requests *)

\* Request y begins in the place of r: a new run that no request is about, or
\* feedback for a run that waits for it.
Arises(r, y) ==
    /\ requests[r] = NoRequest /\ y \in RequestSet
    /\ y.pc = "counters" /\ y.result = "none" /\ ~y.gone
    /\ \/ /\ y.kind = "execute" /\ Idle(y.run) /\ makes[y.run] = 0
          /\ flowRun[y.run] = "none" /\ flowRun'[y.run] = "RUNNING"
       \/ /\ y.kind = "resume" /\ (Overlap \/ Idle(y.run))
          /\ y.hitl = hitl[y.run] /\ y.hitl \in HITLStates
    /\ live \subseteq live'

\* Request r goes on as y.
GoesOn(r, y) ==
    /\ requests[r] \in RequestSet /\ y \in RequestSet
    /\ y.kind = requests[r].kind /\ y.run = Run(r) /\ y.hitl = requests[r].hitl
    /\ requests[r].gone => y.gone
    /\ \/ y.pc = requests[r].pc /\ y.result = requests[r].result
       \/ /\ requests[r].pc = "counters" /\ y.pc = "running" /\ y.result = "none"
          /\ makes'[Run(r)] > 0 /\ Run(r) \in live'
          /\ y.kind = "resume" => answered'[Run(r)] # {}
       \/ /\ requests[r].pc = "running" /\ tasks[r][Root].pc = "return"
          /\ y.result = tasks[r][Root].result
          /\ y.pc = IF y.result = "await" THEN "cleanup" ELSE "persist"
       \/ /\ requests[r].pc = "persist" /\ y.result = requests[r].result
          /\ y.pc = IF y.kind = "resume" THEN "delete" ELSE "cleanup"
       \/ /\ requests[r].pc = "delete" /\ y.pc = "cleanup" /\ y.result = requests[r].result
    /\ live \subseteq live'

\* Request r has been answered: no other loses its counters by that.
Ends(r, y) == y = NoRequest /\ live \ {Run(r)} \subseteq live'

\* One request at most begins, goes on or ends in a step, unless the process dies.
RequestMoves ==
    \/ requests' = requests /\ live \subseteq live'
    \/ \A r \in Requests : requests'[r] = NoRequest
    \/ \E r \in Requests : \E y : Asks(r, y) /\ (Arises(r, y) \/ GoesOn(r, y) \/ Ends(r, y))

LEMMA RequestsMove == ASSUME Typed, [Next]_vars PROVE RequestMoves
<1>0. ServedInv /\ CountersInv /\ MemoryTyped
  BY DEF Typed
<1>1. (requests' = requests /\ live' = live) \/ ProcessDies => RequestMoves
  BY DEF RequestMoves, ProcessDies
<1>2. \A r \in Requests : \A y :
         Asks(r, y) /\ (Arises(r, y) \/ GoesOn(r, y) \/ Ends(r, y)) => RequestMoves
  BY DEF RequestMoves
<1>3. ASSUME NEW r \in Requests, NEW run \in Runs, ExecuteBegin(r, run) PROVE RequestMoves
  <2>1. PICK lost \in BOOLEAN :
           /\ Asks(r, IF lost THEN NoRequest ELSE Incoming("execute", run, NoHITL))
           /\ requests[r] = NoRequest /\ flowRun[run] = "none" /\ makes[run] = 0 /\ Idle(run)
           /\ Recorded(run, "RUNNING", FALSE)
    BY <1>0, <1>3, ExecuteBeginIs
  <2>2. live' = live
    BY <1>3 DEF ExecuteBegin, memory
  <2>3. CASE lost
    BY <1>2, <2>1, <2>2, <2>3 DEF Ends
  <2>4. CASE ~lost
    <3> DEFINE y == Incoming("execute", run, NoHITL)
    <3>1. RequestOk(y)
      BY NewRequest
    <3>2. /\ y.pc = "counters" /\ y.run = run /\ y.kind = "execute"
          /\ y.result = "none" /\ ~y.gone
      BY DEF Incoming, NoRequest
    <3>3. Asks(r, y)
      BY <2>1, <2>4
    <3> HIDE DEF y
    <3>4. Arises(r, y)
      BY <2>1, <2>2, <3>1, <3>2, NoRequestIs DEF Arises, RequestOk, Recorded
    <3> QED
      BY <1>2, <3>3, <3>4
  <2> QED
    BY <2>3, <2>4
<1>4. ASSUME NEW r \in Requests, NEW run \in Runs, SubmitFeedback(r, run) PROVE RequestMoves
  <2> DEFINE y == Incoming("resume", run, hitl[run])
  <2>1. /\ requests[r] = NoRequest /\ hitl[run] \in HITLStates /\ (Overlap \/ Idle(run))
        /\ Asks(r, y)
    BY <1>0, <1>4, SubmitFeedbackIs
  <2>2. live' = live
    BY <1>4 DEF SubmitFeedback, memory
  <2>3. RequestOk(y)
    BY <2>1, NewRequest
  <2>4. /\ y.pc = "counters" /\ y.run = run /\ y.kind = "resume"
        /\ y.result = "none" /\ y.hitl = hitl[run] /\ ~y.gone
    BY DEF Incoming, NoRequest
  <2> HIDE DEF y
  <2>5. Arises(r, y)
    BY <2>1, <2>2, <2>3, <2>4, NoRequestIs DEF Arises, RequestOk
  <2> QED
    BY <1>2, <2>1, <2>5
<1>5. ASSUME NEW r \in Requests, Serve(r) PROVE RequestMoves
  <2>1. CASE ExecuteCounters(r) \/ ResumeCounters(r)
    <3>1. PICK y : Asks(r, y) /\ Keeps(requests[r], y) /\ y.pc = "running" /\ y.result = "none"
      BY <1>0, <2>1, CountersIs
    <3>2. requests[r].pc = "counters" /\ Run(r) \in Runs /\ MakeCounters(Run(r))
      BY <1>0, <2>1, CountersIs
    <3>3. requests[r] \in RequestSet
      BY <1>0, <3>2, Busy DEF ServedInv
    <3>4. makes'[Run(r)] > 0 /\ Run(r) \in live' /\ live \subseteq live'
      BY <1>0, <3>2 DEF MakeCounters, CountersInv, CountersTyped
    <3>5. requests[r].kind = "resume" => answered'[Run(r)] # {}
      <4>1. requests[r].kind = "execute"
            \/ answered' = [answered EXCEPT ![Run(r)] = @ \union {requests[r].hitl.node}]
        BY <1>0, <2>1, CountersIs
      <4> QED
        BY <1>0, <3>2, <4>1 DEF MemoryTyped
    <3>6. GoesOn(r, y)
      BY <3>1, <3>2, <3>3, <3>4, <3>5 DEF GoesOn, Keeps, Run
    <3> QED
      BY <1>2, <3>1, <3>6
  <2>2. CASE ReturnFromRoot(r)
    <3>1. PICK y : /\ Asks(r, y) /\ Keeps(requests[r], y) /\ y.result = tasks[r][Root].result
                   /\ y.pc = IF tasks[r][Root].result = "await" THEN "cleanup" ELSE "persist"
      BY <1>0, <2>2, ReturnFromRootIs
    <3>2. requests[r].pc = "running" /\ tasks[r][Root].pc = "return"
      BY <1>0, <2>2, ReturnFromRootIs
    <3>3. requests[r] \in RequestSet
      BY <1>0, <3>2, Busy DEF ServedInv
    <3>4. live' = live
      BY <2>2 DEF ReturnFromRoot, memory
    <3>5. GoesOn(r, y)
      BY <3>1, <3>2, <3>3, <3>4 DEF GoesOn, Keeps, Run
    <3> QED
      BY <1>2, <3>1, <3>5
  <2>3. CASE Persist(r)
    <3>1. PICK y : /\ Asks(r, y) /\ Keeps(requests[r], y) /\ y.result = requests[r].result
                   /\ y.pc = IF requests[r].kind = "resume" THEN "delete" ELSE "cleanup"
      BY <1>0, <2>3, PersistIs
    <3>2. requests[r].pc = "persist" /\ live' = live
      BY <2>3 DEF Persist, memory
    <3>3. requests[r] \in RequestSet
      BY <1>0, <3>2, Busy DEF ServedInv
    <3>4. GoesOn(r, y)
      BY <3>1, <3>2, <3>3 DEF GoesOn, Keeps, Run
    <3> QED
      BY <1>2, <3>1, <3>4
  <2>4. CASE ResumeDelete(r)
    <3>1. PICK y : Asks(r, y) /\ Keeps(requests[r], y) /\ y.result = requests[r].result /\ y.pc = "cleanup"
      BY <1>0, <2>4, ResumeDeleteIs
    <3>2. requests[r].pc = "delete" /\ live' = live
      BY <2>4 DEF ResumeDelete, memory
    <3>3. requests[r] \in RequestSet
      BY <1>0, <3>2, Busy DEF ServedInv
    <3>4. GoesOn(r, y)
      BY <3>1, <3>2, <3>3 DEF GoesOn, Keeps, Run
    <3> QED
      BY <1>2, <3>1, <3>4
  <2>5. CASE Cleanup(r)
    <3>1. Asks(r, NoRequest) /\ live' = live \ {Run(r)}
      BY <1>0, <2>5, GoesAwayIs DEF Cleanup
    <3> QED
      BY <1>2, <3>1 DEF Ends
  <2> QED
    BY <1>5, <2>1, <2>2, <2>3, <2>4, <2>5 DEF Serve
<1>6. ASSUME NEW r \in Requests, FeedbackAbandoned(r) PROVE RequestMoves
  <2>1. Asks(r, NoRequest) /\ live' = live
    BY <1>0, <1>6, GoesAwayIs DEF FeedbackAbandoned, memory
  <2> QED
    BY <1>2, <2>1 DEF Ends
<1>7. ASSUME NEW r \in Requests, Disconnect(r) PROVE RequestMoves
  <2>1. PICK y : /\ Asks(r, y) /\ y \in RequestSet /\ y.gone /\ y.kind = requests[r].kind
                 /\ y.run = requests[r].run /\ y.hitl = requests[r].hitl
                 /\ y.pc = requests[r].pc /\ y.result = requests[r].result
    BY <1>0, <1>7, DisconnectIs
  <2>2. requests[r] \in RequestSet
    BY <1>0, <1>7, DisconnectIs
  <2>3. live' = live
    BY <1>7 DEF Disconnect, memory
  <2>4. GoesOn(r, y)
    BY <2>1, <2>2, <2>3 DEF GoesOn, Run
  <2> QED
    BY <1>2, <2>1, <2>4
<1>8. ASSUME NEW r \in Requests, NEW p \in Paths, Task(r, p) PROVE RequestMoves
  <2>1. CASE EnterNode(r, p) \/ ScriptFails(r, p) \/ ScriptReturns(r, p)
    BY <1>1, <2>1 DEF EnterNode, ScriptFails, ScriptReturns, memory
  <2>2. CASE PauseHITL(r, p) \/ PauseRun(r, p) \/ Follow(r, p)
    BY <1>1, <2>2 DEF PauseHITL, PauseRun, Follow, memory
  <2>3. CASE ReturnFromBranch(r, p) \/ Join(r, p)
    BY <1>1, <2>3 DEF ReturnFromBranch, Join, memory
  <2>4. CASE Resolve(r, p)
    BY <1>1, <2>4 DEF Resolve, memory
  <2> QED
    BY <1>8, <2>1, <2>2, <2>3, <2>4 DEF Task
<1>9. CASE Crash
  BY <1>1, <1>9 DEF Crash
<1>10. CASE UNCHANGED vars
  BY <1>1, <1>10 DEF vars, memory, serving
<1> QED
  BY <1>3, <1>4, <1>5, <1>6, <1>7, <1>8, <1>9, <1>10 DEF Next

----------------------------------------------------------------------------
(* What has happened stays so *)

Grows ==
    /\ \A run \in Runs : makes'[run] >= makes[run] /\ answered[run] \subseteq answered'[run]
    /\ \A run \in Runs, pair \in Pairs : traversals'[run][pair] >= traversals[run][pair]
    /\ forked \subseteq forked'

LEMMA HistoryGrows == ASSUME Typed, [Next]_vars PROVE Grows
<1>0. ServedInv /\ CountersTyped /\ MemoryTyped
  BY DEF Typed, CountersInv
<1>1. UNCHANGED <<traversals, makes, answered>> /\ forked \subseteq forked' => Grows
  BY <1>0 DEF Grows, CountersTyped
<1>2. UNCHANGED history \/ ProcessDies => Grows
  BY <1>1 DEF history, ProcessDies
<1>3. ASSUME NEW r \in Requests, NEW run \in Runs, ExecuteBegin(r, run) \/ SubmitFeedback(r, run)
      PROVE  Grows
  BY <1>2, <1>3 DEF ExecuteBegin, SubmitFeedback
<1>4. ASSUME NEW r \in Requests, Serve(r) PROVE Grows
  <2>1. CASE ExecuteCounters(r) \/ ResumeCounters(r)
    <3>1. Run(r) \in Runs /\ MakeCounters(Run(r))
      BY <1>0, <2>1, CountersIs
    <3>2. \/ answered' = answered
          \/ answered' = [answered EXCEPT ![Run(r)] = @ \union {requests[r].hitl.node}]
      BY <1>0, <2>1, CountersIs
    <3>3. \A u \in Runs : answered[u] \subseteq answered'[u]
      BY <1>0, <3>1, <3>2 DEF MemoryTyped
    <3>4. \A u \in Runs : makes'[u] >= makes[u]
      BY <1>0, <3>1 DEF CountersTyped, MakeCounters
    <3>5. UNCHANGED <<traversals, forked>>
      BY <3>1 DEF MakeCounters
    <3> QED
      BY <1>0, <3>3, <3>4, <3>5 DEF Grows, CountersTyped
  <2>2. CASE ReturnFromRoot(r) \/ Persist(r) \/ ResumeDelete(r) \/ Cleanup(r)
    BY <1>2, <2>2 DEF ReturnFromRoot, Persist, ResumeDelete, Cleanup
  <2> QED
    BY <1>4, <2>1, <2>2 DEF Serve
<1>5. ASSUME NEW r \in Requests, FeedbackAbandoned(r) \/ Disconnect(r) PROVE Grows
  BY <1>2, <1>5 DEF FeedbackAbandoned, Disconnect
<1>6. ASSUME NEW r \in Requests, NEW p \in Paths, Task(r, p) PROVE Grows
  <2>1. CASE EnterNode(r, p) \/ ScriptFails(r, p) \/ ScriptReturns(r, p)
    BY <1>2, <2>1 DEF EnterNode, ScriptFails, ScriptReturns
  <2>2. CASE PauseHITL(r, p) \/ PauseRun(r, p) \/ ReturnFromBranch(r, p) \/ Join(r, p)
    BY <1>2, <2>2 DEF PauseHITL, PauseRun, ReturnFromBranch, Join
  <2>3. CASE Follow(r, p)
    BY <1>1, <2>3 DEF Follow
  <2>4. CASE Resolve(r, p)
    <3> DEFINE pair == <<tasks[r][p].node, Edges[Min(tasks[r][p].todo)].to>>
    <3>1. \/ UNCHANGED history \/ ProcessDies
          \/ /\ traversals' = [traversals EXCEPT ![Run(r)][pair] = @ + 1]
             /\ UNCHANGED <<makes, forked, answered>>
      BY <2>4 DEF Resolve
    <3> HIDE DEF pair
    <3>2. ASSUME traversals' = [traversals EXCEPT ![Run(r)][pair] = @ + 1],
                 NEW run \in Runs, NEW other \in Pairs
          PROVE  traversals'[run][other] >= traversals[run][other]
      BY <1>0, <3>2 DEF CountersTyped
    <3> QED
      BY <1>0, <1>2, <3>1, <3>2 DEF Grows, CountersTyped
  <2> QED
    BY <1>6, <2>1, <2>2, <2>3, <2>4 DEF Task
<1>7. CASE Crash
  BY <1>2, <1>7 DEF Crash
<1>8. CASE UNCHANGED vars
  BY <1>2, <1>8 DEF vars
<1> QED
  BY <1>3, <1>4, <1>5, <1>6, <1>7, <1>8 DEF Next

----------------------------------------------------------------------------
(* Requests that do not overlap *)

\* At most one request at a time is about a run, and from the time it has made the
\* run's counters until it deletes them they are there.
Alone ==
    /\ \A r, s \in Requests : Active(r) /\ Active(s) /\ Run(r) = Run(s) => r = s
    /\ \A r \in Requests : requests[r].pc \notin {"none", "counters"} => Run(r) \in live

\* No goroutine finds the counters of its run gone, and the mutex is never left locked.
Unlocked == mu = "free" /\ \A r \in Requests, p \in Paths : tasks[r][p].pc # "stuck"

LEMMA AloneStep ==
  ASSUME Typed, Alone, Overlap = FALSE, [Next]_vars PROVE Alone'
<1>1. RequestMoves
  BY RequestsMove
<1>2. CASE requests' = requests /\ live \subseteq live'
  BY <1>2 DEF Alone, Active, Run
<1>3. CASE \A r \in Requests : requests'[r] = NoRequest
  BY <1>3, NoRequestIs DEF Alone, Active, Run
<1>4. ASSUME NEW r \in Requests, NEW y, Asks(r, y), Arises(r, y) PROVE Alone'
  <2>1. \A s \in Requests : requests'[s] = IF s = r THEN y ELSE requests[s]
    BY <1>4 DEF Asks
  <2>2. \A s \in Requests : Run(s) # y.run
    BY <1>4 DEF Arises, Idle, Run
  <2>3. y.pc = "counters" /\ live \subseteq live'
    BY <1>4 DEF Arises
  <2> QED
    BY <2>1, <2>2, <2>3 DEF Alone, Active, Run
<1>5. ASSUME NEW r \in Requests, NEW y, Asks(r, y), GoesOn(r, y) PROVE Alone'
  <2>1. \A s \in Requests : requests'[s] = IF s = r THEN y ELSE requests[s]
    BY <1>5 DEF Asks
  <2>2. /\ y.run = Run(r) /\ Active(r) /\ live \subseteq live'
        /\ \/ y.pc = requests[r].pc \/ Run(r) \in live' \/ requests[r].pc \notin {"none", "counters"}
    BY <1>5, NoRequestIs DEF GoesOn, Active
  <2>3. y.pc \notin {"none", "counters"} => Run(r) \in live'
    BY <2>2 DEF Alone
  <2>4. \A s \in Requests : requests'[s].run = Run(s)
    BY <2>1, <2>2 DEF Run
  <2>5. ASSUME NEW s \in Requests, requests'[s].pc \notin {"none", "counters"}
        PROVE  Run(s) \in live'
    BY <2>1, <2>2, <2>3, <2>5 DEF Alone
  <2>6. \A s \in Requests : requests'[s] # NoRequest => Active(s)
    BY <2>1, <2>2 DEF Active
  <2> QED
    BY <2>4, <2>5, <2>6 DEF Alone, Active, Run
<1>6. ASSUME NEW r \in Requests, NEW y, Asks(r, y), Ends(r, y) PROVE Alone'
  <2>1. /\ \A s \in Requests : requests'[s] = IF s = r THEN NoRequest ELSE requests[s]
        /\ live \ {Run(r)} \subseteq live'
    BY <1>6 DEF Asks, Ends
  <2>2. ASSUME NEW s \in Requests, s # r, requests[s].pc \notin {"none", "counters"}
        PROVE  Run(s) \in live'
    <3>1. CASE Active(r)
      BY <2>1, <2>2, <3>1, NoRequestIs DEF Alone, Active
    <3>2. CASE ~Active(r)
      <4>1. Run(r) \notin Runs /\ Run(s) \in Runs
        BY <2>2, <3>2, Busy, NoRequestIs, NamesAssumption DEF Active, Run, Typed, ServedInv
      <4> QED
        BY <2>1, <2>2, <4>1 DEF Alone
    <3> QED
      BY <3>1, <3>2
  <2> QED
    BY <2>1, <2>2, NoRequestIs DEF Alone, Active, Run
<1> QED
  BY <1>1, <1>2, <1>3, <1>4, <1>5, <1>6 DEF RequestMoves

LEMMA UnlockedStep ==
  ASSUME Typed, Alone, Unlocked, [Next]_vars PROVE Unlocked'
<1>0. ServedInv /\ mu = "free"
  BY DEF Typed, Unlocked
<1>1. UNCHANGED <<mu, tasks>> => Unlocked'
  BY DEF Unlocked
<1>2. ASSUME ProcessDies PROVE Unlocked'
  BY <1>2, NoTaskIs DEF ProcessDies, Unlocked, NoTasks
<1>3. ASSUME NEW r \in Requests, NEW p \in Paths, NEW x, Moves(r, p, x), x.pc # "stuck", mu' = mu
      PROVE  Unlocked'
  BY <1>3 DEF Unlocked, Moves
<1>4. ASSUME NEW r \in Requests, NEW run \in Runs, ExecuteBegin(r, run) \/ SubmitFeedback(r, run)
      PROVE  Unlocked'
  BY <1>1, <1>4 DEF ExecuteBegin, SubmitFeedback, memory
<1>5. ASSUME NEW r \in Requests, Serve(r) PROVE Unlocked'
  <2>1. CASE ExecuteCounters(r) \/ ResumeCounters(r)
    <3>1. MakeCounters(Run(r)) /\ \E x : Moves(r, Root, x) /\ x.pc # "stuck"
      BY <1>0, <2>1, CountersIs
    <3> QED
      BY <1>3, <3>1, RootPath DEF MakeCounters
  <2>2. CASE ReturnFromRoot(r)
    <3>1. Moves(r, Root, NoTask) /\ mu' = mu
      BY <1>0, <2>2, ReturnFromRootIs DEF ReturnFromRoot, memory
    <3> QED
      BY <1>3, <3>1, RootPath, NoTaskIs
  <2>3. CASE Persist(r) \/ ResumeDelete(r) \/ Cleanup(r)
    BY <1>1, <2>3 DEF Persist, ResumeDelete, Cleanup, memory
  <2> QED
    BY <1>5, <2>1, <2>2, <2>3 DEF Serve
<1>6. ASSUME NEW r \in Requests, FeedbackAbandoned(r) PROVE Unlocked'
  BY <1>1, <1>6 DEF FeedbackAbandoned, memory
<1>7. ASSUME NEW r \in Requests, Disconnect(r) PROVE Unlocked'
  <2>1. \A s \in Requests, q \in Paths : tasks'[s][q].pc = tasks[s][q].pc
    BY <1>0, <1>7, DisconnectIs
  <2> QED
    BY <1>7, <2>1 DEF Unlocked, Disconnect, memory
<1>8. ASSUME NEW r \in Requests, NEW p \in Paths, Task(r, p) PROVE Unlocked'
  <2>1. CASE EnterNode(r, p)
    <3>1. (\E x : Moves(r, p, x) /\ x.pc # "stuck") /\ mu' = mu
      BY <1>0, <2>1, EnterNodeIs DEF Enters, EnterNode, memory
    <3> QED
      BY <1>3, <3>1
  <2>2. CASE ScriptFails(r, p) \/ PauseHITL(r, p) \/ PauseRun(r, p) \/ Join(r, p)
    <3>1. \E x : Moves(r, p, x) /\ x.pc # "stuck"
      BY <1>0, <2>2, ScriptFailsIs, PauseHITLIs, PauseRunIs, JoinIs
    <3>2. mu' = mu
      BY <2>2 DEF ScriptFails, PauseHITL, PauseRun, Join, memory
    <3> QED
      BY <1>3, <3>1, <3>2
  <2>3. CASE ScriptReturns(r, p)
    <3>1. PICK x, lost : Outputs(r, p, x, lost)
      BY <1>0, <2>3, ScriptReturnsIs
    <3>2. Moves(r, p, x) /\ x.pc # "stuck"
      BY <3>1 DEF Outputs
    <3>3. mu' = mu
      BY <2>3 DEF ScriptReturns, memory
    <3> QED
      BY <1>3, <3>2, <3>3
  <2>4. CASE Resolve(r, p)
    <3>1. Run(r) \in live
      <4>1. tasks[r][p].pc = "resolve"
        BY <1>0, <2>4, ResolveIs
      <4> QED
        BY <1>0, <4>1, Running DEF Alone, ServedInv
    <3>2. PICK x : Looks(r, p, x)
      BY <1>0, <2>4, <3>1, ResolveIs
    <3>3. Moves(r, p, x) /\ x.pc # "stuck" /\ mu' = mu
      BY <3>1, <3>2 DEF Looks, Considers
    <3> QED
      BY <1>3, <3>3
  <2>5. CASE Follow(r, p)
    <3>1. \/ \E x : Moves(r, p, x) /\ x.pc # "stuck"
          \/ \E x : Forks(r, p, x)
      BY <1>0, <2>5, FollowIs
    <3>2. mu' = mu
      BY <2>5 DEF Follow, memory
    <3>3. ASSUME NEW x, Forks(r, p, x) PROVE Unlocked'
      BY <3>2, <3>3 DEF Forks, Unlocked
    <3> QED
      BY <1>3, <3>1, <3>2, <3>3
  <2>6. CASE ReturnFromBranch(r, p)
    <3>1. Returned(r, p) /\ mu' = mu
      BY <1>0, <2>6, ReturnFromBranchIs DEF ReturnFromBranch, memory
    <3> QED
      BY <3>1, NoTaskIs DEF Returned, Unlocked
  <2> QED
    BY <1>8, <2>1, <2>2, <2>3, <2>4, <2>5, <2>6 DEF Task
<1>9. CASE Crash
  BY <1>2, <1>9 DEF Crash
<1>10. CASE UNCHANGED vars
  BY <1>1, <1>10 DEF vars, memory, serving
<1> QED
  BY <1>4, <1>5, <1>6, <1>7, <1>8, <1>9, <1>10 DEF Next

\* If clients wait for the answer before they send more feedback, no goroutine ever
\* finds the counters of its run deleted: the mutex of the counters is never left
\* locked by a panic, and no request hangs on it, whatever fails and crashes.
THEOREM CountersOutliveTheirRun ==
  ASSUME Overlap = FALSE PROVE Spec => [](Unlocked /\ Alone)
<1>1. Init => Alone /\ Unlocked
  BY NoRequestIs, NoTaskIs DEF Init, Alone, Unlocked, Active, NoTasks
<1>2. Typed /\ Alone /\ Unlocked /\ [Next]_vars => Alone' /\ Unlocked'
  BY AloneStep, UnlockedStep
<1> QED
  BY <1>1, <1>2, TypedInit, TypedStep, PTL DEF Spec

----------------------------------------------------------------------------
(* A failure or a pause is never swallowed *)

\* A goroutine that has failed or paused, or waits for a branch that has.
Troubled(x) == x.pc \in {"pauseHITL", "pauseRun"} \/ x.result \in {"failed", "await"}

\* A request that can no longer be recorded as SUCCESS: its client is gone, or it has
\* failed or paused somewhere.
Doomed(r) ==
    \/ requests[r].gone
    \/ requests[r].result \in {"failed", "await"}
    \/ \E p \in Paths : Troubled(tasks[r][p])

\* A goroutine of the request runs the script of a node.
AtWork(r, p, n) == tasks[r][p].pc = "sandbox" /\ tasks[r][p].node = n

\* The trouble of a goroutine that goes on alone stays with it.
LEMMA TroubleKept ==
  ASSUME NEW r \in Requests, NEW p \in Paths, Troubled(tasks[r][p]),
         NEW s \in Requests, NEW q \in Paths, NEW x, Moves(s, q, x),
         Troubled(tasks[s][q]) => Troubled(x)
  PROVE  Troubled(tasks'[r][p])
BY DEF Moves

LEMMA TroubleStays ==
  ASSUME Typed, [Next]_vars, NEW r \in Requests, NEW p \in Paths, Troubled(tasks[r][p]),
         requests'[r] # NoRequest
  PROVE  requests'[r].result \in {"failed", "await"} \/ \E q \in Paths : Troubled(tasks'[r][q])
<1> DEFINE Goal == \/ requests'[r].result \in {"failed", "await"}
                   \/ \E q \in Paths : Troubled(tasks'[r][q])
<1>0. ServedInv
  BY DEF Typed
<1>1. /\ requests[r].pc = "running" /\ TaskOk(tasks[r][p])
      /\ tasks[r][p].pc \in {"pauseHITL", "pauseRun", "return", "join"}
      /\ Tree(tasks[r], requests[r].gone)
  <2>1. tasks[r][p].pc # "none"
    BY <1>0, NoTaskIs DEF Troubled, ServedInv, Served, Serves, Tree, TaskOk, ResultsAt
  <2> QED
    BY <1>0, <2>1, Running DEF ServedInv, Troubled, TaskOk, ResultsAt
<1>2. tasks' = tasks => Goal
  OBVIOUS
<1>3. ASSUME NEW s \in Requests, NEW q \in Paths, NEW x, Moves(s, q, x),
             Troubled(tasks[s][q]) => Troubled(x)
      PROVE  Goal
  BY <1>3, TroubleKept
<1>4. ASSUME NEW s \in Requests, NEW q \in Paths, NEW x, Moves(s, q, x), s # r \/ q # p
      PROVE  Goal
  BY <1>4 DEF Moves
<1>5. ASSUME ProcessDies PROVE FALSE
  BY <1>5 DEF ProcessDies
<1> HIDE DEF Goal
<1>6. ASSUME NEW s \in Requests, NEW run \in Runs, ExecuteBegin(s, run) \/ SubmitFeedback(s, run)
      PROVE  Goal
  BY <1>2, <1>6 DEF ExecuteBegin, SubmitFeedback
<1>7. ASSUME NEW s \in Requests, Serve(s) PROVE Goal
  <2>1. CASE ExecuteCounters(s) \/ ResumeCounters(s)
    <3>1. requests[s].pc = "counters" /\ \E x : Moves(s, Root, x)
      BY <1>0, <2>1, CountersIs
    <3> QED
      BY <1>1, <1>4, <3>1, RootPath
  <2>2. CASE ReturnFromRoot(s)
    <3>1. /\ Moves(s, Root, NoTask) /\ \A q \in Paths : q # Root => tasks[s][q] = NoTask
          /\ tasks[s][Root].pc = "return"
          /\ \E y : Asks(s, y) /\ y.result = tasks[s][Root].result
      BY <1>0, <2>2, ReturnFromRootIs
    <3>2. CASE s # r \/ p # Root
      BY <1>4, <3>1, <3>2, RootPath
    <3>3. CASE s = r /\ p = Root
      BY <3>1, <3>3 DEF Asks, Troubled, Goal
    <3> QED
      BY <3>2, <3>3
  <2>3. CASE Persist(s) \/ ResumeDelete(s) \/ Cleanup(s)
    BY <1>2, <2>3 DEF Persist, ResumeDelete, Cleanup
  <2> QED
    BY <1>7, <2>1, <2>2, <2>3 DEF Serve
<1>8. ASSUME NEW s \in Requests, FeedbackAbandoned(s) PROVE Goal
  BY <1>2, <1>8 DEF FeedbackAbandoned
<1>9. ASSUME NEW s \in Requests, Disconnect(s) PROVE Goal
  <2>1. tasks'[r][p].pc = tasks[r][p].pc /\ tasks'[r][p].result = tasks[r][p].result
    BY <1>0, <1>9, DisconnectIs
  <2> QED
    BY <2>1 DEF Troubled, Goal
<1>10. ASSUME NEW s \in Requests, NEW q \in Paths, Task(s, q) PROVE Goal
  <2>1. CASE EnterNode(s, q)
    <3>1. PICK x : Enters(s, q, x)
      BY <1>0, <2>1, EnterNodeIs
    <3> QED
      BY <1>1, <1>4, <3>1 DEF Enters
  <2>2. CASE ScriptFails(s, q)
    <3>1. tasks[s][q].pc = "sandbox" /\ \E x : Moves(s, q, x)
      BY <1>0, <2>2, ScriptFailsIs
    <3> QED
      BY <1>1, <1>4, <3>1
  <2>3. CASE ScriptReturns(s, q)
    <3>1. PICK x, lost : Outputs(s, q, x, lost)
      BY <1>0, <2>3, ScriptReturnsIs
    <3> QED
      BY <1>1, <1>4, <3>1 DEF Outputs
  <2>4. CASE PauseHITL(s, q) \/ PauseRun(s, q)
    <3>1. \E x : Moves(s, q, x) /\ (x.pc = "pauseRun" \/ x.result = "await")
      BY <1>0, <2>4, PauseHITLIs, PauseRunIs
    <3> QED
      BY <1>3, <3>1 DEF Troubled
  <2>5. CASE Resolve(s, q)
    <3>1. tasks[s][q].pc = "resolve"
      BY <1>0, <2>5, ResolveIs
    <3>2. PICK x : Looks(s, q, x)
      BY <1>0, <1>5, <2>5, ResolveIs
    <3> QED
      BY <1>1, <1>4, <3>1, <3>2 DEF Looks
  <2>6. CASE Follow(s, q)
    <3>1. /\ tasks[s][q].pc = "resolve"
          /\ (\E x : Moves(s, q, x)) \/ (\E x : Forks(s, q, x))
      BY <1>0, <2>6, FollowIs
    <3>2. ASSUME NEW x, Forks(s, q, x) PROVE Goal
      <4>1. tasks'[r][p] = tasks[r][p]
        BY <1>1, <3>1, <3>2, NoTaskIs DEF Forks
      <4> QED
        BY <4>1 DEF Goal
    <3> QED
      BY <1>1, <1>4, <3>1, <3>2
  <2>7. CASE ReturnFromBranch(s, q)
    <3>1. Returned(s, q)
      BY <1>0, <2>7, ReturnFromBranchIs
    <3>2. CASE s # r
      BY <3>1, <3>2 DEF Returned, Goal
    <3>3. CASE s = r /\ q = p
      <4>1. /\ Front(p) \in Paths /\ tasks[r][Front(p)].pc = "join" /\ Front(p) # p
            /\ tasks[r][p].result \in {"failed", "await"}
        BY <3>1, <3>3 DEF Returned, Troubled
      <4>2. tasks[r][Front(p)].result \in {"none", "failed", "await"}
        BY <1>1, <4>1 DEF Tree, TaskOk, ResultsAt
      <4>3. tasks'[r][Front(p)].result \in {"failed", "await"}
        BY <3>1, <3>3, <4>1, <4>2 DEF Returned
      <4> QED
        BY <4>1, <4>3 DEF Troubled, Goal
    <3>4. CASE s = r /\ q # p
      <4>1. /\ tasks'[r][p].pc = tasks[r][p].pc
            /\ tasks[r][p].result # "none" => tasks'[r][p].result = tasks[r][p].result
        BY <3>1, <3>4 DEF Returned
      <4> QED
        BY <4>1 DEF Troubled, Goal
    <3> QED
      BY <3>2, <3>3, <3>4
  <2>8. CASE Join(s, q)
    <3>1. \E x : /\ Moves(s, q, x)
                 /\ x.result = IF tasks[s][q].result = "none" THEN "ok" ELSE tasks[s][q].result
      BY <1>0, <2>8, JoinIs
    <3>2. tasks[s][q].pc = "join"
      BY <2>8 DEF Join
    <3> QED
      BY <1>3, <3>1, <3>2 DEF Troubled
  <2> QED
    BY <1>10, <2>1, <2>2, <2>3, <2>4, <2>5, <2>6, <2>7, <2>8 DEF Task
<1>11. ~Crash
  BY <1>5 DEF Crash
<1>12. UNCHANGED vars => Goal
  BY <1>2 DEF vars, serving
<1>13. Goal
  BY <1>6, <1>7, <1>8, <1>9, <1>10, <1>11, <1>12 DEF Next
<1> QED
  BY <1>13 DEF Goal

\* What a step does to a request that is there before and after it.
LEMMA RequestGoesOn ==
  ASSUME Typed, [Next]_vars, NEW r \in Requests, Active(r), requests'[r] # NoRequest
  PROVE  requests'[r] = requests[r] \/ GoesOn(r, requests'[r])
<1>1. RequestMoves
  BY RequestsMove
<1> QED
  BY <1>1 DEF RequestMoves, Asks, Arises, Ends, Active

LEMMA DoomedStays ==
  ASSUME Typed, [Next]_vars, NEW r \in Requests, Active(r), Doomed(r), requests'[r] # NoRequest
  PROVE  Doomed(r)'
<1>1. requests'[r] = requests[r] \/ GoesOn(r, requests'[r])
  BY RequestGoesOn
<1>2. RequestOk(requests[r]) /\ requests[r] \in RequestSet
  BY NoRequestIs DEF Typed, ServedInv, Served, Serves, Active, RequestOk
<1>3. CASE requests[r].gone
  BY <1>1, <1>3 DEF GoesOn, Doomed
<1>4. CASE requests[r].result \in {"failed", "await"}
  <2>1. requests[r].pc \in {"persist", "delete", "cleanup"}
    BY <1>2, <1>4 DEF RequestOk, RequestSet
  <2>2. requests'[r].result = requests[r].result
    BY <1>1, <2>1 DEF GoesOn
  <2> QED
    BY <1>4, <2>2 DEF Doomed
<1>5. CASE \E p \in Paths : Troubled(tasks[r][p])
  <2>1. requests'[r].result \in {"failed", "await"} \/ \E q \in Paths : Troubled(tasks'[r][q])
    BY <1>5, TroubleStays
  <2> QED
    BY <2>1 DEF Doomed, Troubled
<1> QED
  BY <1>3, <1>4, <1>5 DEF Doomed

\* A goroutine whose context is done belongs to a request that is doomed.
LEMMA CancelledIsDoomed ==
  ASSUME ServedInv, NEW r \in Requests, NEW p \in Paths, tasks[r][p].cancelled PROVE Doomed(r)
<1>1. Tree(tasks[r], requests[r].gone)
  BY DEF ServedInv, Served, Serves
<1>2. CASE requests[r].gone
  BY <1>2 DEF Doomed
<1>3. CASE \E q \in Paths : IsStrictPrefix(q, p) /\ tasks[r][q].result # "none"
  <2>1. PICK q \in Paths : IsStrictPrefix(q, p) /\ tasks[r][q].result # "none"
    BY <1>3
  <2>2. tasks[r][p] # NoTask
    BY NoTaskIs
  <2>3. tasks[r][q].pc = "join" /\ TaskOk(tasks[r][q])
    BY <1>1, <2>1, <2>2 DEF Tree
  <2>4. tasks[r][q].result \in {"failed", "await"}
    BY <2>1, <2>3 DEF TaskOk, ResultsAt
  <2> QED
    BY <2>4 DEF Doomed, Troubled
<1> QED
  BY <1>1, <1>2, <1>3 DEF Tree

\* A script ends with SUCCESS recorded, or in trouble.
LEMMA WorkEnds ==
  ASSUME Typed, [Next]_vars, budget'.faults = 0, NEW r \in Requests, NEW p \in Paths, NEW n \in Nodes,
         AtWork(r, p, n), requests'[r] # NoRequest
  PROVE  AtWork(r, p, n)' \/ Doomed(r)' \/ nodeState'[Run(r)][n] = "SUCCESS"
<1> DEFINE Goal == AtWork(r, p, n)' \/ Doomed(r)' \/ nodeState'[Run(r)][n] = "SUCCESS"
<1>0. ServedInv /\ BudgetTyped
  BY DEF Typed, ServedInv
<1>1. /\ tasks[r][p].pc = "sandbox" /\ tasks[r][p].node = n /\ Active(r)
      /\ requests[r].pc = "running" /\ Run(r) \in Runs
  BY <1>0, Running, NoRequestIs DEF AtWork, ServedInv, Active
<1>2. tasks'[r][p].pc = "sandbox" /\ tasks'[r][p].node = n => Goal
  BY DEF AtWork
<1>3. ASSUME NEW s \in Requests, NEW q \in Paths, NEW x, Moves(s, q, x), s # r \/ q # p
      PROVE  Goal
  BY <1>1, <1>2, <1>3 DEF Moves
<1>4. ASSUME NEW x, Moves(r, p, x), Troubled(x) PROVE Goal
  BY <1>4 DEF Moves, Doomed, Troubled
<1>5. tasks[r][p].cancelled => Goal
  BY <1>0, <1>1, CancelledIsDoomed, DoomedStays
<1>6. tasks' = tasks => Goal
  BY <1>1, <1>2
<1>7. ASSUME ProcessDies PROVE FALSE
  BY <1>7 DEF ProcessDies
<1> HIDE DEF Goal
<1>8. ASSUME NEW s \in Requests, NEW run \in Runs, ExecuteBegin(s, run) \/ SubmitFeedback(s, run)
      PROVE  Goal
  BY <1>6, <1>8 DEF ExecuteBegin, SubmitFeedback
<1>9. ASSUME NEW s \in Requests, Serve(s) PROVE Goal
  <2>1. CASE ExecuteCounters(s) \/ ResumeCounters(s)
    <3>1. requests[s].pc = "counters" /\ \E x : Moves(s, Root, x)
      BY <1>0, <2>1, CountersIs
    <3> QED
      BY <1>1, <1>3, <3>1, RootPath
  <2>2. CASE ReturnFromRoot(s)
    <3>1. /\ Moves(s, Root, NoTask) /\ \A q \in Paths : q # Root => tasks[s][q] = NoTask
          /\ tasks[s][Root].pc = "return"
      BY <1>0, <2>2, ReturnFromRootIs
    <3> QED
      BY <1>1, <1>3, <3>1, RootPath, NoTaskIs
  <2>3. CASE Persist(s) \/ ResumeDelete(s) \/ Cleanup(s)
    BY <1>6, <2>3 DEF Persist, ResumeDelete, Cleanup
  <2> QED
    BY <1>9, <2>1, <2>2, <2>3 DEF Serve
<1>10. ASSUME NEW s \in Requests, FeedbackAbandoned(s) PROVE Goal
  BY <1>6, <1>10 DEF FeedbackAbandoned
<1>11. ASSUME NEW s \in Requests, Disconnect(s) PROVE Goal
  <2>1. tasks'[r][p].pc = tasks[r][p].pc /\ tasks'[r][p].node = tasks[r][p].node
    BY <1>0, <1>11, DisconnectIs
  <2> QED
    BY <1>1, <1>2, <2>1
<1>12. ASSUME NEW s \in Requests, NEW q \in Paths, Task(s, q) PROVE Goal
  <2>1. CASE EnterNode(s, q)
    <3>1. PICK x : Enters(s, q, x)
      BY <1>0, <2>1, EnterNodeIs
    <3> QED
      BY <1>1, <1>3, <3>1 DEF Enters
  <2>2. CASE ScriptFails(s, q)
    <3>1. \E x : Moves(s, q, x) /\ Troubled(x)
      BY <1>0, <2>2, ScriptFailsIs DEF Troubled
    <3> QED
      BY <1>3, <1>4, <3>1
  <2>3. CASE ScriptReturns(s, q)
    <3>1. PICK x \in TaskSet, lost \in BOOLEAN : Outputs(s, q, x, lost)
      BY <1>0, <2>3, ScriptReturnsIs
    <3>2. CASE s # r \/ q # p
      BY <1>3, <3>1, <3>2 DEF Outputs
    <3>3. CASE s = r /\ q = p /\ x.pc # "resolve"
      BY <1>4, <3>1, <3>3 DEF Outputs, Troubled
    <3>4. CASE s = r /\ q = p /\ x.pc = "resolve"
      <4>1. /\ Write(tasks[r][p].cancelled, lost)
            /\ Noted(Run(r), n, "SUCCESS", lost)
        BY <1>1, <3>1, <3>4 DEF Outputs
      <4>2. lost => tasks[r][p].cancelled
        BY <1>0, <4>1 DEF Write, BudgetTyped
      <4>3. ~lost => nodeState'[Run(r)][n] = "SUCCESS"
        BY <1>1, <4>1 DEF Noted
      <4> QED
        BY <1>5, <4>2, <4>3 DEF Goal
    <3> QED
      BY <3>2, <3>3, <3>4
  <2>4. CASE PauseHITL(s, q) \/ PauseRun(s, q) \/ Join(s, q)
    <3>1. tasks[s][q].pc \in {"pauseHITL", "pauseRun", "join"} /\ \E x : Moves(s, q, x)
      BY <1>0, <2>4, PauseHITLIs, PauseRunIs, JoinIs
    <3> QED
      BY <1>1, <1>3, <3>1
  <2>5. CASE Resolve(s, q)
    <3>1. tasks[s][q].pc = "resolve"
      BY <1>0, <2>5, ResolveIs
    <3>2. PICK x : Looks(s, q, x)
      BY <1>0, <1>7, <2>5, ResolveIs
    <3> QED
      BY <1>1, <1>3, <3>1, <3>2 DEF Looks
  <2>6. CASE Follow(s, q)
    <3>1. /\ tasks[s][q].pc = "resolve"
          /\ (\E x : Moves(s, q, x)) \/ (\E x : Forks(s, q, x))
      BY <1>0, <2>6, FollowIs
    <3>2. ASSUME NEW x, Forks(s, q, x) PROVE Goal
      BY <1>1, <1>2, <3>1, <3>2, NoTaskIs DEF Forks
    <3> QED
      BY <1>1, <1>3, <3>1, <3>2
  <2>7. CASE ReturnFromBranch(s, q)
    <3>1. Returned(s, q)
      BY <1>0, <2>7, ReturnFromBranchIs
    <3>2. tasks'[r][p].pc = tasks[r][p].pc /\ tasks'[r][p].node = tasks[r][p].node
      BY <1>1, <3>1 DEF Returned
    <3> QED
      BY <1>1, <1>2, <3>2
  <2> QED
    BY <1>12, <2>1, <2>2, <2>3, <2>4, <2>5, <2>6, <2>7 DEF Task
<1>13. ~Crash
  BY <1>7 DEF Crash
<1>14. UNCHANGED vars => Goal
  BY <1>6 DEF vars, serving
<1>15. Goal
  BY <1>8, <1>9, <1>10, <1>11, <1>12, <1>13, <1>14 DEF Next
<1> QED
  BY <1>15 DEF Goal

\* Whoever records anything but SUCCESS for a node is at work on it, or in trouble.
LEMMA NodeChanges ==
  ASSUME Typed, [Next]_vars, NEW run \in Runs, NEW n \in Nodes,
         nodeState'[run][n] # nodeState[run][n]
  PROVE  \E r \in Requests :
            /\ Run(r) = run /\ requests[r].pc = "running"
            /\ requests' = requests /\ flowRun' = flowRun
            /\ nodeState'[run][n] = "SUCCESS" \/ Doomed(r)' \/ \E p \in Paths : AtWork(r, p, n)'
<1> DEFINE Goal == \E r \in Requests :
                      /\ Run(r) = run /\ requests[r].pc = "running"
                      /\ requests' = requests /\ flowRun' = flowRun
                      /\ \/ nodeState'[run][n] = "SUCCESS" \/ Doomed(r)'
                         \/ \E p \in Paths : AtWork(r, p, n)'
<1>0. ServedInv
  BY DEF Typed
<1>1. nodeState' # nodeState
  OBVIOUS
<1>2. ASSUME NEW r \in Requests, NEW p \in Paths, tasks[r][p].pc # "none", NEW x, Moves(r, p, x),
             Run(r) = run,
             nodeState'[run][n] = "SUCCESS" \/ Troubled(x) \/ (x.pc = "sandbox" /\ x.node = n),
             UNCHANGED <<requests, flowRun>>
      PROVE  Goal
  <2>1. requests[r].pc = "running"
    BY <1>0, <1>2, Running DEF ServedInv
  <2>2. nodeState'[run][n] = "SUCCESS" \/ Doomed(r)' \/ AtWork(r, p, n)'
    BY <1>2 DEF Moves, Doomed, AtWork, Troubled
  <2> QED
    BY <1>2, <2>1, <2>2
<1> HIDE DEF Goal
<1>3. ASSUME NEW r \in Requests, NEW p \in Paths, Task(r, p) PROVE Goal
  <2>1. CASE EnterNode(r, p)
    <3>1. PICK x : Enters(r, p, x)
      BY <1>0, <2>1, EnterNodeIs
    <3>2. /\ tasks[r][p].pc = "enter" /\ Moves(r, p, x)
          /\ Run(r) = run /\ (Troubled(x) \/ (x.pc = "sandbox" /\ x.node = n))
      BY <1>1, <3>1 DEF Enters, Stays, Troubled, Noted
    <3>3. UNCHANGED <<requests, flowRun>>
      BY <2>1 DEF EnterNode
    <3> QED
      BY <1>2, <3>2, <3>3
  <2>2. CASE ScriptFails(r, p)
    <3>1. /\ tasks[r][p].pc = "sandbox" /\ Run(r) = run
          /\ \E x : Moves(r, p, x) /\ Troubled(x)
      BY <1>0, <2>2, ScriptFailsIs DEF Troubled, Noted
    <3>2. UNCHANGED <<requests, flowRun>>
      BY <2>2 DEF ScriptFails
    <3> QED
      BY <1>2, <3>1, <3>2
  <2>3. CASE ScriptReturns(r, p)
    <3>1. PICK x, lost : Outputs(r, p, x, lost)
      BY <1>0, <2>3, ScriptReturnsIs
    <3>2. /\ tasks[r][p].pc = "sandbox" /\ Moves(r, p, x) /\ Run(r) = run
          /\ nodeState'[run][n] = "SUCCESS" \/ Troubled(x)
      BY <3>1 DEF Outputs, Troubled, Noted
    <3>3. UNCHANGED <<requests, flowRun>>
      BY <2>3 DEF ScriptReturns
    <3> QED
      BY <1>2, <3>2, <3>3
  <2>4. ~PauseHITL(r, p) /\ ~PauseRun(r, p)
    BY <1>1 DEF PauseHITL, PauseRun
  <2>5. ~Resolve(r, p) /\ ~Follow(r, p) /\ ~ReturnFromBranch(r, p) /\ ~Join(r, p)
    BY <1>1 DEF Resolve, ProcessDies, Follow, ReturnFromBranch, Join, redis
  <2> QED
    BY <1>3, <2>1, <2>2, <2>3, <2>4, <2>5 DEF Task
<1>4. \A r \in Requests, u \in Runs : ~ExecuteBegin(r, u) /\ ~SubmitFeedback(r, u)
  BY <1>1 DEF ExecuteBegin, SubmitFeedback, redis
<1>5. \A r \in Requests : ~Serve(r) /\ ~FeedbackAbandoned(r) /\ ~Disconnect(r)
  BY <1>1 DEF Serve, ExecuteCounters, ResumeCounters, ReturnFromRoot, Persist, ResumeDelete,
              Cleanup, FeedbackAbandoned, Disconnect, redis
<1>6. ~Crash /\ ~UNCHANGED vars
  BY <1>1 DEF Crash, ProcessDies, vars, redis
<1>7. Goal
  BY <1>3, <1>4, <1>5, <1>6 DEF Next
<1> QED
  BY <1>7 DEF Goal

\* A run is recorded as SUCCESS at the end of a request that returned "ok", and whose
\* client has waited for the answer.
LEMMA RunSucceeds ==
  ASSUME Typed, [Next]_vars, NEW run \in Runs, flowRun[run] # "SUCCESS", flowRun'[run] = "SUCCESS"
  PROVE  \E r \in Requests :
            /\ Run(r) = run /\ requests[r].pc = "persist"
            /\ requests[r].result = "ok" /\ ~requests[r].gone
            /\ requests'[r].pc = IF requests[r].kind = "resume" THEN "delete" ELSE "cleanup"
            /\ requests'[r] # NoRequest /\ tasks' = tasks
<1>0. ServedInv
  BY DEF Typed
<1>1. flowRun' # flowRun
  OBVIOUS
<1>2. ASSUME NEW r \in Requests, Persist(r)
      PROVE  /\ Run(r) = run /\ requests[r].result = "ok" /\ ~requests[r].gone
             /\ requests[r].pc = "persist" /\ tasks' = tasks
             /\ requests'[r].pc = IF requests[r].kind = "resume" THEN "delete" ELSE "cleanup"
             /\ requests'[r] # NoRequest
  <2>1. PICK lost \in BOOLEAN :
           /\ Write(requests[r].gone, lost)
           /\ Recorded(Run(r), IF requests[r].result = "ok" THEN "SUCCESS" ELSE "FAILED", lost)
    BY <1>0, <1>2, PersistIs
  <2>2. requests[r].pc = "persist" /\ tasks' = tasks
    BY <1>2 DEF Persist
  <2>3. \E y : /\ Asks(r, y) /\ Keeps(requests[r], y)
               /\ y.pc = IF requests[r].kind = "resume" THEN "delete" ELSE "cleanup"
    BY <1>0, <1>2, PersistIs
  <2>4. /\ requests'[r].pc = IF requests[r].kind = "resume" THEN "delete" ELSE "cleanup"
        /\ requests'[r] # NoRequest
    BY <2>3, NoRequestIs DEF Asks, Keeps
  <2> QED
    BY <2>1, <2>2, <2>4 DEF Recorded, Write
<1>3. \A r \in Requests, u \in Runs : ~ExecuteBegin(r, u) /\ ~SubmitFeedback(r, u)
  <2>1. ASSUME NEW r \in Requests, NEW u \in Runs, ExecuteBegin(r, u) PROVE FALSE
    BY <1>0, <2>1, ExecuteBeginIs DEF Recorded
  <2> QED
    BY <1>1, <2>1 DEF SubmitFeedback, redis
<1>4. \A r \in Requests : Serve(r) => Persist(r)
  BY <1>1 DEF Serve, ExecuteCounters, ResumeCounters, ReturnFromRoot, ResumeDelete, Cleanup, redis
<1>5. \A r \in Requests : ~FeedbackAbandoned(r) /\ ~Disconnect(r)
  BY <1>1 DEF FeedbackAbandoned, Disconnect, redis
<1>6. \A r \in Requests, p \in Paths : ~Task(r, p)
  <2> SUFFICES ASSUME NEW r \in Requests, NEW p \in Paths, Task(r, p) PROVE FALSE
    OBVIOUS
  <2>1. ASSUME PauseRun(r, p) PROVE FALSE
    BY <1>0, <2>1, PauseRunIs
  <2>2. ~EnterNode(r, p) /\ ~ScriptFails(r, p) /\ ~ScriptReturns(r, p) /\ ~PauseHITL(r, p)
    BY <1>1 DEF EnterNode, ScriptFails, ScriptReturns, PauseHITL
  <2>3. ~Resolve(r, p) /\ ~Follow(r, p) /\ ~ReturnFromBranch(r, p) /\ ~Join(r, p)
    BY <1>1 DEF Resolve, ProcessDies, Follow, ReturnFromBranch, Join, redis
  <2> QED
    BY <2>1, <2>2, <2>3 DEF Task
<1>7. ~Crash /\ ~UNCHANGED vars
  BY <1>1 DEF Crash, ProcessDies, vars, redis
<1>8. \E r \in Requests : Persist(r)
  BY <1>3, <1>4, <1>5, <1>6, <1>7 DEF Next
<1> QED
  BY <1>2, <1>8

----------------------------------------------------------------------------
(* Success *)

\* Only one request ever executes a run; whatever is known of the run was written
\* after its counters were made.
OneExecution ==
    /\ \A r, s \in Requests :
          requests[r].kind = "execute" /\ requests[s].kind = "execute" /\ Run(r) = Run(s) => r = s
    /\ \A r \in Requests : requests[r].pc \notin {"none", "counters"} => makes[Run(r)] > 0
    /\ \A run \in Runs : makes[run] = 0 => \A n \in Nodes : nodeState[run][n] = "none"

\* A request that goes on after a pause has been given feedback.
AnswersKept ==
    \A r \in Requests :
        requests[r].kind = "resume" /\ requests[r].pc # "counters" => answered[Run(r)] # {}

\* The request that records SUCCESS is done with the run.
SuccessLast ==
    \A r \in Requests :
        /\ requests[r].kind = "execute"
        /\ flowRun[Run(r)] = "SUCCESS" /\ answered[Run(r)] = {}
        => requests[r].pc = "cleanup"

\* A node without SUCCESS is still being worked on, or keeps its run from SUCCESS.
Accounted(run, n) ==
    \/ nodeState[run][n] \in {"none", "SUCCESS"}
    \/ /\ flowRun[run] # "SUCCESS"
       /\ \A r \in Requests : requests[r].kind = "execute" /\ Run(r) = run =>
             Doomed(r) \/ \E p \in Paths : AtWork(r, p, n)

SuccessInv ==
    /\ OneExecution /\ AnswersKept /\ SuccessLast
    /\ budget.faults = 0 => \A run \in Runs, n \in Nodes : answered[run] = {} => Accounted(run, n)

LEMMA SuccessInit == Init => SuccessInv
BY NoRequestIs DEF Init, SuccessInv, OneExecution, AnswersKept, SuccessLast, Accounted, Run, NoRequest

LEMMA OneExecutionStep ==
  ASSUME Typed, OneExecution, [Next]_vars PROVE OneExecution'
<1>0. /\ RequestMoves
      /\ \A run \in Runs : makes'[run] >= makes[run] /\ makes[run] \in Nat /\ makes'[run] \in Nat
  BY RequestsMove, HistoryGrows, TypedStep DEF Grows, Typed, CountersInv, CountersTyped
<1>1. ASSUME NEW run \in Runs, makes'[run] = 0, NEW n \in Nodes PROVE nodeState'[run][n] = "none"
  <2>1. makes[run] = 0 /\ nodeState[run][n] = "none"
    BY <1>0, <1>1 DEF OneExecution
  <2>2. \A r \in Requests : Run(r) = run => requests[r].pc # "running"
    BY <2>1 DEF OneExecution
  <2>3. nodeState'[run][n] = nodeState[run][n]
    BY <2>2, NodeChanges
  <2> QED
    BY <2>1, <2>3
<1>2. ASSUME NEW r \in Requests, requests'[r].pc \notin {"none", "counters"}
      PROVE  makes'[requests'[r].run] > 0
  <2>1. Active(r) /\ requests'[r] # NoRequest
    BY <1>0, <1>2, NoRequestIs DEF RequestMoves, Asks, Arises, GoesOn, Ends, Active
  <2>2. requests'[r].run = Run(r) /\ Run(r) \in Runs
    BY <2>1, RequestGoesOn, NoRequestIs DEF GoesOn, Run, Active, Typed, ServedInv, Served, RequestSet
  <2>3. makes'[Run(r)] > 0 \/ requests[r].pc \notin {"none", "counters"}
    BY <1>2, <2>1, RequestGoesOn DEF GoesOn
  <2> QED
    BY <1>0, <2>2, <2>3 DEF OneExecution
<1>3. ASSUME NEW r \in Requests, NEW s \in Requests, requests'[r].kind = "execute",
             requests'[s].kind = "execute", requests'[r].run = requests'[s].run
      PROVE  r = s
  <2>1. CASE requests' = requests
    BY <1>3, <2>1 DEF OneExecution, Run
  <2>2. CASE \A o \in Requests : requests'[o] = NoRequest
    BY <1>3, <2>2, NoRequestIs
  <2>3. ASSUME NEW o \in Requests, NEW y, Asks(o, y), Arises(o, y) PROVE r = s
    <3>1. \A q \in Requests : requests'[q] = IF q = o THEN y ELSE requests[q]
      BY <2>3 DEF Asks
    <3>2. y.kind = "execute" => \A q \in Requests : Run(q) # y.run
      BY <2>3 DEF Arises, Idle, Run
    <3> QED
      BY <1>3, <3>1, <3>2 DEF OneExecution, Run
  <2>4. ASSUME NEW o \in Requests, NEW y, Asks(o, y), GoesOn(o, y) PROVE r = s
    <3>1. \A q \in Requests : requests'[q].kind = requests[q].kind /\ requests'[q].run = Run(q)
      BY <2>4 DEF Asks, GoesOn, Run
    <3> QED
      BY <1>3, <3>1 DEF OneExecution
  <2>5. ASSUME NEW o \in Requests, NEW y, Asks(o, y), Ends(o, y) PROVE r = s
    BY <1>3, <2>5, NoRequestIs DEF Asks, Ends, OneExecution, Run
  <2> QED
    BY <1>0, <2>1, <2>2, <2>3, <2>4, <2>5 DEF RequestMoves
<1> QED
  BY <1>1, <1>2, <1>3 DEF OneExecution, Run

LEMMA AnswersKeptStep ==
  ASSUME Typed, AnswersKept, [Next]_vars PROVE AnswersKept'
<1> SUFFICES ASSUME NEW r \in Requests, requests'[r].kind = "resume", requests'[r].pc # "counters"
             PROVE  answered'[requests'[r].run] # {}
  BY DEF AnswersKept, Run
<1>1. Active(r) /\ requests'[r] # NoRequest
  BY RequestsMove, NoRequestIs DEF RequestMoves, Asks, Arises, GoesOn, Ends, Active
<1>2. /\ requests'[r].run = Run(r) /\ Run(r) \in Runs /\ requests[r].kind = "resume"
      /\ answered'[Run(r)] # {} \/ requests[r].pc # "counters"
  BY <1>1, RequestGoesOn, NoRequestIs DEF GoesOn, Run, Active, Typed, ServedInv, Served, RequestSet
<1>3. answered[Run(r)] \subseteq answered'[Run(r)]
  BY <1>2, HistoryGrows DEF Grows
<1> QED
  BY <1>2, <1>3 DEF AnswersKept

LEMMA SuccessLastStep ==
  ASSUME Typed, OneExecution, AnswersKept, SuccessLast, [Next]_vars PROVE SuccessLast'
<1> SUFFICES ASSUME NEW r \in Requests, requests'[r].kind = "execute",
                    flowRun'[requests'[r].run] = "SUCCESS", answered'[requests'[r].run] = {}
             PROVE  requests'[r].pc = "cleanup"
  BY DEF SuccessLast, Run
<1> DEFINE run == requests'[r].run
<1>1. requests'[r] # NoRequest /\ RequestMoves
  BY RequestsMove, NoRequestIs
<1>2. CASE ~Active(r)
  BY <1>1, <1>2 DEF RequestMoves, Asks, Arises, GoesOn, Ends, Active, NoRequest, RequestSet
<1>3. CASE Active(r)
  <2>1. /\ requests'[r] = requests[r] \/ GoesOn(r, requests'[r])
        /\ requests'[r].kind = requests[r].kind /\ run = Run(r) /\ run \in Runs
    BY <1>1, <1>3, RequestGoesOn, NoRequestIs DEF GoesOn, Run, Active, Typed, ServedInv, Served, RequestSet
  <2>2. answered[run] = {}
    BY <2>1, HistoryGrows DEF Grows
  <2>3. CASE flowRun[run] = "SUCCESS"
    BY <2>1, <2>2, <2>3 DEF SuccessLast, GoesOn
  <2>4. CASE flowRun[run] # "SUCCESS"
    <3>1. PICK s \in Requests : /\ Run(s) = run /\ requests[s].pc = "persist"
                                /\ requests'[s].pc = IF requests[s].kind = "resume" THEN "delete" ELSE "cleanup"
      BY <2>1, <2>4, RunSucceeds
    <3>2. requests[s].kind = "execute"
      BY <2>2, <3>1, Busy DEF AnswersKept, Typed, ServedInv
    <3>3. s = r
      BY <2>1, <3>1, <3>2 DEF OneExecution
    <3> QED
      BY <3>1, <3>2, <3>3
  <2> QED
    BY <2>3, <2>4
<1> QED
  BY <1>2, <1>3

LEMMA AccountedStep ==
  ASSUME Typed, SuccessInv, [Next]_vars, budget'.faults = 0,
         NEW run \in Runs, NEW n \in Nodes, answered'[run] = {}
  PROVE  Accounted(run, n)'
<1>0. OneExecution /\ AnswersKept /\ SuccessLast /\ ServedInv
  BY DEF SuccessInv, Typed
<1>1. /\ budget.faults = 0 /\ answered[run] = {} /\ Accounted(run, n)
  <2>1. budget'.faults >= budget.faults /\ budget.faults \in Nat
    BY <1>0, BudgetStep DEF ServedInv, BudgetTyped
  <2>2. answered[run] = {}
    BY HistoryGrows DEF Grows
  <2> QED
    BY <2>1, <2>2 DEF SuccessInv
\* Each request that executes the run is doomed, at work, or has recorded SUCCESS.
<1> DEFINE Spoils(r) == Doomed(r) \/ \E p \in Paths : AtWork(r, p, n)
<1>2. ASSUME NEW r \in Requests, Active(r), Run(r) = run, Spoils(r), requests'[r] # NoRequest
      PROVE  Spoils(r)' \/ nodeState'[run][n] = "SUCCESS"
  <2>1. CASE Doomed(r)
    BY <1>2, <2>1, DoomedStays
  <2>2. CASE \E p \in Paths : AtWork(r, p, n)
    BY <1>2, <2>2, WorkEnds
  <2> QED
    BY <1>2, <2>1, <2>2
<1> HIDE DEF Spoils
<1>3. CASE nodeState'[run][n] \in {"none", "SUCCESS"}
  BY <1>3 DEF Accounted
<1>4. CASE /\ nodeState'[run][n] \notin {"none", "SUCCESS"}
           /\ nodeState'[run][n] # nodeState[run][n]
  <2>1. PICK r \in Requests : /\ Run(r) = run /\ requests[r].pc = "running"
                              /\ requests' = requests /\ flowRun' = flowRun /\ Spoils(r)'
    BY <1>4, NodeChanges DEF Spoils
  <2>2. requests[r].kind = "execute"
    BY <1>0, <1>1, <2>1, Busy DEF AnswersKept, ServedInv
  <2>3. flowRun[run] # "SUCCESS"
    BY <1>0, <1>1, <2>1, <2>2 DEF SuccessLast
  <2>4. \A s \in Requests : requests'[s].kind = "execute" /\ requests'[s].run = run => s = r
    BY <1>0, <2>1, <2>2 DEF OneExecution, Run
  <2> QED
    BY <2>1, <2>3, <2>4 DEF Accounted, Spoils, Run
<1>5. CASE /\ nodeState[run][n] \notin {"none", "SUCCESS"}
           /\ nodeState'[run][n] = nodeState[run][n]
  <2>1. /\ flowRun[run] # "SUCCESS"
        /\ \A r \in Requests : requests[r].kind = "execute" /\ Run(r) = run => Spoils(r)
    BY <1>1, <1>5 DEF Accounted, Spoils
  <2>2. flowRun'[run] # "SUCCESS"
    <3> SUFFICES ASSUME flowRun'[run] = "SUCCESS" PROVE FALSE
      OBVIOUS
    <3>1. PICK r \in Requests : /\ Run(r) = run /\ requests[r].pc = "persist"
                                /\ requests[r].result = "ok" /\ ~requests[r].gone
      BY <2>1, RunSucceeds
    <3>2. Spoils(r)
      BY <1>0, <1>1, <2>1, <3>1, Busy DEF AnswersKept, ServedInv
    <3>3. \A p \in Paths : tasks[r][p] = NoTask
      BY <1>0, <3>1 DEF ServedInv, Served, Serves, NoTasks
    <3> QED
      BY <3>1, <3>2, <3>3, NoTaskIs DEF Spoils, Doomed, Troubled, AtWork
  <2>3. ASSUME NEW r \in Requests, requests'[r].kind = "execute", requests'[r].run = run
        PROVE  Spoils(r)'
    <3>1. requests'[r] # NoRequest
      BY <2>3, NoRequestIs
    <3>2. CASE Active(r)
      <4>1. requests[r].kind = "execute" /\ Run(r) = run
        BY <2>3, <3>1, <3>2, RequestGoesOn DEF GoesOn, Run
      <4> QED
        BY <1>2, <1>5, <2>1, <3>1, <3>2, <4>1
    <3>3. CASE ~Active(r)
      <4>1. makes[run] = 0
        BY <2>3, <3>1, <3>3, RequestsMove
           DEF RequestMoves, Asks, Arises, GoesOn, Ends, Active, NoRequest, RequestSet
      <4> QED
        BY <1>0, <1>5, <4>1 DEF OneExecution
    <3> QED
      BY <3>2, <3>3
  <2> QED
    BY <2>2, <2>3 DEF Accounted, Spoils, Run
<1> QED
  BY <1>3, <1>4, <1>5

LEMMA SuccessStep == Typed /\ SuccessInv /\ [Next]_vars => SuccessInv'
<1> SUFFICES ASSUME Typed, SuccessInv, [Next]_vars PROVE SuccessInv'
  OBVIOUS
<1>1. OneExecution' /\ AnswersKept' /\ SuccessLast'
  BY OneExecutionStep, AnswersKeptStep, SuccessLastStep DEF SuccessInv
<1>2. budget'.faults = 0 => \A run \in Runs, n \in Nodes : answered'[run] = {} => Accounted(run, n)'
  BY AccountedStep
<1> QED
  BY <1>1, <1>2 DEF SuccessInv

\* As long as no pause of a run was answered and no write to Redis was lost, SUCCESS is
\* recorded only if every node that any branch entered has succeeded, however deep the
\* forks are, whichever branches meet, and whether clients go away or the process dies.
THEOREM NothingSwallowed == Spec => []SuccessMeansAllSucceeded
<1>1. SuccessInv => SuccessMeansAllSucceeded
  BY DEF SuccessInv, Accounted, SuccessMeansAllSucceeded
<1> QED
  BY <1>1, TypedInit, TypedStep, SuccessInit, SuccessStep, PTL DEF Spec

----------------------------------------------------------------------------
(* What is left between requests: a run seen by itself *)

\* What Redis and history know of a run, and whether it has forked.
RunOf(run) == [status   |-> flowRun[run],
               hitl     |-> hitl[run],
               nodes    |-> nodeState[run],
               followed |-> traversals[run],
               forks    |-> forked \intersect {run}]

RunTyped(u) ==
    /\ u.hitl \in HITLStates \union {NoHITL}
    /\ u.followed \in [Pairs -> Nat]

\* Node n of run u was reached, once or more than once.
Arrived(u, n) == n = Entry \/ \E k \in Nodes : u.followed[<<k, n>>] > 0
Reentered(u, n) ==
    \E k \in Nodes :
       /\ u.followed[<<k, n>>] > 0
       /\ n = Entry \/ u.followed[<<k, n>>] > 1
          \/ \E l \in Nodes \ {k} : u.followed[<<l, n>>] > 0

\* Met, Resumable and the three ways for a run to rest, of a run seen by itself.
MetAt(u, n) == u.forks # {} /\ Reentered(u, n)

CanResume(u) ==
    /\ u.hitl # NoHITL
    /\ \/ /\ u.hitl.runs[u.hitl.node].status = "WAITING_FEEDBACK"
          /\ u.nodes[u.hitl.node] = "WAITING_FEEDBACK"
       \/ MetAt(u, u.hitl.node)
    /\ u.forks # {} \/ \A n \in Nodes : u.hitl.runs[n].status # "RUNNING"

Concluded(u) ==
    \/ u.status = "SUCCESS" /\ u.hitl = NoHITL
    \/ u.status = "FAILED" /\ (u.forks # {} \/ u.hitl = NoHITL)
    \/ u.status = "WAITING_FEEDBACK" /\ CanResume(u)

\* Nodes have a state, and a pause a node, only where the run has been.
RunOk(u) ==
    /\ u.status = "none" => u.hitl = NoHITL /\ \A n \in Nodes : u.nodes[n] = "none"
    /\ \A n \in Nodes : u.nodes[n] # "none" => Arrived(u, n)
    /\ u.hitl # NoHITL => u.nodes[u.hitl.node] # "none"

\* Run w is run u some time later.
Furthers(u, w) == \A pair \in Pairs : w.followed[pair] >= u.followed[pair]

LEMMA StillReached ==
  ASSUME NEW u, NEW w, RunTyped(u), RunTyped(w), Furthers(u, w), NEW n \in Nodes
  PROVE  /\ Arrived(u, n) => Arrived(w, n)
         /\ Reentered(u, n) => Reentered(w, n)
<1>1. ASSUME NEW k \in Nodes
      PROVE  /\ u.followed[<<k, n>>] \in Nat /\ w.followed[<<k, n>>] \in Nat
             /\ w.followed[<<k, n>>] >= u.followed[<<k, n>>]
  <2>1. <<k, n>> \in Pairs
    BY DEF Pairs
  <2> QED
    BY <2>1 DEF RunTyped, Furthers
<1>2. ASSUME NEW k \in Nodes
      PROVE  /\ u.followed[<<k, n>>] > 0 => w.followed[<<k, n>>] > 0
             /\ u.followed[<<k, n>>] > 1 => w.followed[<<k, n>>] > 1
  BY <1>1
<1>3. Arrived(u, n) => Arrived(w, n)
  BY <1>2 DEF Arrived
<1>4. Reentered(u, n) => Reentered(w, n)
  BY <1>2 DEF Reentered
<1> QED
  BY <1>3, <1>4

\* A run that follows an edge reaches its end, once more if it has been there.
LEMMA ArrivesAgain ==
  ASSUME NEW u, NEW w, RunTyped(u), RunTyped(w), Furthers(u, w),
         NEW k \in Nodes, NEW n \in Nodes,
         w.followed[<<k, n>>] = u.followed[<<k, n>>] + 1
  PROVE  Arrived(w, n) /\ (Arrived(u, n) => Reentered(w, n))
<1>1. \A l \in Nodes : <<l, n>> \in Pairs
  BY DEF Pairs
<1>2. \A l \in Nodes : /\ u.followed[<<l, n>>] \in Nat /\ w.followed[<<l, n>>] \in Nat
                       /\ w.followed[<<l, n>>] >= u.followed[<<l, n>>]
  BY <1>1 DEF RunTyped, Furthers
<1>3. w.followed[<<k, n>>] > 0
  BY <1>2
<1>4. ASSUME Arrived(u, n) PROVE Reentered(w, n)
  <2>1. CASE n = Entry
    BY <1>3, <2>1 DEF Reentered
  <2>2. CASE n # Entry
    <3>1. PICK l \in Nodes : u.followed[<<l, n>>] > 0
      BY <1>4, <2>2 DEF Arrived
    <3>2. CASE l = k
      <4>1. w.followed[<<k, n>>] > 1
        BY <1>2, <3>1, <3>2
      <4> QED
        BY <1>3, <4>1 DEF Reentered
    <3>3. CASE l # k
      <4>1. w.followed[<<l, n>>] > 0
        BY <1>2, <3>1
      <4> QED
        BY <1>3, <3>3, <4>1 DEF Reentered
    <3> QED
      BY <3>2, <3>3
  <2> QED
    BY <2>1, <2>2
<1> QED
  BY <1>3, <1>4 DEF Arrived

----------------------------------------------------------------------------
(* Visits: who is about to run a node, or runs it *)

Turns == Branches \union {0}

\* Goroutine p is at node n (turn 0), or is to follow edge i to it.
Comes(t, p, i, n) ==
    IF i = 0 THEN t[p].pc \in {"enter", "sandbox", "pauseHITL"} /\ t[p].node = n
             ELSE i \in t[p].next /\ Edges[i].to = n

\* A goroutine whose node has begun.
Stands(x) == x.pc \in {"sandbox", "pauseHITL"}

\* Each visit of a node was paid for by an edge that was followed: where two of them
\* come together, or one comes to a node that was visited before, the run has
\* reentered the node.
VisitOk(t, u, p, i, n) ==
    /\ Arrived(u, n)
    /\ \A q \in Paths, j \in Turns : Comes(t, q, j, n) /\ (q # p \/ j # i) => Reentered(u, n)
    /\ u.hitl.node = n => Reentered(u, n)
    /\ u.nodes[n] # "none" => Reentered(u, n) \/ (i = 0 /\ Stands(t[p]))

VisitsOk(t, u) ==
    /\ \A p \in Paths, i \in Turns, n \in Nodes : Comes(t, p, i, n) => VisitOk(t, u, p, i, n)
    /\ \A p \in Paths : Stands(t[p]) => u.nodes[t[p].node] # "none"

\* What a goroutine that pauses has left behind, unless its context is done.
PauseOk(m, t, u, p) ==
    ~t[p].cancelled =>
       /\ t[p].pc = "pauseHITL" =>
             \/ /\ m[t[p].node].status = "WAITING_FEEDBACK"
                /\ u.nodes[t[p].node] = "WAITING_FEEDBACK"
             \/ MetAt(u, t[p].node)
       /\ t[p].pc = "pauseRun" => CanResume(u)
       /\ t[p].result = "await" => u.status = "WAITING_FEEDBACK" /\ CanResume(u)

\* The request has paused, on its own goroutine.
Waits(x, t) == t[Root].pc = "pauseRun" \/ t[Root].result = "await" \/ x.result = "await"

\* Without forks only one goroutine runs, and only one node.
ForksOk(x, m, t, u) ==
    /\ ~x.gone
    /\ \A p \in Paths : p # Root /\ t[p] # NoTask => u.forks # {}
    /\ u.forks # {} \/ \A n \in Nodes : m[n].status = "RUNNING" =>
          m[n].by = Root /\ t[Root].pc = "sandbox" /\ t[Root].node = n
    /\ x.kind = "execute" /\ u.hitl # NoHITL => u.forks # {} \/ Waits(x, t)

\* Where a request is in its run.
StageOk(x, m, u) ==
    /\ u.status # "none"
    /\ x.pc = "counters" =>
          /\ m = NoInstances
          /\ x.kind = "resume" => Concluded(u) /\ x.hitl = u.hitl
          /\ x.kind = "execute" => u.hitl = NoHITL /\ \A n \in Nodes : u.nodes[n] = "none"
    /\ u.forks = {} /\ x.pc \in {"counters", "running", "persist"} =>
          u.status \in {"RUNNING", "WAITING_FEEDBACK"}
    /\ x.pc = "delete" => u.status \in {"SUCCESS", "FAILED"}
    /\ x.pc = "cleanup" => Concluded(u)

\* Request x with its node instances m and goroutines t serves run u.
Orderly(x, m, t, u) ==
    /\ ForksOk(x, m, t, u) /\ StageOk(x, m, u) /\ VisitsOk(t, u) /\ RunOk(u)
    /\ \A p \in Paths : PauseOk(m, t, u, p)

\* A request in the middle of its run.
Before(x, m, t, u) ==
    /\ Serves(x, m, t) /\ RunTyped(u) /\ Orderly(x, m, t, u)
    /\ x \in RequestSet /\ x.pc = "running"

LEMMA TurnsAre == 0 \in Turns /\ 0 \notin Branches /\ \A i \in Branches : i \in Turns /\ i # 0
BY BranchesNat DEF Turns

\* Two goroutines at once mean that the run has forked.
LEMMA TwoFork ==
  ASSUME NEW x, NEW m, NEW t, NEW u, ForksOk(x, m, t, u),
         NEW p \in Paths, NEW q \in Paths, p # q, t[p] # NoTask, t[q] # NoTask
  PROVE  u.forks # {}
BY DEF ForksOk

\* The goroutines beside one that takes a step have left behind what they had.
LEMMA OthersWait ==
  ASSUME NEW x, NEW m, NEW t, NEW u, Before(x, m, t, u),
         NEW m2, NEW t2, NEW w, RunTyped(w), Furthers(u, w),
         NEW p \in Paths, NEW q \in Paths, p # q, t[p] # NoTask, t2[q] = t[q],
         u.forks # {} => w.forks # {},
         \A n \in Nodes : Comes(t, p, 0, n) \/ (m2[n] = m[n] /\ w.nodes[n] = u.nodes[n]),
         w.status = u.status \/ w.status = "WAITING_FEEDBACK",
         w.hitl = u.hitl \/ CanResume(w)
  PROVE  PauseOk(m2, t2, w, q)
<1>1. CASE t[q] = NoTask
  BY <1>1, NoTaskIs DEF PauseOk
<1>2. CASE t[q] # NoTask
  <2>1. u.forks # {} /\ w.forks # {}
    BY <1>2, TwoFork DEF Before, Orderly
  <2>2. t[q] \in TaskSet /\ t[q].node \in Nodes
    BY <1>2 DEF Before, Serves, Tree, TaskSet
  <2>3. VisitsOk(t, u) /\ PauseOk(m, t, u, q)
    BY DEF Before, Orderly
  <2>4. ASSUME CanResume(u) PROVE CanResume(w)
    <3>1. CASE w.hitl = u.hitl
      <4> DEFINE n == u.hitl.node
      <4>1. u.hitl \in HITLStates /\ n \in Nodes
        BY <2>4 DEF CanResume, Before, RunTyped, HITLStates
      <4>2. CASE Comes(t, p, 0, n)
        <5>1. Reentered(u, n)
          BY <2>3, <4>1, <4>2, TurnsAre DEF VisitsOk, VisitOk
        <5>2. Reentered(w, n)
          BY <4>1, <5>1, StillReached DEF Before
        <5> QED
          BY <2>1, <2>4, <3>1, <5>2 DEF CanResume, MetAt
      <4>3. CASE w.nodes[n] = u.nodes[n]
        <5>1. Reentered(u, n) => Reentered(w, n)
          BY <4>1, StillReached DEF Before
        <5> QED
          BY <2>1, <2>4, <3>1, <4>3, <5>1 DEF CanResume, MetAt
      <4> QED
        BY <4>1, <4>2, <4>3
    <3> QED
      BY <3>1
  <2>5. ASSUME t[q].pc = "pauseHITL", ~t[q].cancelled
        PROVE  \/ m2[t[q].node].status = "WAITING_FEEDBACK" /\ w.nodes[t[q].node] = "WAITING_FEEDBACK"
               \/ MetAt(w, t[q].node)
    <3> DEFINE n == t[q].node
    <3>1. Comes(t, q, 0, n)
      BY <2>5 DEF Comes
    <3>2. Reentered(u, n) => MetAt(w, n)
      BY <2>1, <2>2, StillReached DEF MetAt, Before
    <3>3. CASE Comes(t, p, 0, n)
      BY <2>2, <2>3, <3>1, <3>2, <3>3, TurnsAre DEF VisitsOk, VisitOk
    <3>4. CASE m2[n] = m[n] /\ w.nodes[n] = u.nodes[n]
      BY <2>3, <2>5, <3>2, <3>4 DEF PauseOk, MetAt
    <3> QED
      BY <2>2, <3>3, <3>4
  <2> QED
    BY <2>3, <2>4, <2>5 DEF PauseOk
<1> QED
  BY <1>1, <1>2

\* One goroutine takes a step: it may end its visit or turn to one more edge, and only
\* the state of the node it visits changes.
LEMMA VisitsGoOn ==
  ASSUME NEW x, NEW m, NEW t, NEW u, Before(x, m, t, u),
         NEW t2, NEW w, RunTyped(w), Furthers(u, w),
         NEW p \in Paths, NEW turn,
         \A q \in Paths : q # p => t2[q] = t[q],
         \A n \in Nodes : Comes(t, p, 0, n) \/ w.nodes[n] = u.nodes[n],
         \A n \in Nodes : u.nodes[n] # "none" => w.nodes[n] # "none",
         w.hitl # u.hitl => /\ Comes(t, p, 0, w.hitl.node)
                            /\ \A i \in Turns, n \in Nodes : ~Comes(t2, p, i, n),
         \A n \in Nodes : Comes(t2, p, 0, n) => Comes(t, p, 0, n) /\ Stands(t2[p]),
         \A i \in Branches, n \in Nodes : Comes(t2, p, i, n) =>
            /\ w.nodes[n] = u.nodes[n]
            /\ \/ Comes(t, p, i, n)
               \/ i = turn /\ Arrived(w, n) /\ (Arrived(u, n) => Reentered(w, n)),
         Stands(t2[p]) => w.nodes[t2[p].node] # "none"
  PROVE  VisitsOk(t2, w)
<1> DEFINE New(n) == Arrived(w, n) /\ (Arrived(u, n) => Reentered(w, n))
<1>0. VisitsOk(t, u) /\ RunOk(u) /\ RunTyped(u) /\ Tree(t, x.gone)
  BY DEF Before, Orderly, Serves
<1>1. ASSUME NEW q \in Paths, NEW i \in Turns, NEW n \in Nodes, Comes(t2, q, i, n)
      PROVE  Comes(t, q, i, n) \/ (q = p /\ i = turn /\ New(n))
  <2>1. CASE q # p
    BY <1>1, <2>1 DEF Comes
  <2>2. CASE q = p
    BY <1>1, <2>2 DEF Turns
  <2> QED
    BY <2>1, <2>2
<1>2. ASSUME NEW n \in Nodes
      PROVE  /\ Arrived(u, n) => Arrived(w, n)
             /\ Reentered(u, n) => Reentered(w, n)
  BY <1>0, StillReached
<1>3. ASSUME NEW q \in Paths, NEW i \in Turns, NEW n \in Nodes, Comes(t, q, i, n)
      PROVE  VisitOk(t, u, q, i, n) /\ Arrived(u, n)
  BY <1>0, <1>3 DEF VisitsOk, VisitOk
<1>4. ASSUME NEW q \in Paths, NEW i \in Turns, NEW n \in Nodes, Comes(t2, q, i, n)
      PROVE  VisitOk(t2, w, q, i, n)
  <2>1. Arrived(w, n)
    BY <1>1, <1>2, <1>3, <1>4
  <2>2. ASSUME NEW o \in Paths, NEW j \in Turns, Comes(t2, o, j, n), o # q \/ j # i
        PROVE  Reentered(w, n)
    <3>1. CASE Comes(t, q, i, n) /\ Comes(t, o, j, n)
      <4>1. Reentered(u, n)
        BY <1>3, <2>2, <3>1 DEF VisitOk
      <4> QED
        BY <1>2, <4>1
    <3>2. CASE Comes(t, q, i, n) /\ New(n)
      BY <1>3, <3>2
    <3>3. CASE Comes(t, o, j, n) /\ New(n)
      BY <1>3, <3>3
    <3> QED
      BY <1>1, <1>4, <2>2, <3>1, <3>2, <3>3
  <2>3. ASSUME w.hitl.node = n PROVE Reentered(w, n)
    <3>1. CASE w.hitl # u.hitl
      <4>1. q # p /\ Comes(t, p, 0, n)
        BY <1>4, <2>3, <3>1
      <4>2. Comes(t, q, i, n)
        BY <1>1, <1>4, <4>1
      <4>3. Reentered(u, n)
        BY <1>3, <4>1, <4>2, TurnsAre DEF VisitOk
      <4> QED
        BY <1>2, <4>3
    <3>2. CASE w.hitl = u.hitl
      <4>1. CASE Comes(t, q, i, n)
        BY <1>2, <1>3, <2>3, <3>2, <4>1 DEF VisitOk
      <4>2. CASE New(n)
        <5>1. u.hitl # NoHITL
          BY <2>3, <3>2, NoHITLIs, NamesAssumption
        <5>2. u.nodes[n] # "none"
          BY <1>0, <2>3, <3>2, <5>1 DEF RunOk
        <5> QED
          BY <1>0, <4>2, <5>2 DEF RunOk
      <4> QED
        BY <1>1, <1>4, <4>1, <4>2
    <3> QED
      BY <3>1, <3>2
  <2>4. ASSUME w.nodes[n] # "none", ~(i = 0 /\ Stands(t2[q])) PROVE Reentered(w, n)
    <3>1. CASE q # p
      <4>1. Comes(t, q, i, n) /\ t2[q] = t[q]
        BY <1>1, <1>4, <3>1
      <4>2. CASE Comes(t, p, 0, n)
        <5>1. Reentered(u, n)
          BY <1>3, <3>1, <4>1, <4>2, TurnsAre DEF VisitOk
        <5> QED
          BY <1>2, <5>1
      <4>3. CASE w.nodes[n] = u.nodes[n]
        BY <1>2, <1>3, <2>4, <4>1, <4>3 DEF VisitOk
      <4> QED
        BY <4>2, <4>3
    <3>2. CASE q = p
      <4>1. i \in Branches /\ w.nodes[n] = u.nodes[n]
        BY <1>4, <2>4, <3>2 DEF Turns
      <4>2. CASE Comes(t, p, i, n)
        BY <1>2, <1>3, <2>4, <4>1, <4>2, TurnsAre DEF VisitOk
      <4>3. CASE New(n)
        BY <1>0, <2>4, <4>1, <4>3 DEF RunOk
      <4> QED
        BY <1>1, <1>4, <3>2, <4>2, <4>3
    <3> QED
      BY <3>1, <3>2
  <2> QED
    BY <2>1, <2>2, <2>3, <2>4 DEF VisitOk
<1>5. ASSUME NEW q \in Paths, Stands(t2[q]) PROVE w.nodes[t2[q].node] # "none"
  <2>1. CASE q = p
    BY <1>5, <2>1
  <2>2. CASE q # p
    <3>1. t2[q] = t[q] /\ t[q] # NoTask
      BY <1>5, <2>2, NoTaskIs DEF Stands
    <3>2. t[q].node \in Nodes
      BY <1>0, <3>1 DEF Tree, TaskSet
    <3>3. u.nodes[t[q].node] # "none"
      BY <1>0, <1>5, <3>1 DEF VisitsOk
    <3> QED
      BY <3>1, <3>2, <3>3
  <2> QED
    BY <2>1, <2>2
<1> QED
  BY <1>4, <1>5 DEF VisitsOk

\* What the steps of one goroutine have in common: p steps on, and the state of the node
\* it visits may change.
StepsOn(t, u, m, p, m2, t2, w) ==
    /\ RunTyped(w) /\ Furthers(u, w) /\ t[p] # NoTask /\ w.forks = u.forks
    /\ \A q \in Paths : q # p => t2[q] = t[q]
    /\ \A n \in Nodes : Comes(t, p, 0, n) \/ (m2[n] = m[n] /\ w.nodes[n] = u.nodes[n])
    /\ \A n \in Nodes : u.nodes[n] # "none" => w.nodes[n] # "none"
    /\ w.status = u.status \/ w.status = "WAITING_FEEDBACK"
    /\ w.hitl # u.hitl => /\ CanResume(w) /\ Stands(t[p]) /\ Comes(t, p, 0, w.hitl.node)
                          /\ \A i \in Turns, n \in Nodes : ~Comes(t2, p, i, n)

LEMMA GoroutineStep ==
  ASSUME NEW x, NEW m, NEW t, NEW u, Before(x, m, t, u), NEW p \in Paths,
         NEW m2, NEW t2, NEW w, StepsOn(t, u, m, p, m2, t2, w),
         VisitsOk(t2, w), PauseOk(m2, t2, w, p),
         w.forks # {} \/ \A n \in Nodes : m2[n].status = "RUNNING" =>
            m2[n].by = Root /\ t2[Root].pc = "sandbox" /\ t2[Root].node = n,
         x.kind = "execute" /\ w.hitl # NoHITL => w.forks # {} \/ Waits(x, t2)
  PROVE  Orderly(x, m2, t2, w)
<1>0. /\ VisitsOk(t, u) /\ RunOk(u) /\ RunTyped(u) /\ RunTyped(w) /\ Furthers(u, w)
      /\ ForksOk(x, m, t, u) /\ StageOk(x, m, u) /\ x.pc = "running"
  BY DEF Before, Orderly, StepsOn
<1>1. ASSUME NEW q \in Paths PROVE PauseOk(m2, t2, w, q)
  <2>1. CASE q # p
    BY <2>1, OthersWait DEF StepsOn
  <2> QED
    BY <2>1
<1>2. ForksOk(x, m2, t2, w)
  <2>1. ASSUME NEW q \in Paths, q # Root, t2[q] # NoTask PROVE w.forks # {}
    BY <1>0, <2>1 DEF ForksOk, StepsOn
  <2> QED
    BY <1>0, <2>1 DEF ForksOk
<1>3. StageOk(x, m2, w)
  BY <1>0 DEF StageOk, StepsOn
<1>4. RunOk(w)
  <2>1. w.status # "none"
    BY <1>3 DEF StageOk
  <2>2. ASSUME NEW n \in Nodes, w.nodes[n] # "none" PROVE Arrived(w, n)
    <3>1. Arrived(u, n)
      <4>1. CASE Comes(t, p, 0, n)
        BY <1>0, <4>1, TurnsAre DEF VisitsOk, VisitOk
      <4>2. CASE w.nodes[n] = u.nodes[n]
        BY <1>0, <2>2, <4>2 DEF RunOk
      <4> QED
        BY <4>1, <4>2 DEF StepsOn
    <3> QED
      BY <1>0, <3>1, StillReached
  <2>3. ASSUME w.hitl # NoHITL PROVE w.nodes[w.hitl.node] # "none"
    <3>1. w.hitl.node \in Nodes
      BY <1>0, <2>3 DEF RunTyped, HITLStates
    <3>2. CASE w.hitl = u.hitl
      BY <1>0, <2>3, <3>1, <3>2 DEF RunOk, StepsOn
    <3>3. CASE w.hitl # u.hitl
      <4>1. Stands(t[p]) /\ t[p].node = w.hitl.node
        BY <3>3 DEF StepsOn, Comes
      <4>2. u.nodes[w.hitl.node] # "none"
        BY <1>0, <4>1 DEF VisitsOk
      <4> QED
        BY <3>1, <4>2 DEF StepsOn
    <3> QED
      BY <3>2, <3>3
  <2> QED
    BY <2>1, <2>2, <2>3 DEF RunOk
<1> QED
  BY <1>1, <1>2, <1>3, <1>4 DEF Orderly

LEMMA UndisturbedMeans ==
  ASSUME Typed
  PROVE  Undisturbed <=> budget.faults = 0 /\ budget.crashes = 0 /\ budget.disconnects = 0
BY DEF Typed, ServedInv, BudgetTyped, Undisturbed

\* What was undisturbed after a step was so before.
LEMMA CalmBefore ==
  ASSUME Typed, [Next]_vars, Undisturbed' PROVE Undisturbed
<1>2. budget'.faults = 0 /\ budget'.crashes = 0 /\ budget'.disconnects = 0
  BY DEF Undisturbed
<1>3. /\ budget'.faults >= budget.faults /\ budget'.crashes >= budget.crashes
      /\ budget'.disconnects >= budget.disconnects
  BY BudgetStep DEF Typed, ServedInv
<1> QED
  BY <1>2, <1>3, UndisturbedMeans DEF Typed, ServedInv, BudgetTyped

\* Then a write is lost if and only if the context of the writer is done.
LEMMA CalmWrite ==
  ASSUME Typed, NEW done \in BOOLEAN, NEW lost \in BOOLEAN, Write(done, lost), Undisturbed'
  PROVE  (done => lost) /\ (lost => done)
BY DEF Typed, ServedInv, BudgetTyped, Undisturbed, Write

\* A run moves on, and nothing else of it than what its parts say.
LEMMA RunMovesOn ==
  ASSUME Typed, [Next]_vars, NEW run \in Runs
  PROVE  /\ RunTyped(RunOf(run)) /\ RunTyped(RunOf(run)')
         /\ Furthers(RunOf(run), RunOf(run)')
<1>1. Typed'
  BY TypedStep
<1>2. RunTyped(RunOf(run))
  BY DEF Typed, ServedInv, RedisTyped, HITLTyped, CountersInv, CountersTyped, RunTyped, RunOf
<1>3. RunTyped(RunOf(run)')
  BY <1>1 DEF Typed, ServedInv, RedisTyped, HITLTyped, CountersInv, CountersTyped, RunTyped, RunOf
<1>4. Furthers(RunOf(run), RunOf(run)')
  BY HistoryGrows DEF Grows, Furthers, RunOf
<1> QED
  BY <1>2, <1>3, <1>4

----------------------------------------------------------------------------
(* Steps of goroutines in an undisturbed run *)

\* Unless the run has forked, the goroutine of the request is the only one.
LEMMA RootOnly ==
  ASSUME NEW x, NEW m, NEW t, NEW u, Before(x, m, t, u), NEW p \in Paths, t[p] # NoTask, u.forks = {}
  PROVE  p = Root /\ x.result = "none" /\ t[p] \in TaskSet /\ TaskOk(t[p])
BY NoTaskIs DEF Before, Orderly, ForksOk, Serves, RequestOk, Tree

LEMMA Standing ==
  ASSUME NEW x, NEW m, NEW t, NEW u, Before(x, m, t, u), NEW p \in Paths, t[p].pc # "none"
  PROVE  /\ t[p] # NoTask /\ t[p] \in TaskSet /\ TaskOk(t[p])
         /\ t[p].node \in Nodes /\ t[p].cancelled \in BOOLEAN
<1>1. t[p] # NoTask
  BY NoTaskIs
<1>2. t[p] \in TaskSet /\ TaskOk(t[p])
  BY <1>1 DEF Before, Serves, Tree
<1> QED
  BY <1>1, <1>2 DEF TaskSet

\* Only goroutine p changes.
OnlyTask(t, t2, p) == \A q \in Paths : q # p => t2[q] = t[q]

\* Of a run, at most the state of its nodes changes.
OnlyNodes(u, w) ==
    w.status = u.status /\ w.hitl = u.hitl /\ w.followed = u.followed /\ w.forks = u.forks

LEMMA NodesOnly ==
  ASSUME NEW u, NEW w, RunTyped(u), OnlyNodes(u, w) PROVE RunTyped(w) /\ Furthers(u, w)
BY DEF RunTyped, Furthers, OnlyNodes

\* A goroutine enters its node, or has the script's answer.
LEMMA NodeStep ==
  ASSUME NEW x, NEW m, NEW t, NEW u, Before(x, m, t, u),
         NEW p \in Paths, t[p].pc \in {"enter", "sandbox"},
         NEW m2, NEW t2, NEW w, OnlyTask(t, t2, p), OnlyNodes(u, w),
         t2[p].node = t[p].node, t2[p].cancelled = t[p].cancelled, t2[p].next = {},
         t2[p].pc \in {"return", "sandbox", "pauseHITL", "resolve"}, t2[p].result # "await",
         \A n \in Nodes : n # t[p].node => m2[n] = m[n] /\ w.nodes[n] = u.nodes[n],
         u.nodes[t[p].node] # "none" => w.nodes[t[p].node] # "none",
         Stands(t2[p]) => w.nodes[t[p].node] # "none",
         t2[p].pc = "pauseHITL" /\ ~t[p].cancelled =>
            m2[t[p].node].status = "WAITING_FEEDBACK" /\ w.nodes[t[p].node] = "WAITING_FEEDBACK",
         u.forks = {} /\ m2[t[p].node].status = "RUNNING" =>
            m2[t[p].node].by = Root /\ t2[p].pc = "sandbox"
  PROVE  Orderly(x, m2, t2, w)
<1>1. t[p] # NoTask /\ t[p] \in TaskSet /\ TaskOk(t[p]) /\ t[p].node \in Nodes
  BY Standing
<1>2. RunTyped(u) /\ RunTyped(w) /\ Furthers(u, w)
  BY NodesOnly DEF Before
<1>3. Comes(t, p, 0, t[p].node) /\ \A n \in Nodes : Comes(t, p, 0, n) => n = t[p].node
  BY DEF Comes
<1>4. /\ \A n \in Nodes, i \in Branches : ~Comes(t2, p, i, n)
      /\ \A n \in Nodes : Comes(t2, p, 0, n) => n = t[p].node /\ Stands(t2[p])
  BY TurnsAre DEF Comes, Stands
<1>5. StepsOn(t, u, m, p, m2, t2, w)
  BY <1>1, <1>2, <1>3 DEF StepsOn, OnlyTask, OnlyNodes
<1>6. VisitsOk(t2, w)
  <2>1. \A n \in Nodes : Comes(t2, p, 0, n) => Comes(t, p, 0, n) /\ Stands(t2[p])
    BY <1>3, <1>4
  <2>2. \A n \in Nodes : Comes(t, p, 0, n) \/ w.nodes[n] = u.nodes[n]
    BY <1>3
  <2>3. \A n \in Nodes : u.nodes[n] # "none" => w.nodes[n] # "none"
    BY <2>2, <1>3
  <2> QED
    BY <1>2, <1>4, <2>1, <2>2, <2>3, VisitsGoOn DEF OnlyTask, OnlyNodes
<1>7. PauseOk(m2, t2, w, p)
  BY DEF PauseOk
<1>8. ASSUME w.forks = {}
      PROVE  /\ \A n \in Nodes : m2[n].status = "RUNNING" =>
                   m2[n].by = Root /\ t2[Root].pc = "sandbox" /\ t2[Root].node = n
             /\ ~(x.kind = "execute" /\ w.hitl # NoHITL)
  <2>1. u.forks = {} /\ w.hitl = u.hitl
    BY <1>8 DEF OnlyNodes
  <2>2. p = Root /\ x.result = "none"
    BY <1>1, <2>1, RootOnly
  <2>3. t[p].result = "none"
    BY <1>1 DEF TaskOk, ResultsAt
  <2>4. ForksOk(x, m, t, u)
    BY DEF Before, Orderly
  <2>5. \A n \in Nodes : n # t[p].node => m[n].status # "RUNNING"
    BY <2>1, <2>2, <2>4 DEF ForksOk
  <2>6. ~(x.kind = "execute" /\ w.hitl # NoHITL)
    BY <2>1, <2>2, <2>3, <2>4 DEF ForksOk, Waits
  <2> QED
    BY <2>1, <2>2, <2>5, <2>6
<1> QED
  BY <1>5, <1>6, <1>7, <1>8, GoroutineStep

\* Request r is in the middle of run, and this step disturbs nothing.
Serving(r, run) ==
    /\ Typed /\ Undisturbed' /\ run \in Runs /\ Run(r) = run
    /\ Before(requests[r], nodeRuns[r], tasks[r], RunOf(run))

\* After the step it goes on as it should.
Goes(r, run) == Orderly(requests[r], nodeRuns'[r], tasks'[r], RunOf(run)')

\* A step that leaves all but nodes of the run as it is.
LEMMA NodesOnlyChange ==
  ASSUME NEW run, UNCHANGED <<flowRun, hitl, history>>
  PROVE  OnlyNodes(RunOf(run), RunOf(run)')
BY DEF OnlyNodes, RunOf, history

LEMMA NotedMeans ==
  ASSUME NEW run \in Runs, NEW node, NEW status, NEW lost, Noted(run, node, status, lost)
  PROVE  \A n \in Nodes : RunOf(run)'.nodes[n] = IF n = node /\ ~lost THEN status ELSE RunOf(run).nodes[n]
BY DEF Noted, RunOf

LEMMA MovesMeans ==
  ASSUME NEW r \in Requests, NEW p \in Paths, NEW y, Moves(r, p, y)
  PROVE  OnlyTask(tasks[r], tasks'[r], p) /\ tasks'[r][p] = y
BY DEF Moves, OnlyTask

LEMMA EnterNodeOk ==
  ASSUME [Next]_vars, NEW r \in Requests, NEW p \in Paths, NEW run, Serving(r, run), EnterNode(r, p)
  PROVE  Goes(r, run)
<1> DEFINE n0 == tasks[r][p].node
<1>0. /\ Typed /\ ServedInv /\ run \in Runs /\ Run(r) = run
      /\ Before(requests[r], nodeRuns[r], tasks[r], RunOf(run))
  BY DEF Serving, Typed
<1>1. PICK y \in TaskSet : Enters(r, p, y)
  BY <1>0, EnterNodeIs
<1>2. /\ tasks[r][p].pc = "enter" /\ y.node = n0 /\ y.cancelled = tasks[r][p].cancelled
      /\ y.next = {} /\ Moves(r, p, y)
  BY <1>1 DEF Enters, Stays
<1>3. OnlyTask(tasks[r], tasks'[r], p) /\ tasks'[r][p] = y
  BY <1>2, MovesMeans
<1>4. OnlyNodes(RunOf(run), RunOf(run)')
  BY NodesOnlyChange DEF EnterNode
<1>5. /\ tasks[r][p] # NoTask /\ n0 \in Nodes
      /\ ForksOk(requests[r], nodeRuns[r], tasks[r], RunOf(run))
  BY <1>0, <1>2, Standing DEF Before, Orderly
<1>6. CASE y.pc = "return" /\ UNCHANGED <<nodeRuns, nodeState>>
  <2>1. y.result = "failed"
    BY <1>1, <1>6 DEF Enters
  <2>2. nodeRuns'[r] = nodeRuns[r] /\ RunOf(run)'.nodes = RunOf(run).nodes
    BY <1>6 DEF RunOf
  <2>3. RunOf(run).forks = {} => nodeRuns[r][n0].status # "RUNNING"
    BY <1>0, <1>2, <1>5, RootOnly DEF ForksOk
  <2> QED
    BY <1>0, <1>2, <1>3, <1>4, <1>6, <2>1, <2>2, <2>3, NodeStep DEF Stands, Goes
<1>7. CASE ~(y.pc = "return" /\ UNCHANGED <<nodeRuns, nodeState>>)
  <2>1. PICK lost \in BOOLEAN, status \in {"RUNNING", "FAILED"} :
           /\ Write(FALSE, lost)
           /\ Made(r, n0, [by |-> p, status |-> status, attempts |-> 1])
           /\ Noted(run, n0, status, lost)
           /\ status = "FAILED" => y.pc = "return" /\ y.result = "failed"
           /\ status = "RUNNING" => y.pc = "sandbox" /\ y.result = "none"
    BY <1>0, <1>1, <1>7 DEF Enters
  <2>2. ~lost
    BY <2>1, CalmWrite DEF Serving
  <2>3. \A n \in Nodes : RunOf(run)'.nodes[n] = IF n = n0 THEN status ELSE RunOf(run).nodes[n]
    BY <1>0, <2>1, <2>2, NotedMeans
  <2>4. /\ nodeRuns'[r][n0] = [by |-> p, status |-> status, attempts |-> 1]
        /\ \A n \in Nodes : n # n0 => nodeRuns'[r][n] = nodeRuns[r][n]
    BY <1>5, <2>1 DEF Made
  <2>5. RunOf(run).forks = {} => p = Root
    BY <1>0, <1>5, RootOnly
  <2>6. RunOf(run)'.nodes[n0] # "none"
    BY <1>5, <2>1, <2>3
  <2> HIDE DEF n0
  <2> QED
    BY <1>0, <1>2, <1>3, <1>4, <1>5, <2>1, <2>3, <2>4, <2>5, <2>6, NodeStep DEF Stands, Goes, n0
<1> QED
  BY <1>6, <1>7

\* A script ends: the instance keeps its maker, or was replaced by another goroutine's.
LEMMA AfterScript ==
  ASSUME [Next]_vars, NEW r \in Requests, NEW p \in Paths, NEW run, Serving(r, run),
         tasks[r][p].pc = "sandbox", NEW y, Moves(r, p, y), Stays(tasks[r][p], y), y.next = {},
         y.pc \in {"return", "resolve"}, y.result # "await",
         NEW status \in {"FAILED", "SUCCESS"}, NEW lost \in BOOLEAN,
         Made(r, tasks[r][p].node, After(nodeRuns[r][tasks[r][p].node], p, status)),
         Noted(run, tasks[r][p].node, status, lost),
         UNCHANGED <<flowRun, hitl, history>>
  PROVE  Goes(r, run)
<1> DEFINE n0 == tasks[r][p].node
           i0 == nodeRuns[r][n0]
<1>0. /\ run \in Runs /\ Run(r) = run
      /\ Before(requests[r], nodeRuns[r], tasks[r], RunOf(run))
  BY DEF Serving
<1>1. OnlyTask(tasks[r], tasks'[r], p) /\ tasks'[r][p] = y
  BY MovesMeans
<1>2. OnlyNodes(RunOf(run), RunOf(run)')
  BY NodesOnlyChange
<1>3. /\ tasks[r][p] # NoTask /\ n0 \in Nodes
      /\ ForksOk(requests[r], nodeRuns[r], tasks[r], RunOf(run))
      /\ VisitsOk(tasks[r], RunOf(run)) /\ nodeRuns[r] \in [Nodes -> Instances]
  BY <1>0, Standing DEF Before, Orderly, Serves
<1>4. \A n \in Nodes : RunOf(run)'.nodes[n] = IF n = n0 /\ ~lost THEN status ELSE RunOf(run).nodes[n]
  BY <1>0, NotedMeans
<1>5. /\ nodeRuns'[r][n0] = After(i0, p, status)
      /\ \A n \in Nodes : n # n0 => nodeRuns'[r][n] = nodeRuns[r][n]
  BY <1>3 DEF Made
<1>6. RunOf(run).forks = {} => nodeRuns'[r][n0].status # "RUNNING"
  <2> SUFFICES ASSUME RunOf(run).forks = {}, nodeRuns'[r][n0].status = "RUNNING" PROVE FALSE
    OBVIOUS
  <2>1. i0 \in Instances
    BY <1>3
  <2>2. i0.by # p /\ i0.status = "RUNNING"
    BY <1>5, <2>1 DEF After, Instances
  <2>3. p = Root
    BY <1>0, <1>3, RootOnly
  <2> QED
    BY <1>3, <2>2, <2>3 DEF ForksOk
<1>7. RunOf(run).nodes[n0] # "none" => RunOf(run)'.nodes[n0] # "none"
  BY <1>3, <1>4
<1> HIDE DEF n0
<1> QED
  BY <1>0, <1>1, <1>2, <1>3, <1>4, <1>5, <1>6, <1>7, NodeStep DEF Stands, Stays, Goes, n0

LEMMA ScriptEndsOk ==
  ASSUME [Next]_vars, NEW r \in Requests, NEW p \in Paths, NEW run, Serving(r, run),
         ScriptFails(r, p) \/ ScriptReturns(r, p)
  PROVE  Goes(r, run)
<1> DEFINE n0 == tasks[r][p].node
<1>0. /\ Typed /\ ServedInv /\ run \in Runs /\ Run(r) = run
      /\ Before(requests[r], nodeRuns[r], tasks[r], RunOf(run))
  BY DEF Serving, Typed
<1>1. UNCHANGED <<flowRun, hitl, history>>
  BY DEF ScriptFails, ScriptReturns
<1>2. CASE ScriptFails(r, p)
  <2>1. PICK x \in TaskSet, lost \in BOOLEAN :
           /\ tasks[r][p].pc = "sandbox" /\ Moves(r, p, x) /\ Stays(tasks[r][p], x) /\ x.next = {}
           /\ x.pc = "return" /\ x.result = "failed"
           /\ Made(r, n0, After(nodeRuns[r][n0], p, "FAILED"))
           /\ Noted(Run(r), n0, "FAILED", lost)
    BY <1>0, <1>2, ScriptFailsIs
  <2> QED
    BY <1>0, <1>1, <2>1, AfterScript
<1>3. CASE ScriptReturns(r, p)
  <2>1. PICK x \in TaskSet, lost \in BOOLEAN : Outputs(r, p, x, lost)
    BY <1>0, <1>3, ScriptReturnsIs
  <2>2. /\ tasks[r][p].pc = "sandbox" /\ Moves(r, p, x) /\ Stays(tasks[r][p], x) /\ x.next = {}
        /\ Write(tasks[r][p].cancelled, lost)
    BY <2>1 DEF Outputs
  <2>3. CASE x.pc = "return" \/ x.pc = "resolve"
    <3>1. x.result # "await" /\ \E status \in {"FAILED", "SUCCESS"} :
             /\ Made(r, n0, After(nodeRuns[r][n0], p, status))
             /\ Noted(run, n0, status, lost)
      BY <1>0, <2>1, <2>3 DEF Outputs
    <3> QED
      BY <1>1, <2>2, <2>3, <3>1, AfterScript
  <2>4. CASE ~(x.pc = "return" \/ x.pc = "resolve")
    <3>1. /\ x.pc = "pauseHITL" /\ x.result = "none"
          /\ Made(r, n0, [by |-> p, status |-> "WAITING_FEEDBACK", attempts |-> 1])
          /\ Noted(run, n0, "WAITING_FEEDBACK", lost)
      BY <1>0, <2>1, <2>4 DEF Outputs
    <3>2. OnlyTask(tasks[r], tasks'[r], p) /\ tasks'[r][p] = x
      BY <2>2, MovesMeans
    <3>3. OnlyNodes(RunOf(run), RunOf(run)')
      BY <1>1, NodesOnlyChange
    <3>4. /\ n0 \in Nodes /\ tasks[r][p].cancelled \in BOOLEAN
          /\ VisitsOk(tasks[r], RunOf(run))
      BY <1>0, <2>2, Standing DEF Before, Orderly
    <3>5. lost => tasks[r][p].cancelled
      BY <2>2, <3>4, CalmWrite DEF Serving
    <3>6. \A n \in Nodes : RunOf(run)'.nodes[n] =
             IF n = n0 /\ ~lost THEN "WAITING_FEEDBACK" ELSE RunOf(run).nodes[n]
      BY <1>0, <3>1, NotedMeans
    <3>7. /\ nodeRuns'[r][n0].status = "WAITING_FEEDBACK"
          /\ \A n \in Nodes : n # n0 => nodeRuns'[r][n] = nodeRuns[r][n]
      BY <3>1, <3>4 DEF Made
    <3>8. RunOf(run).nodes[n0] # "none" /\ RunOf(run)'.nodes[n0] # "none"
      BY <2>2, <3>4, <3>6 DEF VisitsOk, Stands
    <3> HIDE DEF n0
    <3> QED
      BY <1>0, <2>2, <3>1, <3>2, <3>3, <3>4, <3>5, <3>6, <3>7, <3>8, NodeStep
         DEF Stands, Stays, Goes, n0
  <2> QED
    BY <2>3, <2>4
<1> QED
  BY <1>2, <1>3

\* The two steps of a pause.
LEMMA PauseStep ==
  ASSUME NEW x, NEW m, NEW t, NEW u, Before(x, m, t, u), NEW p \in Paths, t[p].pc = "pauseHITL",
         NEW t2, NEW w, OnlyTask(t, t2, p), RunTyped(w),
         t2[p].node = t[p].node, t2[p].cancelled = t[p].cancelled, t2[p].next = {},
         t2[p].pc = "pauseRun", t2[p].result = "none",
         w.status = u.status, w.nodes = u.nodes, w.followed = u.followed, w.forks = u.forks,
         t[p].cancelled => w.hitl = u.hitl,
         ~t[p].cancelled => /\ w.hitl \in HITLStates /\ w.hitl.node = t[p].node
                            /\ \A n \in Nodes : w.hitl.runs[n].status = m[n].status
  PROVE  Orderly(x, m, t2, w)
<1>1. t[p] # NoTask /\ TaskOk(t[p]) /\ t[p].node \in Nodes
  BY Standing
<1>2. RunTyped(u) /\ Furthers(u, w) /\ PauseOk(m, t, u, p) /\ ForksOk(x, m, t, u) /\ VisitsOk(t, u)
  BY DEF Before, Orderly, Furthers, RunTyped
<1>3. Comes(t, p, 0, t[p].node) /\ \A i \in Turns, n \in Nodes : ~Comes(t2, p, i, n)
  BY TurnsAre DEF Comes
<1>4. u.forks = {} => p = Root /\ \A n \in Nodes : m[n].status # "RUNNING"
  BY <1>1, <1>2, RootOnly DEF ForksOk
<1>5. ~t[p].cancelled => CanResume(w)
  <2> SUFFICES ASSUME ~t[p].cancelled PROVE CanResume(w)
    OBVIOUS
  <2>1. \/ m[t[p].node].status = "WAITING_FEEDBACK" /\ u.nodes[t[p].node] = "WAITING_FEEDBACK"
        \/ MetAt(u, t[p].node)
    BY <1>2 DEF PauseOk
  <2>2. MetAt(u, t[p].node) => MetAt(w, t[p].node)
    BY <1>1, <1>2, StillReached DEF MetAt
  <2>3. w.hitl # NoHITL
    BY NoHITLIs
  <2> QED
    BY <1>1, <1>4, <2>1, <2>2, <2>3 DEF CanResume
<1>6. StepsOn(t, u, m, p, m, t2, w)
  BY <1>1, <1>2, <1>3, <1>5 DEF StepsOn, OnlyTask, Stands
<1>7. VisitsOk(t2, w)
  <2>1. \A n \in Nodes, i \in Branches : ~Comes(t2, p, i, n)
    BY <1>3, TurnsAre
  <2>2. \A n \in Nodes : ~Comes(t2, p, 0, n)
    BY <1>3, TurnsAre
  <2>3. ~Stands(t2[p])
    BY DEF Stands
  <2>4. w.hitl # u.hitl => Comes(t, p, 0, w.hitl.node)
    BY <1>3
  <2> QED
    BY <1>2, <1>3, <2>1, <2>2, <2>3, <2>4, VisitsGoOn DEF OnlyTask
<1>8. PauseOk(m, t2, w, p)
  BY <1>5 DEF PauseOk
<1>9. w.forks = {} => /\ \A n \in Nodes : m[n].status # "RUNNING"
                      /\ Waits(x, t2)
  BY <1>4 DEF Waits
<1> QED
  BY <1>6, <1>7, <1>8, <1>9, GoroutineStep

LEMMA PausedStep ==
  ASSUME NEW x, NEW m, NEW t, NEW u, Before(x, m, t, u), NEW p \in Paths, t[p].pc = "pauseRun",
         NEW t2, NEW w, OnlyTask(t, t2, p),
         t2[p].node = t[p].node, t2[p].cancelled = t[p].cancelled, t2[p].next = {},
         t2[p].pc = "return", t2[p].result = "await",
         w.hitl = u.hitl, w.nodes = u.nodes, w.followed = u.followed, w.forks = u.forks,
         w.status = IF t[p].cancelled THEN u.status ELSE "WAITING_FEEDBACK"
  PROVE  Orderly(x, m, t2, w)
<1>1. t[p] # NoTask /\ TaskOk(t[p]) /\ t[p].node \in Nodes
  BY Standing
<1>2. RunTyped(u) /\ RunTyped(w) /\ Furthers(u, w) /\ PauseOk(m, t, u, p) /\ ForksOk(x, m, t, u)
  BY DEF Before, Orderly, Furthers, RunTyped
<1>3. \A i \in Turns, n \in Nodes : ~Comes(t2, p, i, n)
  BY TurnsAre DEF Comes
<1>4. u.forks = {} => p = Root /\ \A n \in Nodes : m[n].status # "RUNNING"
  BY <1>1, <1>2, RootOnly DEF ForksOk
<1>5. CanResume(u) => CanResume(w)
  BY DEF CanResume, MetAt, Reentered
<1>6. StepsOn(t, u, m, p, m, t2, w)
  BY <1>1, <1>2 DEF StepsOn, OnlyTask
<1>7. VisitsOk(t2, w)
  <2>1. \A n \in Nodes, i \in Branches : ~Comes(t2, p, i, n)
    BY <1>3, TurnsAre
  <2>2. \A n \in Nodes : ~Comes(t2, p, 0, n)
    BY <1>3, TurnsAre
  <2>3. ~Stands(t2[p])
    BY DEF Stands
  <2> QED
    BY <1>2, <1>3, <2>1, <2>2, <2>3, VisitsGoOn DEF OnlyTask
<1>8. PauseOk(m, t2, w, p)
  BY <1>2, <1>5 DEF PauseOk
<1>9. w.forks = {} => /\ \A n \in Nodes : m[n].status # "RUNNING"
                      /\ Waits(x, t2)
  BY <1>4 DEF Waits
<1> QED
  BY <1>6, <1>7, <1>8, <1>9, GoroutineStep


LEMMA PauseHITLOk ==
  ASSUME [Next]_vars, NEW r \in Requests, NEW p \in Paths, NEW run, Serving(r, run), PauseHITL(r, p)
  PROVE  Goes(r, run)
<1>0. /\ Typed /\ ServedInv /\ run \in Runs /\ Run(r) = run
      /\ Before(requests[r], nodeRuns[r], tasks[r], RunOf(run))
  BY DEF Serving, Typed
<1>1. PICK x \in TaskSet, lost \in BOOLEAN :
         /\ tasks[r][p].pc = "pauseHITL" /\ Moves(r, p, x) /\ Stays(tasks[r][p], x) /\ x.next = {}
         /\ x.pc = "pauseRun" /\ x.result = "none"
         /\ Write(tasks[r][p].cancelled, lost)
         /\ lost => hitl'[run] = hitl[run]
         /\ ~lost => /\ hitl'[run] \in HITLStates /\ hitl'[run].node = tasks[r][p].node
                     /\ \A n \in Nodes : hitl'[run].runs[n].status = nodeRuns[r][n].status
  BY <1>0, PauseHITLIs
<1>2. OnlyTask(tasks[r], tasks'[r], p) /\ tasks'[r][p] = x
  BY <1>1, MovesMeans
<1>3. tasks[r][p].cancelled \in BOOLEAN
  BY <1>0, <1>1, Standing
<1>4. lost <=> tasks[r][p].cancelled
  BY <1>1, <1>3, CalmWrite DEF Serving
<1>5. UNCHANGED <<flowRun, nodeState, traversals, forked, nodeRuns>>
  BY DEF PauseHITL, history
<1>6. RunTyped(RunOf(run)')
  BY <1>0, RunMovesOn
<1>7. /\ RunOf(run)'.status = RunOf(run).status /\ RunOf(run)'.nodes = RunOf(run).nodes
      /\ RunOf(run)'.followed = RunOf(run).followed /\ RunOf(run)'.forks = RunOf(run).forks
      /\ RunOf(run)'.hitl = hitl'[run] /\ RunOf(run).hitl = hitl[run]
  BY <1>5 DEF RunOf
<1>8. Orderly(requests[r], nodeRuns[r], tasks'[r], RunOf(run)')
  BY <1>0, <1>1, <1>2, <1>4, <1>6, <1>7, PauseStep DEF Stays
<1> QED
  BY <1>5, <1>8 DEF Goes

LEMMA PauseRunOk ==
  ASSUME [Next]_vars, NEW r \in Requests, NEW p \in Paths, NEW run, Serving(r, run), PauseRun(r, p)
  PROVE  Goes(r, run)
<1>0. /\ Typed /\ ServedInv /\ run \in Runs /\ Run(r) = run
      /\ Before(requests[r], nodeRuns[r], tasks[r], RunOf(run))
  BY DEF Serving, Typed
<1>1. PICK x \in TaskSet, lost \in BOOLEAN :
         /\ tasks[r][p].pc = "pauseRun" /\ Moves(r, p, x) /\ Stays(tasks[r][p], x) /\ x.next = {}
         /\ x.pc = "return" /\ x.result = "await"
         /\ Write(tasks[r][p].cancelled, lost)
         /\ flowRun'[run] = IF ~lost THEN "WAITING_FEEDBACK" ELSE flowRun[run]
  BY <1>0, PauseRunIs
<1>2. OnlyTask(tasks[r], tasks'[r], p) /\ tasks'[r][p] = x
  BY <1>1, MovesMeans
<1>3. tasks[r][p].cancelled \in BOOLEAN
  BY <1>0, <1>1, Standing
<1>4. lost <=> tasks[r][p].cancelled
  BY <1>1, <1>3, CalmWrite DEF Serving
<1>5. UNCHANGED <<hitl, nodeState, traversals, forked, nodeRuns>>
  BY DEF PauseRun, history
<1>7. /\ RunOf(run)'.hitl = RunOf(run).hitl /\ RunOf(run)'.nodes = RunOf(run).nodes
      /\ RunOf(run)'.followed = RunOf(run).followed /\ RunOf(run)'.forks = RunOf(run).forks
      /\ RunOf(run)'.status = flowRun'[run] /\ RunOf(run).status = flowRun[run]
  BY <1>5 DEF RunOf
<1>8. Orderly(requests[r], nodeRuns[r], tasks'[r], RunOf(run)')
  BY <1>0, <1>1, <1>2, <1>4, <1>7, PausedStep DEF Stays
<1> QED
  BY <1>5, <1>8 DEF Goes


\* A step of a goroutine that leaves everything but itself and what was followed.
Quiet(u, w) == w.status = u.status /\ w.hitl = u.hitl /\ w.nodes = u.nodes

\* The conditions on node instances and pauses of an unforked run go on to hold where
\* its goroutine was not at work and had not paused.
LEMMA QuietStep ==
  ASSUME NEW x, NEW m, NEW t, NEW u, Before(x, m, t, u), NEW p \in Paths,
         t[p].pc \in {"resolve", "join"}, NEW t2, NEW w, OnlyTask(t, t2, p), Quiet(u, w),
         w.forks = u.forks, RunTyped(w), Furthers(u, w),
         t2[p].pc \in {"resolve", "enter", "return"}, VisitsOk(t2, w),
         t2[p].cancelled = t[p].cancelled,
         t2[p].result = "await" <=> t[p].result = "await"
  PROVE  Orderly(x, m, t2, w)
<1>1. t[p] # NoTask /\ TaskOk(t[p])
  BY Standing
<1>2. PauseOk(m, t, u, p) /\ ForksOk(x, m, t, u) /\ RunTyped(u)
  BY DEF Before, Orderly
<1>3. StepsOn(t, u, m, p, m, t2, w)
  BY <1>1 DEF StepsOn, OnlyTask, Quiet
<1>4. ASSUME CanResume(u) PROVE CanResume(w)
  <2>1. u.hitl.node \in Nodes
    BY <1>2, <1>4 DEF CanResume, RunTyped, HITLStates
  <2> QED
    BY <1>2, <1>4, <2>1, StillReached DEF CanResume, MetAt, Quiet
<1>5. PauseOk(m, t2, w, p)
  BY <1>2, <1>4 DEF PauseOk, Quiet
<1>6. ASSUME w.forks = {}
      PROVE  /\ \A n \in Nodes : m[n].status # "RUNNING"
             /\ ~(x.kind = "execute" /\ w.hitl # NoHITL) \/ Waits(x, t2)
  <2>1. u.forks = {}
    BY <1>6
  <2>2. p = Root /\ x.result = "none"
    BY <1>1, <2>1, RootOnly
  <2>3. \A n \in Nodes : m[n].status # "RUNNING"
    BY <1>2, <2>1, <2>2 DEF ForksOk
  <2> QED
    BY <1>2, <2>1, <2>2, <2>3 DEF ForksOk, Waits, Quiet
<1> QED
  BY <1>3, <1>5, <1>6, GoroutineStep

LEMMA LookStep ==
  ASSUME NEW x, NEW m, NEW t, NEW u, Before(x, m, t, u), NEW p \in Paths, t[p].pc = "resolve",
         NEW i \in t[p].todo, NEW t2, NEW w, OnlyTask(t, t2, p), Quiet(u, w),
         w.forks = u.forks, RunTyped(w), Furthers(u, w),
         t2[p].pc = "resolve", t2[p].result = "none", t2[p].cancelled = t[p].cancelled,
         \/ t2[p].next = t[p].next
         \/ /\ t2[p].next = t[p].next \union {i}
            /\ w.followed[<<t[p].node, Edges[i].to>>] = u.followed[<<t[p].node, Edges[i].to>>] + 1
  PROVE  Orderly(x, m, t2, w)
<1>1. t[p] # NoTask /\ TaskOk(t[p]) /\ t[p].node \in Nodes
  BY Standing
<1>2. i \in Branches /\ Edges[i].to \in Nodes
  BY <1>1, BranchesNat DEF TaskOk, EdgeSet
<1>3. RunTyped(u)
  BY DEF Before
<1>4. ASSUME t2[p].next # t[p].next
      PROVE  Arrived(w, Edges[i].to) /\ (Arrived(u, Edges[i].to) => Reentered(w, Edges[i].to))
  BY <1>1, <1>2, <1>3, <1>4, ArrivesAgain
<1>5. \A n \in Nodes : ~Comes(t2, p, 0, n)
  BY DEF Comes
<1>6. ASSUME NEW j \in Branches, NEW n \in Nodes, Comes(t2, p, j, n)
      PROVE  \/ Comes(t, p, j, n)
             \/ j = i /\ Arrived(w, n) /\ (Arrived(u, n) => Reentered(w, n))
  BY <1>4, <1>6, TurnsAre DEF Comes
<1>7. VisitsOk(t2, w)
  <2>1. ~Stands(t2[p])
    BY DEF Stands
  <2> QED
    BY <1>5, <1>6, <2>1, VisitsGoOn DEF OnlyTask, Quiet
<1>8. t[p].result = "none"
  BY <1>1 DEF TaskOk, ResultsAt
<1> QED
  BY <1>7, <1>8, QuietStep

LEMMA ReturnStep ==
  ASSUME NEW x, NEW m, NEW t, NEW u, Before(x, m, t, u), NEW p \in Paths,
         t[p].pc \in {"resolve", "join"}, NEW t2, OnlyTask(t, t2, p),
         t2[p].pc = "return", t2[p].next = {}, t2[p].cancelled = t[p].cancelled,
         t2[p].result = "await" <=> t[p].result = "await"
  PROVE  Orderly(x, m, t2, u)
<1>1. RunTyped(u) /\ Furthers(u, u) /\ Quiet(u, u)
  BY DEF Before, RunTyped, Furthers, Quiet
<1>2. \A i \in Turns, n \in Nodes : ~Comes(t2, p, i, n)
  BY TurnsAre DEF Comes
<1>3. VisitsOk(t2, u)
  <2>1. ~Stands(t2[p])
    BY DEF Stands
  <2>2. /\ \A n \in Nodes : ~Comes(t2, p, 0, n)
        /\ \A i \in Branches, n \in Nodes : ~Comes(t2, p, i, n)
    BY <1>2, TurnsAre
  <2> QED
    BY <1>1, <2>1, <2>2, VisitsGoOn DEF OnlyTask
<1> QED
  BY <1>1, <1>3, QuietStep

LEMMA ResolveOrderly ==
  ASSUME [Next]_vars, NEW r \in Requests, NEW p \in Paths, NEW run, Serving(r, run), Resolve(r, p),
         run \in live
  PROVE  Goes(r, run)
<1>0. /\ Typed /\ ServedInv /\ run \in Runs /\ Run(r) = run
      /\ Before(requests[r], nodeRuns[r], tasks[r], RunOf(run))
  BY DEF Serving, Typed
<1> DEFINE i == Min(tasks[r][p].todo)
<1>1. PICK x \in TaskSet : Looks(r, p, x)
  BY <1>0, ResolveIs
<1>2. tasks[r][p].pc = "resolve" /\ i \in tasks[r][p].todo
  BY <1>0, ResolveIs
<1> HIDE DEF i
<1>3. OnlyTask(tasks[r], tasks'[r], p) /\ tasks'[r][p] = x
  BY <1>1, MovesMeans DEF Looks
<1>4. UNCHANGED <<flowRun, hitl, nodeState, forked, nodeRuns>>
  BY <1>0 DEF Resolve, redis, history
<1>5. /\ Quiet(RunOf(run), RunOf(run)') /\ RunOf(run)'.forks = RunOf(run).forks
      /\ RunOf(run)'.followed = traversals'[run] /\ RunOf(run).followed = traversals[run]
  BY <1>4 DEF Quiet, RunOf
<1>6. RunTyped(RunOf(run)') /\ Furthers(RunOf(run), RunOf(run)')
  BY <1>0, RunMovesOn
<1>7. /\ x.pc = "resolve" /\ x.result = "none" /\ x.cancelled = tasks[r][p].cancelled
      /\ \/ x.next = tasks[r][p].next
         \/ /\ x.next = tasks[r][p].next \union {i}
            /\ traversals' = [traversals EXCEPT ![run][<<tasks[r][p].node, Edges[i].to>>] = @ + 1]
  BY <1>0, <1>1 DEF Looks, Considers, Stays, i
<1>8. <<tasks[r][p].node, Edges[i].to>> \in Pairs
  <2>1. TaskOk(tasks[r][p]) /\ tasks[r][p].node \in Nodes
    BY <1>0, <1>2, Standing
  <2> QED
    BY <1>2, <2>1, BranchesNat DEF TaskOk, EdgeSet, Pairs
<1>9. traversals \in [Runs -> [Pairs -> Nat]]
  BY <1>0 DEF Typed, CountersInv, CountersTyped
<1>10. \/ x.next = tasks[r][p].next
       \/ /\ x.next = tasks[r][p].next \union {i}
          /\ traversals'[run][<<tasks[r][p].node, Edges[i].to>>]
                = traversals[run][<<tasks[r][p].node, Edges[i].to>>] + 1
  BY <1>0, <1>7, <1>8, <1>9
<1>11. Orderly(requests[r], nodeRuns[r], tasks'[r], RunOf(run)')
  BY <1>0, <1>2, <1>3, <1>5, <1>6, <1>7, <1>10, LookStep
<1> QED
  BY <1>4, <1>11 DEF Goes

LEMMA JoinOrderly ==
  ASSUME [Next]_vars, NEW r \in Requests, NEW p \in Paths, NEW run, Serving(r, run), Join(r, p)
  PROVE  Goes(r, run)
<1>0. /\ Typed /\ ServedInv /\ run \in Runs
      /\ Before(requests[r], nodeRuns[r], tasks[r], RunOf(run))
  BY DEF Serving, Typed
<1>1. PICK x \in TaskSet :
         /\ tasks[r][p].pc = "join" /\ Moves(r, p, x) /\ Stays(tasks[r][p], x) /\ x.next = {}
         /\ x.pc = "return" /\ x.result = IF tasks[r][p].result = "none" THEN "ok" ELSE tasks[r][p].result
  BY <1>0, JoinIs
<1>2. OnlyTask(tasks[r], tasks'[r], p) /\ tasks'[r][p] = x
  BY <1>1, MovesMeans
<1>3. nodeRuns' = nodeRuns /\ RunOf(run)' = RunOf(run)
  BY DEF Join, redis, history, RunOf
<1>4. Orderly(requests[r], nodeRuns[r], tasks'[r], RunOf(run))
  BY <1>0, <1>1, <1>2, ReturnStep DEF Stays
<1> QED
  BY <1>3, <1>4 DEF Goes


\* Goroutine p follows its edges: for each edge i, goroutine b[i] is about to enter the
\* node it leads to.
Sends(t, t2, p, b) ==
    /\ \A i \in t[p].next : b[i] \in Paths
    /\ \A i, j \in t[p].next : b[i] = b[j] => i = j
    /\ \A q \in Paths : q # p /\ (\A i \in t[p].next : q # b[i]) => t2[q] = t[q]
    /\ \A i \in t[p].next :
          t2[b[i]].pc = "enter" /\ t2[b[i]].node = Edges[i].to /\ t2[b[i]].next = {}
    /\ (\E i \in t[p].next : p = b[i]) \/ (t2[p].pc = "join" /\ t2[p].next = {})

LEMMA VisitsMove ==
  ASSUME NEW x, NEW m, NEW t, NEW u, Before(x, m, t, u), NEW p \in Paths, t[p].pc = "resolve",
         NEW b, NEW t2, Sends(t, t2, p, b),
         NEW w, w.followed = u.followed, w.hitl = u.hitl, w.nodes = u.nodes
  PROVE  VisitsOk(t2, w)
<1> DEFINE next == t[p].next
           Elsewhere(q) == q # p /\ \A i \in next : q # b[i]
           From(q, j, o, k) ==
              \/ Elsewhere(q) /\ o = q /\ k = j
              \/ j = 0 /\ o = p /\ k \in next /\ q = b[k]
<1>0. VisitsOk(t, u) /\ TaskOk(t[p]) /\ next \subseteq Branches
  BY Standing DEF Before, Orderly, TaskOk
<1> USE DEF Sends
<1>1. \A n \in Nodes : (Arrived(u, n) => Arrived(w, n)) /\ (Reentered(u, n) => Reentered(w, n))
  BY DEF Arrived, Reentered
<1>2. ASSUME NEW q \in Paths, NEW j \in Turns, NEW n \in Nodes, Comes(t2, q, j, n)
      PROVE  \E o \in Paths, k \in Turns : Comes(t, o, k, n) /\ From(q, j, o, k)
  <2>1. CASE Elsewhere(q)
    <3>1. Comes(t, q, j, n)
      BY <1>2, <2>1 DEF Comes
    <3> QED
      BY <2>1, <3>1
  <2>2. ASSUME NEW i \in next, q = b[i]
        PROVE  \E o \in Paths, k \in Turns : Comes(t, o, k, n) /\ From(q, j, o, k)
    <3>1. j = 0 /\ Edges[i].to = n
      BY <1>2, <2>2 DEF Comes
    <3>2. i \in Turns /\ i # 0
      BY <1>0, TurnsAre
    <3>3. Comes(t, p, i, n)
      BY <3>1, <3>2 DEF Comes
    <3> QED
      BY <2>2, <3>1, <3>2, <3>3
  <2>3. CASE q = p /\ \A i \in next : q # b[i]
    BY <1>2, <2>3 DEF Comes
  <2> QED
    BY <2>1, <2>2, <2>3
<1>3. ASSUME NEW q \in Paths, NEW j \in Turns, NEW o \in Paths, NEW k \in Turns, From(q, j, o, k),
             NEW q2 \in Paths, NEW j2 \in Turns, NEW o2 \in Paths, NEW k2 \in Turns,
             From(q2, j2, o2, k2), q # q2 \/ j # j2
      PROVE  o # o2 \/ k # k2
  BY <1>3
<1>4. ASSUME NEW q \in Paths, NEW j \in Turns, NEW n \in Nodes, Comes(t2, q, j, n)
      PROVE  VisitOk(t2, w, q, j, n)
  <2>1. PICK o \in Paths, k \in Turns : Comes(t, o, k, n) /\ From(q, j, o, k)
    BY <1>2, <1>4
  <2>2. VisitOk(t, u, o, k, n)
    BY <1>0, <2>1 DEF VisitsOk
  <2>3. ASSUME NEW q2 \in Paths, NEW j2 \in Turns, Comes(t2, q2, j2, n), q2 # q \/ j2 # j
        PROVE  Reentered(w, n)
    <3>1. PICK o2 \in Paths, k2 \in Turns : Comes(t, o2, k2, n) /\ From(q2, j2, o2, k2)
      BY <1>2, <2>3
    <3>2. o # o2 \/ k # k2
      BY <1>3, <2>1, <2>3, <3>1
    <3>3. Reentered(u, n)
      BY <2>2, <3>1, <3>2 DEF VisitOk
    <3> QED
      BY <1>1, <3>3
  <2>4. ASSUME w.nodes[n] # "none" PROVE Reentered(w, n) \/ (j = 0 /\ Stands(t2[q]))
    <3>1. Reentered(u, n) \/ (k = 0 /\ Stands(t[o]))
      BY <2>2, <2>4 DEF VisitOk
    <3>2. k = 0 => Elsewhere(q) /\ o = q /\ j = 0
      BY <1>0, <2>1, TurnsAre
    <3> QED
      BY <1>1, <3>1, <3>2
  <2>5. Arrived(w, n) /\ (w.hitl.node = n => Reentered(w, n))
    BY <1>1, <2>2 DEF VisitOk
  <2> QED
    BY <2>3, <2>4, <2>5 DEF VisitOk
<1>5. ASSUME NEW q \in Paths, Stands(t2[q]) PROVE w.nodes[t2[q].node] # "none"
  <2>1. Elsewhere(q)
    BY <1>5 DEF Stands
  <2> QED
    BY <1>0, <1>5, <2>1 DEF VisitsOk
<1> QED
  BY <1>4, <1>5 DEF VisitsOk

\* A fork: the goroutine waits, and each of its edges has a goroutine that follows it.
LEMMA ForkOrderly ==
  ASSUME NEW x, NEW m, NEW t, NEW u, Before(x, m, t, u), NEW p \in Paths, t[p].pc = "resolve",
         NEW t2, NEW w, VisitsOk(t2, w),
         w.status = u.status, w.followed = u.followed, w.hitl = u.hitl, w.nodes = u.nodes, w.forks # {},
         \A q \in Paths : t2[q] = t[q] \/ (t2[q].pc \in {"enter", "join"} /\ t2[q].result = "none")
  PROVE  Orderly(x, m, t2, w)
<1>0. ForksOk(x, m, t, u) /\ StageOk(x, m, u) /\ RunOk(u) /\ x.pc = "running"
  BY DEF Before, Orderly
<1>1. ForksOk(x, m, t2, w)
  BY <1>0 DEF ForksOk
<1>2. StageOk(x, m, w)
  BY <1>0 DEF StageOk
<1>3. RunOk(w)
  BY <1>0 DEF RunOk, Arrived
<1>4. \A n \in Nodes : MetAt(u, n) => MetAt(w, n)
  BY DEF MetAt, Reentered
<1>5. CanResume(u) => CanResume(w)
  BY DEF CanResume, MetAt, Reentered
<1>6. ASSUME NEW q \in Paths PROVE PauseOk(m, t2, w, q)
  <2>1. CASE t2[q] = t[q]
    <3>1. PauseOk(m, t, u, q)
      BY DEF Before, Orderly
    <3>2. t[q].pc = "pauseHITL" => t[q].node \in Nodes
      BY Standing
    <3> QED
      BY <1>4, <1>5, <2>1, <3>1, <3>2 DEF PauseOk
  <2>2. CASE t2[q].pc \in {"enter", "join"} /\ t2[q].result = "none"
    BY <2>2 DEF PauseOk
  <2> QED
    BY <2>1, <2>2
<1> QED
  BY <1>1, <1>2, <1>3, <1>6 DEF Orderly

LEMMA FollowOrderly ==
  ASSUME [Next]_vars, NEW r \in Requests, NEW p \in Paths, NEW run, Serving(r, run), Follow(r, p)
  PROVE  Goes(r, run)
<1>0. /\ Typed /\ ServedInv /\ run \in Runs /\ Run(r) = run
      /\ Before(requests[r], nodeRuns[r], tasks[r], RunOf(run))
  BY DEF Serving, Typed
<1> DEFINE next == tasks[r][p].next
<1>1. UNCHANGED <<flowRun, hitl, nodeState, traversals, nodeRuns>>
  BY DEF Follow, redis
<1>2. tasks[r][p].pc = "resolve" /\ next \subseteq Branches
  BY <1>0, FollowIs
<1>3. ASSUME NEW x \in TaskSet, Moves(r, p, x), x.cancelled = tasks[r][p].cancelled, x.next = {},
             \/ next = {} /\ x.pc = "return" /\ x.result = "ok" /\ x.node = tasks[r][p].node
             \/ /\ x.pc = "enter" /\ x.result = "none"
                /\ \E i \in next : next = {i} /\ x.node = Edges[i].to,
             UNCHANGED forked
      PROVE  Goes(r, run)
  <2>1. OnlyTask(tasks[r], tasks'[r], p) /\ tasks'[r][p] = x
    BY <1>3, MovesMeans
  <2>2. RunOf(run)' = RunOf(run)
    BY <1>1, <1>3 DEF RunOf
  <2>3. tasks[r][p].result = "none"
    BY <1>0, <1>2, Standing DEF TaskOk, ResultsAt
  <2>4. CASE x.pc = "return"
    <3>1. Orderly(requests[r], nodeRuns[r], tasks'[r], RunOf(run))
      BY <1>0, <1>2, <1>3, <2>1, <2>3, <2>4, ReturnStep
    <3> QED
      BY <1>1, <2>2, <3>1 DEF Goes
  <2>5. CASE x.pc # "return"
    <3>1. PICK i \in next : next = {i} /\ x.node = Edges[i].to
      BY <1>3, <2>5
    <3>2. x.pc = "enter" /\ x.result = "none"
      BY <1>3, <2>5
    <3> DEFINE b == [j \in {i} |-> p]
    <3>3. b[i] = p
      OBVIOUS
    <3> HIDE DEF b
    <3>4. VisitsOk(tasks'[r], RunOf(run))
      <4>1. Sends(tasks[r], tasks'[r], p, b)
        BY <1>3, <2>1, <3>1, <3>2, <3>3 DEF Sends, OnlyTask
      <4> QED
        BY <1>0, <1>2, <4>1, VisitsMove
    <3>5. RunTyped(RunOf(run)) /\ Furthers(RunOf(run), RunOf(run)) /\ Quiet(RunOf(run), RunOf(run))
      BY <1>0, RunMovesOn, <2>2 DEF Quiet
    <3>6. Orderly(requests[r], nodeRuns[r], tasks'[r], RunOf(run))
      BY <1>0, <1>2, <1>3, <2>1, <2>3, <3>2, <3>4, <3>5, QuietStep
    <3> QED
      BY <1>1, <2>2, <3>6 DEF Goes
  <2> QED
    BY <2>4, <2>5
<1>4. ASSUME NEW x, Forks(r, p, x), forked' = forked \union {run} PROVE Goes(r, run)
  <2> DEFINE b == [j \in next |-> Child(p, j)]
  <2>1. \A i \in next : b[i] = Child(p, i)
    OBVIOUS
  <2>2. /\ tasks'[r][p] = x /\ x.pc = "join" /\ x.next = {} /\ x.result = "none"
        /\ \A q \in Paths : q # p /\ (\A i \in next : q # b[i]) => tasks'[r][q] = tasks[r][q]
        /\ \A i \in next :
              /\ b[i] \in Paths /\ tasks'[r][b[i]].pc = "enter"
              /\ tasks'[r][b[i]].node = Edges[i].to /\ tasks'[r][b[i]].next = {}
              /\ tasks'[r][b[i]].result = "none"
    BY <1>4, <2>1 DEF Forks
  <2>3. \A i, j \in next : b[i] = b[j] => i = j
    <3> SUFFICES ASSUME NEW i \in next, NEW j \in next, Child(p, i) = Child(p, j) PROVE i = j
      BY <2>1
    <3>1. p \in Seq(Branches) /\ i \in Branches /\ j \in Branches
      BY <1>2, PathSeq
    <3>2. Append(p, i)[Len(p) + 1] = i /\ Append(p, j)[Len(p) + 1] = j
      BY <3>1, AppendProperties
    <3> QED
      BY <3>2 DEF Child
  <2> HIDE DEF b
  <2>4. /\ RunOf(run)'.status = RunOf(run).status /\ RunOf(run)'.followed = RunOf(run).followed
        /\ RunOf(run)'.hitl = RunOf(run).hitl /\ RunOf(run)'.nodes = RunOf(run).nodes
        /\ RunOf(run)'.forks # {}
    BY <1>1, <1>4 DEF RunOf
  <2>5. VisitsOk(tasks'[r], RunOf(run)')
    <3>1. Sends(tasks[r], tasks'[r], p, b)
      BY <2>2, <2>3 DEF Sends
    <3> QED
      BY <1>0, <1>2, <2>4, <3>1, VisitsMove
  <2>6. \A q \in Paths : \/ tasks'[r][q] = tasks[r][q]
                         \/ tasks'[r][q].pc \in {"enter", "join"} /\ tasks'[r][q].result = "none"
    BY <2>2
  <2>7. Orderly(requests[r], nodeRuns[r], tasks'[r], RunOf(run)')
    BY <1>0, <1>2, <2>4, <2>5, <2>6, ForkOrderly
  <2> QED
    BY <1>1, <2>7 DEF Goes
<1> QED
  BY <1>0, <1>3, <1>4, FollowIs


\* A branch has returned: its goroutine is gone, and the fork may have its result.
BranchEnds(t, t2, p) ==
    /\ p # Root /\ t[p].pc = "return" /\ Front(p) \in Paths /\ t2[p] = NoTask
    /\ \A q \in Paths \ {p} :
          /\ t2[q].pc = t[q].pc /\ t2[q].node = t[q].node /\ t2[q].next = t[q].next
          /\ \/ t2[q].result = t[q].result
             \/ q = Front(p) /\ t[q].result = "none" /\ t2[q].result = t[p].result
          /\ t[q].cancelled => t2[q].cancelled

LEMMA BranchOrderly ==
  ASSUME NEW x, NEW m, NEW t, NEW u, Before(x, m, t, u), NEW p \in Paths,
         NEW t2, BranchEnds(t, t2, p)
  PROVE  Orderly(x, m, t2, u)
<1> USE DEF BranchEnds
<1>1. t[p] # NoTask /\ t[p] \in TaskSet
  BY Standing
<1>2. /\ ForksOk(x, m, t, u) /\ StageOk(x, m, u) /\ VisitsOk(t, u) /\ RunOk(u)
      /\ Tree(t, x.gone) /\ ~x.gone /\ u.forks # {}
  BY <1>1 DEF Before, Orderly, Serves, ForksOk
<1>3. ForksOk(x, m, t2, u)
  BY <1>2 DEF ForksOk
<1>4. VisitsOk(t2, u)
  <2>1. ASSUME NEW q \in Paths, NEW j \in Turns, NEW n \in Nodes, Comes(t2, q, j, n)
        PROVE  q # p /\ Comes(t, q, j, n)
    <3>1. q # p
      BY <2>1, NoTaskIs DEF Comes
    <3> QED
      BY <2>1, <3>1 DEF Comes
  <2>2. ASSUME NEW q \in Paths, NEW j \in Turns, NEW n \in Nodes, Comes(t2, q, j, n)
        PROVE  VisitOk(t2, u, q, j, n)
    <3>1. VisitOk(t, u, q, j, n) /\ q # p
      BY <1>2, <2>1, <2>2 DEF VisitsOk
    <3>2. Stands(t[q]) => Stands(t2[q])
      BY <3>1 DEF Stands
    <3> QED
      BY <2>1, <3>1, <3>2 DEF VisitOk
  <2>3. ASSUME NEW q \in Paths, Stands(t2[q]) PROVE u.nodes[t2[q].node] # "none"
    <3>1. q # p
      BY <2>3, NoTaskIs DEF Stands
    <3> QED
      BY <1>2, <2>3, <3>1 DEF VisitsOk, Stands
  <2> QED
    BY <2>2, <2>3 DEF VisitsOk
<1>5. ASSUME NEW q \in Paths PROVE PauseOk(m, t2, u, q)
  <2>1. PauseOk(m, t, u, q) /\ PauseOk(m, t, u, p)
    BY DEF Before, Orderly
  <2>2. CASE q = p
    BY <2>2, NoTaskIs DEF PauseOk
  <2>3. CASE q # p /\ t2[q].result = t[q].result
    BY <2>1, <2>3 DEF PauseOk
  <2>4. CASE q # p /\ q = Front(p) /\ t[q].result = "none" /\ t2[q].result = t[p].result
    <3>1. ASSUME ~t2[q].cancelled PROVE ~t[p].cancelled
      <4> SUFFICES ASSUME t[p].cancelled PROVE FALSE
        OBVIOUS
      <4>1. PICK o \in Paths : IsStrictPrefix(o, p) /\ t[o].result # "none"
        BY <1>2 DEF Tree
      <4>2. IsStrictPrefix(o, q)
        BY <2>4, <4>1, AboveParent
      <4>3. t[q] # NoTask
        <5>1. IsStrictPrefix(q, p)
          BY <2>4, ParentMeans
        <5> QED
          BY <1>1, <1>2, <5>1, NoTaskIs DEF Tree
      <4> QED
        BY <1>2, <2>4, <3>1, <4>1, <4>2, <4>3 DEF Tree
    <3> QED
      BY <2>1, <2>4, <3>1 DEF PauseOk
  <2> QED
    BY <2>2, <2>3, <2>4
<1> QED
  BY <1>2, <1>3, <1>4, <1>5 DEF Orderly

LEMMA ReturnFromBranchOrderly ==
  ASSUME [Next]_vars, NEW r \in Requests, NEW p \in Paths, NEW run, Serving(r, run),
         ReturnFromBranch(r, p)
  PROVE  Goes(r, run)
<1>0. /\ ServedInv /\ Before(requests[r], nodeRuns[r], tasks[r], RunOf(run))
  BY DEF Serving, Typed
<1>1. Returned(r, p)
  BY <1>0, ReturnFromBranchIs
<1>2. BranchEnds(tasks[r], tasks'[r], p)
  BY <1>1 DEF Returned, BranchEnds
<1>3. nodeRuns' = nodeRuns /\ RunOf(run)' = RunOf(run)
  BY DEF ReturnFromBranch, redis, history, RunOf
<1>4. Orderly(requests[r], nodeRuns[r], tasks'[r], RunOf(run))
  BY <1>0, <1>2, BranchOrderly
<1> QED
  BY <1>3, <1>4 DEF Goes

\* Whatever a goroutine of the request does, it leaves its run in order.
LEMMA TaskOrderly ==
  ASSUME [Next]_vars, NEW r \in Requests, NEW p \in Paths, NEW run, Serving(r, run), run \in live,
         Task(r, p)
  PROVE  Goes(r, run)
BY EnterNodeOk, ScriptEndsOk, PauseHITLOk, PauseRunOk, ResolveOrderly, FollowOrderly,
   ReturnFromBranchOrderly, JoinOrderly DEF Task


----------------------------------------------------------------------------
(* Steps of requests in an undisturbed run *)

\* Request x serves run u, at any stage.
During(x, m, t, u) == Serves(x, m, t) /\ RunTyped(u) /\ Orderly(x, m, t, u) /\ x \in RequestSet

NoneAtWork(t) == \A p \in Paths : t[p] = NoTask

\* Where no goroutine is at work, none visits a node or has paused.
LEMMA AtRest ==
  ASSUME NEW m, NEW t, NEW u, NoneAtWork(t)
  PROVE  VisitsOk(t, u) /\ \A p \in Paths : PauseOk(m, t, u, p)
<1>1. \A p \in Paths, i \in Turns, n \in Nodes : ~Comes(t, p, i, n)
  BY NoTaskIs DEF Comes, NoneAtWork
<1>2. \A p \in Paths : ~Stands(t[p]) /\ PauseOk(m, t, u, p)
  BY NoTaskIs DEF Stands, PauseOk, NoneAtWork
<1> QED
  BY <1>1, <1>2 DEF VisitsOk

LEMMA Resting ==
  ASSUME NEW x, NEW m, NEW t, Serves(x, m, t), x.pc # "running" PROVE NoneAtWork(t)
BY DEF Serves, NoTasks, NoneAtWork

\* A request that only waits for its answer, or for its first step.
SameAim(x, y) == y.kind = x.kind /\ y.hitl = x.hitl /\ y.gone = x.gone

\* The root of the goroutines is planted, at the entry or at the node that waited.
LEMMA PlantStep ==
  ASSUME NEW x, NEW m, NEW t, NEW u, During(x, m, t, u), x.pc = "counters",
         NEW y, SameAim(x, y), y.pc = "running", y.result = "none",
         NEW m2, NEW t2, OnlyTask(t, t2, Root), t2[Root].result = "none", t2[Root].next = {},
         \/ x.kind = "execute" /\ t2[Root].pc = "enter" /\ t2[Root].node = Entry /\ m2 = m
         \/ x.kind = "resume" /\ t2[Root].pc = "resolve" /\ m2 = x.hitl.runs /\ x.hitl \in HITLStates
  PROVE  Orderly(y, m2, t2, u)
<1>0. ForksOk(x, m, t, u) /\ StageOk(x, m, u) /\ RunOk(u) /\ Root \in Paths /\ NoneAtWork(t)
  BY Resting, RootPath DEF During, Orderly
<1>1. \A q \in Paths : q # Root => t2[q] = NoTask
  BY <1>0 DEF NoneAtWork, OnlyTask
<1>2. ASSUME x.kind = "execute"
      PROVE  /\ u.hitl = NoHITL /\ \A n \in Nodes : u.nodes[n] = "none"
             /\ \A n \in Nodes : m[n].status = "none"
  BY <1>0, <1>2, NoInstanceIs DEF StageOk
<1>3. ForksOk(y, m2, t2, u)
  <2>1. CASE x.kind = "execute"
    BY <1>0, <1>1, <1>2, <2>1 DEF ForksOk, SameAim
  <2>2. CASE x.kind = "resume" /\ m2 = x.hitl.runs /\ x.hitl \in HITLStates
    <3>1. Concluded(u) /\ x.hitl = u.hitl /\ u.hitl # NoHITL
      BY <1>0, <2>2, NoHITLIs DEF StageOk
    <3>2. u.forks # {} \/ \A n \in Nodes : m2[n].status # "RUNNING"
      BY <2>2, <3>1 DEF Concluded, CanResume
    <3> QED
      BY <1>0, <1>1, <2>2, <3>2 DEF ForksOk, SameAim
  <2> QED
    BY <2>1, <2>2
<1>4. StageOk(y, m2, u)
  BY <1>0 DEF StageOk
<1>5. VisitsOk(t2, u)
  <2>1. ASSUME NEW q \in Paths, NEW j \in Turns, NEW n \in Nodes, Comes(t2, q, j, n)
        PROVE  q = Root /\ j = 0 /\ x.kind = "execute" /\ n = Entry
    BY <1>1, <2>1, NoTaskIs DEF Comes
  <2>2. ASSUME NEW q \in Paths, NEW j \in Turns, NEW n \in Nodes, Comes(t2, q, j, n)
        PROVE  VisitOk(t2, u, q, j, n)
    <3>1. q = Root /\ j = 0 /\ x.kind = "execute" /\ n = Entry
      BY <2>1, <2>2
    <3>2. u.hitl.node # n
      BY <1>2, <3>1, NoHITLIs, NamesAssumption
    <3> QED
      BY <1>2, <2>1, <3>1, <3>2 DEF VisitOk, Arrived
  <2>3. \A q \in Paths : ~Stands(t2[q])
    BY <1>1, NoTaskIs DEF Stands
  <2> QED
    BY <2>2, <2>3 DEF VisitsOk
<1>6. \A q \in Paths : PauseOk(m2, t2, u, q)
  BY <1>1, NoTaskIs DEF PauseOk
<1> QED
  BY <1>0, <1>3, <1>4, <1>5, <1>6 DEF Orderly

\* The request's own goroutine has returned.
LEMMA RootStep ==
  ASSUME NEW x, NEW m, NEW t, NEW u, During(x, m, t, u), t[Root].pc = "return", x.pc = "running",
         NEW y, SameAim(x, y), y.result = t[Root].result,
         y.pc = IF t[Root].result = "await" THEN "cleanup" ELSE "persist",
         NEW t2, NoneAtWork(t2)
  PROVE  Orderly(y, m, t2, u)
<1>0. ForksOk(x, m, t, u) /\ StageOk(x, m, u) /\ RunOk(u) /\ Root \in Paths /\ PauseOk(m, t, u, Root)
  BY RootPath DEF During, Orderly
<1>1. ~t[Root].cancelled
  BY <1>0, NothingAboveRoot DEF During, Serves, Tree, ForksOk
<1>2. x.result = "none"
  BY DEF During, Serves, RequestOk
<1>3. ForksOk(y, m, t2, u)
  BY <1>0, <1>2 DEF ForksOk, SameAim, NoneAtWork, Waits
<1>4. StageOk(y, m, u)
  BY <1>0, <1>1 DEF StageOk, PauseOk, Concluded
<1> QED
  BY <1>0, <1>3, <1>4, AtRest DEF Orderly

\* The final status is written.
LEMMA PersistStep ==
  ASSUME NEW x, NEW m, NEW t, NEW u, During(x, m, t, u), x.pc = "persist",
         x.kind = "execute" /\ x.result = "ok" => u.hitl = NoHITL,
         NEW y, SameAim(x, y), y.result = x.result,
         y.pc = IF x.kind = "resume" THEN "delete" ELSE "cleanup",
         NEW w, w.hitl = u.hitl, w.nodes = u.nodes, w.followed = u.followed, w.forks = u.forks,
         w.status = IF x.result = "ok" THEN "SUCCESS" ELSE "FAILED"
  PROVE  Orderly(y, m, t, w)
<1>0. /\ ForksOk(x, m, t, u) /\ RunOk(u) /\ NoneAtWork(t)
      /\ x.result \in {"ok", "failed"} /\ x.kind \in {"execute", "resume"}
  BY Resting DEF During, Orderly, Serves, RequestOk, RequestSet
<1>1. ForksOk(y, m, t, w)
  BY <1>0 DEF ForksOk, SameAim, Waits
<1>2. StageOk(y, m, w)
  <2>1. ASSUME y.pc = "cleanup" PROVE Concluded(w)
    <3>1. x.kind = "execute"
      BY <1>0, <2>1
    <3>2. CASE x.result = "ok"
      BY <3>1, <3>2 DEF Concluded
    <3>3. CASE x.result = "failed"
      <4>1. ~Waits(x, t)
        BY <1>0, <3>3, NoTaskIs, RootPath DEF Waits, NoneAtWork
      <4> QED
        BY <1>0, <3>1, <3>3, <4>1 DEF ForksOk, Concluded
    <3> QED
      BY <1>0, <3>2, <3>3
  <2> QED
    BY <2>1 DEF StageOk
<1>3. RunOk(w)
  BY <1>0 DEF RunOk, Arrived
<1> QED
  BY <1>0, <1>1, <1>2, <1>3, AtRest DEF Orderly

\* The record of the pause is deleted.
LEMMA DeleteStep ==
  ASSUME NEW x, NEW m, NEW t, NEW u, During(x, m, t, u), x.pc = "delete",
         NEW y, SameAim(x, y), y.result = x.result, y.pc = "cleanup",
         NEW w, w.hitl = NoHITL, w.nodes = u.nodes, w.followed = u.followed, w.forks = u.forks,
         w.status = u.status
  PROVE  Orderly(y, m, t, w)
<1>0. ForksOk(x, m, t, u) /\ StageOk(x, m, u) /\ RunOk(u) /\ NoneAtWork(t)
  BY Resting DEF During, Orderly
<1>1. ForksOk(y, m, t, w)
  BY <1>0 DEF ForksOk, SameAim
<1>2. StageOk(y, m, w)
  BY <1>0 DEF StageOk, Concluded
<1>3. RunOk(w)
  BY <1>0, <1>2 DEF RunOk, Arrived, StageOk
<1> QED
  BY <1>0, <1>1, <1>2, <1>3, AtRest DEF Orderly

\* A request begins.
LEMMA ArisesStep ==
  ASSUME NEW y, y.pc = "counters", y.result = "none", ~y.gone,
         NEW t, NoneAtWork(t), NEW u, RunOk(u), u.status # "none",
         u.forks = {} => u.status \in {"RUNNING", "WAITING_FEEDBACK"},
         y.kind = "resume" => Concluded(u) /\ y.hitl = u.hitl,
         y.kind = "execute" => u.hitl = NoHITL /\ \A n \in Nodes : u.nodes[n] = "none"
  PROVE  Orderly(y, NoInstances, t, u)
<1>1. ForksOk(y, NoInstances, t, u)
  BY NoInstanceIs DEF ForksOk, NoneAtWork
<1>2. StageOk(y, NoInstances, u)
  BY DEF StageOk
<1> QED
  BY <1>1, <1>2, AtRest DEF Orderly


----------------------------------------------------------------------------
(* A step of one request is no step of another *)

\* Only request r, and of the runs only run, may change.
Apart(r, run) ==
    /\ \A s \in Requests \ {r} :
          requests'[s] = requests[s] /\ nodeRuns'[s] = nodeRuns[s] /\ tasks'[s] = tasks[s]
    /\ \A v \in Runs \ {run} : RunOf(v)' = RunOf(v)

LEMMA TasksApart ==
  ASSUME Typed, [Next]_vars, NEW s \in Requests, \A q \in Paths : tasks'[s][q] = tasks[s][q]
  PROVE  tasks'[s] = tasks[s]
<1>1. Typed'
  BY TypedStep
<1>2. tasks[s] \in [Paths -> TaskSet \union {NoTask}] /\ tasks'[s] \in [Paths -> TaskSet \union {NoTask}]
  BY <1>1 DEF Typed, ServedInv, Served
<1> QED
  BY <1>2

LEMMA NodeRunsApart ==
  ASSUME Typed, [Next]_vars, NEW s \in Requests, \A n \in Nodes : nodeRuns'[s][n] = nodeRuns[s][n]
  PROVE  nodeRuns'[s] = nodeRuns[s]
<1>1. Typed'
  BY TypedStep
<1>2. nodeRuns[s] \in [Nodes -> Instances] /\ nodeRuns'[s] \in [Nodes -> Instances]
  BY <1>1 DEF Typed, ServedInv, Served
<1> QED
  BY <1>2

LEMMA RunApart ==
  ASSUME Typed, [Next]_vars, NEW v \in Runs, flowRun'[v] = flowRun[v], hitl'[v] = hitl[v],
         \A n \in Nodes : nodeState'[v][n] = nodeState[v][n],
         \A pair \in Pairs : traversals'[v][pair] = traversals[v][pair],
         v \in forked' <=> v \in forked
  PROVE  RunOf(v)' = RunOf(v)
<1>1. Typed'
  BY TypedStep
<1>2. /\ nodeState[v] \in [Nodes -> RunStatuses] /\ nodeState'[v] \in [Nodes -> RunStatuses]
      /\ traversals[v] \in [Pairs -> Nat] /\ traversals'[v] \in [Pairs -> Nat]
  BY <1>1 DEF Typed, ServedInv, RedisTyped, CountersInv, CountersTyped
<1>3. nodeState'[v] = nodeState[v] /\ traversals'[v] = traversals[v]
  BY <1>2
<1>4. forked' \intersect {v} = forked \intersect {v}
  OBVIOUS
<1> QED
  BY <1>3, <1>4 DEF RunOf

\* A goroutine's step at a node.
LEMMA NodeApart ==
  ASSUME Typed, [Next]_vars, NEW r \in Requests, NEW p \in Paths, NEW run \in Runs,
         NEW x, Moves(r, p, x), UNCHANGED <<requests, flowRun, hitl, history>>,
         NEW n0, nodeRuns' = nodeRuns \/ \E i : Made(r, n0, i),
         nodeState' = nodeState \/ \E status : \E lost \in BOOLEAN : Noted(run, n0, status, lost)
  PROVE  Apart(r, run)
<1>1. ASSUME NEW s \in Requests \ {r} PROVE nodeRuns'[s] = nodeRuns[s] /\ tasks'[s] = tasks[s]
  <2>1. \A q \in Paths : tasks'[s][q] = tasks[s][q]
    BY DEF Moves
  <2>2. \A n \in Nodes : nodeRuns'[s][n] = nodeRuns[s][n]
    BY DEF Made
  <2> QED
    BY <2>1, <2>2, TasksApart, NodeRunsApart
<1>2. ASSUME NEW v \in Runs \ {run} PROVE RunOf(v)' = RunOf(v)
  <2>1. \A n \in Nodes : nodeState'[v][n] = nodeState[v][n]
    BY DEF Noted
  <2> QED
    BY <2>1, RunApart DEF history
<1> QED
  BY <1>1, <1>2 DEF Apart

\* A goroutine's step that leaves the nodes alone.
LEMMA StepApart ==
  ASSUME Typed, [Next]_vars, NEW r \in Requests, NEW run \in Runs,
         \A s \in Requests \ {r}, q \in Paths : tasks'[s][q] = tasks[s][q],
         UNCHANGED <<requests, nodeState, nodeRuns>>,
         \A v \in Runs \ {run} :
            /\ flowRun'[v] = flowRun[v] /\ hitl'[v] = hitl[v] /\ (v \in forked' <=> v \in forked)
            /\ \A pair \in Pairs : traversals'[v][pair] = traversals[v][pair]
  PROVE  Apart(r, run)
<1>1. ASSUME NEW s \in Requests \ {r} PROVE tasks'[s] = tasks[s]
  BY TasksApart
<1>2. ASSUME NEW v \in Runs \ {run} PROVE RunOf(v)' = RunOf(v)
  BY RunApart
<1> QED
  BY <1>1, <1>2 DEF Apart

LEMMA TaskApart ==
  ASSUME Typed, [Next]_vars, NEW r \in Requests, NEW p \in Paths, Task(r, p), Run(r) \in live
  PROVE  requests' = requests /\ Run(r) \in Runs /\ Apart(r, Run(r))
<1>0. ServedInv /\ MemoryTyped /\ CountersTyped
  BY DEF Typed, CountersInv
<1> DEFINE n0 == tasks[r][p].node
<1>1. Run(r) \in Runs
  BY <1>0 DEF MemoryTyped
<1>2. CASE EnterNode(r, p)
  <2>1. PICK x : Enters(r, p, x)
    BY <1>0, <1>2, EnterNodeIs
  <2>2. /\ Moves(r, p, x)
        /\ nodeRuns' = nodeRuns \/ \E i : Made(r, n0, i)
        /\ nodeState' = nodeState \/ \E status : \E lost \in BOOLEAN : Noted(Run(r), n0, status, lost)
    BY <2>1 DEF Enters
  <2>3. UNCHANGED <<requests, flowRun, hitl, history>>
    BY <1>2 DEF EnterNode
  <2> QED
    BY <1>1, <2>2, <2>3, NodeApart
<1>3. CASE ScriptFails(r, p)
  <2>1. PICK x \in TaskSet, lost \in BOOLEAN :
           /\ Moves(r, p, x) /\ \E i : Made(r, n0, i)
           /\ Noted(Run(r), n0, "FAILED", lost)
    BY <1>0, <1>3, ScriptFailsIs
  <2>2. UNCHANGED <<requests, flowRun, hitl, history>>
    BY <1>3 DEF ScriptFails
  <2> QED
    BY <1>1, <2>1, <2>2, NodeApart
<1>4. CASE ScriptReturns(r, p)
  <2>1. PICK x \in TaskSet, lost \in BOOLEAN : Outputs(r, p, x, lost)
    BY <1>0, <1>4, ScriptReturnsIs
  <2>2. /\ Moves(r, p, x) /\ \E i : Made(r, n0, i)
        /\ \E status : Noted(Run(r), n0, status, lost)
    BY <2>1 DEF Outputs
  <2>3. UNCHANGED <<requests, flowRun, hitl, history>>
    BY <1>4 DEF ScriptReturns
  <2> QED
    BY <1>1, <2>2, <2>3, NodeApart
<1>5. CASE PauseHITL(r, p)
  <2>1. PICK x \in TaskSet, lost \in BOOLEAN :
           Moves(r, p, x) /\ \A u \in Runs : u # Run(r) \/ lost => hitl'[u] = hitl[u]
    BY <1>0, <1>5, PauseHITLIs
  <2>2. UNCHANGED <<requests, nodeRuns, flowRun, nodeState, traversals, forked>>
    BY <1>5 DEF PauseHITL, history
  <2> QED
    BY <1>1, <2>1, <2>2, StepApart DEF Moves
<1>6. CASE PauseRun(r, p)
  <2>1. PICK x \in TaskSet, lost \in BOOLEAN :
           /\ Moves(r, p, x)
           /\ \A u \in Runs : flowRun'[u] = IF u = Run(r) /\ ~lost THEN "WAITING_FEEDBACK" ELSE flowRun[u]
    BY <1>0, <1>6, PauseRunIs
  <2>2. UNCHANGED <<requests, nodeRuns, hitl, nodeState, traversals, forked>>
    BY <1>6 DEF PauseRun, history
  <2> QED
    BY <1>1, <2>1, <2>2, StepApart DEF Moves
<1>7. CASE Resolve(r, p)
  <2>1. PICK x : Looks(r, p, x)
    BY <1>0, <1>7, ResolveIs
  <2>2. UNCHANGED <<requests, nodeRuns, flowRun, hitl, nodeState, forked>>
    BY <1>7 DEF Resolve, redis, history
  <2>3. \A v \in Runs \ {Run(r)}, pair \in Pairs : traversals'[v][pair] = traversals[v][pair]
    BY <1>0, <2>1 DEF Looks, history, CountersTyped
  <2>4. Moves(r, p, x)
    BY <2>1 DEF Looks
  <2> QED
    BY <1>1, <2>2, <2>3, <2>4, StepApart DEF Moves
<1>8. CASE Follow(r, p)
  <2>1. UNCHANGED <<requests, nodeRuns, flowRun, hitl, nodeState, traversals>>
    BY <1>8 DEF Follow, redis
  <2>2. \A s \in Requests \ {r}, q \in Paths : tasks'[s][q] = tasks[s][q]
    BY <1>0, <1>8, FollowIs DEF Moves, Forks
  <2>3. forked' = forked \/ forked' = forked \union {Run(r)}
    BY <1>0, <1>8, FollowIs
  <2> QED
    BY <1>1, <2>1, <2>2, <2>3, StepApart
<1>9. CASE ReturnFromBranch(r, p) \/ Join(r, p)
  <2>1. UNCHANGED <<requests, nodeRuns, flowRun, hitl, nodeState, traversals, forked>>
    BY <1>9 DEF ReturnFromBranch, Join, redis, history
  <2>2. \A s \in Requests \ {r}, q \in Paths : tasks'[s][q] = tasks[s][q]
    BY <1>0, <1>9, ReturnFromBranchIs, JoinIs DEF Moves, Returned
  <2> QED
    BY <1>1, <2>1, <2>2, StepApart
<1>10. requests' = requests
  BY <1>2, <1>3, <1>4, <1>5, <1>6, <1>7, <1>8, <1>9
     DEF Task, EnterNode, ScriptFails, ScriptReturns, PauseHITL, PauseRun, Resolve, Follow,
         ReturnFromBranch, Join
<1> QED
  BY <1>1, <1>2, <1>3, <1>4, <1>5, <1>6, <1>7, <1>8, <1>9, <1>10 DEF Task


----------------------------------------------------------------------------
(* Pauses can be answered *)

\* Request r serves its run as it should; a new run that has paused is doomed.
Sound(r, run) ==
    /\ Orderly(requests[r], nodeRuns[r], tasks[r], RunOf(run))
    /\ requests[r].kind = "execute" /\ hitl[run] # NoHITL => Doomed(r)

\* The invariant of what nothing has disturbed: a run that is not being served has
\* concluded, and one that is being served goes on in order.
InForce ==
    Undisturbed =>
       /\ \A run \in Runs :
             RunOk(RunOf(run)) /\ (Idle(run) /\ flowRun[run] # "none" => Concluded(RunOf(run)))
       /\ \A r \in Requests : requests[r] = NoRequest => nodeRuns[r] = NoInstances
       /\ \A r \in Requests, run \in Runs : Run(r) = run => Sound(r, run)

LEMMA RequestApart ==
  ASSUME Typed, [Next]_vars, NEW r \in Requests, NEW run \in Runs, NEW y, Asks(r, y),
         tasks' = tasks \/ \E x : Moves(r, Root, x),
         \A s \in Requests \ {r} : nodeRuns'[s] = nodeRuns[s],
         UNCHANGED <<nodeState, traversals, forked>>,
         \A v \in Runs \ {run} : flowRun'[v] = flowRun[v] /\ hitl'[v] = hitl[v]
  PROVE  Apart(r, run)
<1>1. ASSUME NEW s \in Requests \ {r} PROVE tasks'[s] = tasks[s]
  BY TasksApart DEF Moves
<1>2. \A v \in Runs \ {run} : RunOf(v)' = RunOf(v)
  BY RunApart
<1> QED
  BY <1>1, <1>2 DEF Apart, Asks

\* A request that is served keeps the rest in force, if it is itself sound after the step.
LEMMA GoesOnInForce ==
  ASSUME Typed, InForce, Undisturbed, Alone', NEW r \in Requests, NEW run \in Runs, Apart(r, run),
         Run(r) = run \/ requests[r] = NoRequest, requests'[r].run = run, Sound(r, run)'
  PROVE  InForce'
<1>0. /\ run # "none" /\ NoRequest.run = "none" /\ requests'[r] # NoRequest
      /\ \A v \in Runs : v # "none"
  BY NoRequestIs, NamesAssumption
<1>1. ASSUME NEW s \in Requests \ {r}, NEW v \in Runs, Run(s)' = v
      PROVE  Run(s) = v /\ v # run
  <2>1. Run(s) = v
    BY <1>1 DEF Apart, Run
  <2>2. requests'[s] # NoRequest
    BY <1>0, <1>1 DEF Run
  <2> QED
    BY <1>0, <1>1, <2>1, <2>2 DEF Alone, Active, Run
<1>2. ASSUME NEW s \in Requests, NEW v \in Runs, Run(s)' = v PROVE Sound(s, v)'
  <2>1. CASE s = r
    BY <1>2, <2>1 DEF Run
  <2>2. CASE s # r
    <3>1. Run(s) = v /\ v # run
      BY <1>1, <1>2, <2>2
    <3>2. Sound(s, v)
      BY <3>1 DEF InForce
    <3>3. /\ requests'[s] = requests[s] /\ nodeRuns'[s] = nodeRuns[s] /\ tasks'[s] = tasks[s]
          /\ RunOf(v)' = RunOf(v)
      BY <2>2, <3>1 DEF Apart
    <3>4. hitl'[v] = hitl[v]
      BY <3>3 DEF RunOf
    <3> QED
      BY <3>2, <3>3, <3>4 DEF Sound, Doomed
  <2> QED
    BY <2>1, <2>2
<1>3. ASSUME NEW v \in Runs
      PROVE  RunOk(RunOf(v)') /\ (Idle(v)' /\ flowRun'[v] # "none" => Concluded(RunOf(v)'))
  <2>1. CASE v = run
    BY <2>1 DEF Sound, Orderly, Idle
  <2>2. CASE v # run
    <3>1. RunOf(v)' = RunOf(v)
      BY <2>2 DEF Apart
    <3>2. flowRun'[v] = flowRun[v]
      BY <3>1 DEF RunOf
    <3>3. Idle(v)' => Idle(v)
      BY <1>0, <2>2 DEF Idle, Apart, Run
    <3> QED
      BY <3>1, <3>2, <3>3 DEF InForce
  <2> QED
    BY <2>1, <2>2
<1>4. \A s \in Requests : requests'[s] = NoRequest => nodeRuns'[s] = NoInstances
  BY <1>0 DEF InForce, Apart
<1> QED
  BY <1>2, <1>3, <1>4 DEF InForce

\* So does one that ends once its run has concluded.
LEMMA EndsInForce ==
  ASSUME Typed, InForce, Undisturbed, NEW r \in Requests, NEW run \in Runs, Apart(r, run),
         RunOf(run)' = RunOf(run), Run(r) = run, requests'[r] = NoRequest,
         nodeRuns'[r] = NoInstances, Concluded(RunOf(run))
  PROVE  InForce'
<1>0. NoRequest.run = "none" /\ \A v \in Runs : v # "none"
  BY NoRequestIs, NamesAssumption
<1>1. ASSUME NEW v \in Runs PROVE RunOf(v)' = RunOf(v) /\ flowRun'[v] = flowRun[v] /\ hitl'[v] = hitl[v]
  <2>1. RunOf(v)' = RunOf(v)
    BY DEF Apart
  <2> QED
    BY <2>1 DEF RunOf
<1>2. ASSUME NEW s \in Requests, NEW v \in Runs, Run(s)' = v PROVE Sound(s, v)'
  <2>1. s # r
    BY <1>0, <1>2 DEF Run
  <2>2. requests'[s] = requests[s] /\ nodeRuns'[s] = nodeRuns[s] /\ tasks'[s] = tasks[s]
    BY <2>1 DEF Apart
  <2>3. Sound(s, v)
    BY <1>2, <2>2 DEF InForce, Run
  <2> QED
    BY <1>1, <2>2, <2>3 DEF Sound, Doomed
<1>3. ASSUME NEW v \in Runs
      PROVE  RunOk(RunOf(v)') /\ (Idle(v)' /\ flowRun'[v] # "none" => Concluded(RunOf(v)'))
  <2>1. CASE v = run
    BY <1>1, <2>1 DEF InForce
  <2>2. CASE v # run
    <3>1. Idle(v)' => Idle(v)
      BY <2>2 DEF Idle, Apart, Run
    <3> QED
      BY <1>1, <3>1 DEF InForce
  <2> QED
    BY <2>1, <2>2
<1>4. \A s \in Requests : requests'[s] = NoRequest => nodeRuns'[s] = NoInstances
  BY DEF InForce, Apart
<1> QED
  BY <1>2, <1>3, <1>4 DEF InForce

\* Who pauses a run: a goroutine of a request that serves it.
LEMMA PausesAre ==
  ASSUME Typed, [Next]_vars, NEW run \in Runs, hitl'[run] # hitl[run], hitl'[run] # NoHITL
  PROVE  \E r \in Requests, p \in Paths : Run(r) = run /\ tasks'[r][p].pc = "pauseRun"
<1>0. ServedInv
  BY DEF Typed
<1>1. hitl' # hitl
  OBVIOUS
<1>2. ASSUME NEW r \in Requests, ResumeDelete(r) PROVE hitl'[run] \in {hitl[run], NoHITL}
  BY <1>0, <1>2, ResumeDeleteIs
<1>3. ASSUME NEW r \in Requests, NEW p \in Paths, PauseHITL(r, p)
      PROVE  Run(r) = run /\ tasks'[r][p].pc = "pauseRun"
  BY <1>0, <1>3, PauseHITLIs DEF Moves
<1>4. ASSUME NEW r \in Requests, NEW v \in Runs, ExecuteBegin(r, v) \/ SubmitFeedback(r, v) PROVE FALSE
  BY <1>1, <1>4 DEF ExecuteBegin, SubmitFeedback, redis
<1>5. ASSUME NEW r \in Requests, Serve(r) PROVE ResumeDelete(r)
  BY <1>1, <1>5 DEF Serve, ExecuteCounters, ResumeCounters, ReturnFromRoot, Persist, Cleanup, redis
<1>6. ASSUME NEW r \in Requests, FeedbackAbandoned(r) \/ Disconnect(r) PROVE FALSE
  BY <1>1, <1>6 DEF FeedbackAbandoned, Disconnect, redis
<1>7. ASSUME NEW r \in Requests, NEW p \in Paths, Task(r, p) PROVE PauseHITL(r, p)
  <2>1. ~EnterNode(r, p) /\ ~ScriptFails(r, p) /\ ~ScriptReturns(r, p) /\ ~PauseRun(r, p)
    BY <1>1 DEF EnterNode, ScriptFails, ScriptReturns, PauseRun
  <2>2. ~Follow(r, p) /\ ~ReturnFromBranch(r, p) /\ ~Join(r, p)
    BY <1>1 DEF Follow, ReturnFromBranch, Join, redis
  <2>3. ~Resolve(r, p)
    BY <1>1 DEF Resolve, ProcessDies, redis
  <2> QED
    BY <1>7, <2>1, <2>2, <2>3 DEF Task
<1>8. ~Crash /\ ~UNCHANGED vars
  BY <1>1 DEF Crash, ProcessDies, redis, vars
<1> QED
  BY <1>2, <1>3, <1>4, <1>5, <1>6, <1>7, <1>8 DEF Next

\* A new run that has paused stays doomed.
LEMMA DoomKept ==
  ASSUME Typed, [Next]_vars, Alone, NEW r \in Requests, NEW run \in Runs, Run(r) = run, Sound(r, run),
         requests'[r] # NoRequest, requests'[r].kind = "execute", hitl'[run] # NoHITL
  PROVE  Doomed(r)'
<1>1. Active(r)
  BY NoRequestIs, NamesAssumption DEF Active, Run
<1>2. CASE hitl'[run] = hitl[run]
  <2>1. requests'[r] = requests[r] \/ GoesOn(r, requests'[r])
    BY <1>1, RequestGoesOn
  <2>2. requests[r].kind = "execute"
    BY <2>1 DEF GoesOn
  <2>3. Doomed(r)
    BY <1>2, <2>2 DEF Sound
  <2> QED
    BY <1>1, <2>3, DoomedStays
<1>3. CASE hitl'[run] # hitl[run]
  <2>1. PICK s \in Requests, p \in Paths : Run(s) = run /\ tasks'[s][p].pc = "pauseRun"
    BY <1>3, PausesAre
  <2>2. Active(s)
    BY <2>1, NoRequestIs, NamesAssumption DEF Active, Run
  <2>3. s = r
    BY <1>1, <2>1, <2>2 DEF Alone
  <2> QED
    BY <2>1, <2>3 DEF Doomed, Troubled
<1> QED
  BY <1>2, <1>3


\* A request that was served and still is.
LEMMA Advances ==
  ASSUME Typed, [Next]_vars, InForce, Undisturbed, Alone, Alone',
         NEW r \in Requests, NEW run \in Runs, Run(r) = run, Apart(r, run), requests'[r].run = run,
         Orderly(requests'[r], nodeRuns'[r], tasks'[r], RunOf(run)')
  PROVE  InForce'
<1>1. requests'[r] # NoRequest
  BY NoRequestIs, NamesAssumption
<1>2. Sound(r, run)
  BY DEF InForce
<1>3. Sound(r, run)'
  BY <1>1, <1>2, DoomKept DEF Sound
<1> QED
  BY <1>3, GoesOnInForce

\* What holds of a request that is about to take a step.
LEMMA DuringIs ==
  ASSUME Typed, [Next]_vars, InForce, Undisturbed, NEW r \in Requests, NEW run \in Runs, Run(r) = run
  PROVE  During(requests[r], nodeRuns[r], tasks[r], RunOf(run)) /\ Sound(r, run)
<1>1. requests[r] # NoRequest
  BY NoRequestIs, NamesAssumption DEF Run
<1>2. requests[r] \in RequestSet /\ Serves(requests[r], nodeRuns[r], tasks[r])
  BY <1>1 DEF Typed, ServedInv, Served
<1>3. RunTyped(RunOf(run)) /\ Sound(r, run)
  BY RunMovesOn DEF InForce
<1> QED
  BY <1>2, <1>3 DEF During, Sound

LEMMA ExecuteBeginInForce ==
  ASSUME Typed, [Next]_vars, InForce, Undisturbed, Undisturbed', Alone', NEW r \in Requests,
         NEW run \in Runs, ExecuteBegin(r, run)
  PROVE  InForce'
<1>0. ServedInv
  BY DEF Typed
<1>1. PICK lost \in BOOLEAN :
         /\ Write(FALSE, lost)
         /\ Asks(r, IF lost THEN NoRequest ELSE Incoming("execute", run, NoHITL))
  BY <1>0, ExecuteBeginIs
<1>2. /\ requests[r] = NoRequest /\ flowRun[run] = "none"
      /\ \A v \in Runs : flowRun'[v] = IF v = run THEN "RUNNING" ELSE flowRun[v]
  BY <1>0, ExecuteBeginIs DEF Recorded
<1>3. ~lost
  BY <1>1, CalmWrite
<1> DEFINE y == Incoming("execute", run, NoHITL)
<1>4. /\ y.pc = "counters" /\ y.run = run /\ y.kind = "execute" /\ y.result = "none" /\ ~y.gone
  BY DEF Incoming, NoRequest
<1>5. Asks(r, y) /\ requests'[r] = y
  BY <1>1, <1>3 DEF Asks
<1> HIDE DEF y
<1>6. UNCHANGED <<hitl, nodeState, traversals, forked, nodeRuns, tasks>>
  BY DEF ExecuteBegin, history
<1>7. Apart(r, run)
  BY <1>2, <1>5, <1>6, RequestApart
<1>8. nodeRuns[r] = NoInstances /\ NoneAtWork(tasks[r])
  <2>1. Serves(requests[r], nodeRuns[r], tasks[r])
    BY <1>0 DEF ServedInv, Served
  <2> QED
    BY <1>2, <2>1, NoRequestIs, Resting DEF InForce
<1>9. /\ RunOf(run)'.status = "RUNNING" /\ RunOf(run).status = "none"
      /\ RunOf(run)'.hitl = RunOf(run).hitl /\ RunOf(run)'.nodes = RunOf(run).nodes
      /\ RunOf(run)'.followed = RunOf(run).followed /\ RunOf(run).hitl = hitl[run]
  BY <1>2, <1>6 DEF RunOf
<1>10. RunOk(RunOf(run))
  BY DEF InForce
<1>11. hitl[run] = NoHITL /\ \A n \in Nodes : RunOf(run).nodes[n] = "none"
  BY <1>9, <1>10 DEF RunOk
<1>12. RunOk(RunOf(run)')
  BY <1>9, <1>10, <1>11 DEF RunOk
<1>13. Orderly(y, NoInstances, tasks[r], RunOf(run)')
  BY <1>4, <1>8, <1>9, <1>11, <1>12, ArisesStep
<1>14. Sound(r, run)'
  BY <1>5, <1>6, <1>8, <1>11, <1>13 DEF Sound
<1> QED
  BY <1>2, <1>4, <1>5, <1>7, <1>14, GoesOnInForce

LEMMA SubmitFeedbackInForce ==
  ASSUME Typed, [Next]_vars, InForce, Undisturbed, Alone', Overlap = FALSE,
         NEW r \in Requests, NEW run \in Runs, SubmitFeedback(r, run)
  PROVE  InForce'
<1>0. ServedInv
  BY DEF Typed
<1> DEFINE y == Incoming("resume", run, hitl[run])
<1>1. requests[r] = NoRequest /\ hitl[run] \in HITLStates /\ Idle(run) /\ Asks(r, y)
  BY <1>0, SubmitFeedbackIs
<1>2. /\ y.pc = "counters" /\ y.run = run /\ y.kind = "resume" /\ y.result = "none" /\ ~y.gone
      /\ y.hitl = hitl[run]
  BY DEF Incoming, NoRequest
<1> HIDE DEF y
<1>3. requests'[r] = y
  BY <1>1 DEF Asks
<1>4. UNCHANGED <<flowRun, hitl, nodeState, traversals, forked, nodeRuns, tasks>>
  BY DEF SubmitFeedback, redis, history
<1>5. Apart(r, run)
  BY <1>1, <1>4, RequestApart
<1>6. nodeRuns[r] = NoInstances /\ NoneAtWork(tasks[r])
  <2>1. Serves(requests[r], nodeRuns[r], tasks[r])
    BY <1>0 DEF ServedInv, Served
  <2> QED
    BY <1>1, <2>1, NoRequestIs, Resting DEF InForce
<1>7. RunOf(run)' = RunOf(run) /\ RunOf(run).hitl = hitl[run] /\ RunOf(run).status = flowRun[run]
  BY <1>4 DEF RunOf
<1>8. RunOk(RunOf(run)) /\ hitl[run] # NoHITL
  BY <1>1, NoHITLIs DEF InForce
<1>9. RunOf(run).status # "none"
  BY <1>7, <1>8 DEF RunOk
<1>10. Concluded(RunOf(run))
  BY <1>1, <1>7, <1>9 DEF InForce
<1>11. RunOf(run).forks = {} => RunOf(run).status = "WAITING_FEEDBACK"
  BY <1>7, <1>8, <1>10 DEF Concluded
<1>12. Orderly(y, NoInstances, tasks[r], RunOf(run))
  BY <1>2, <1>6, <1>7, <1>8, <1>9, <1>10, <1>11, ArisesStep
<1>13. Sound(r, run)'
  BY <1>2, <1>3, <1>4, <1>6, <1>7, <1>12 DEF Sound
<1> QED
  BY <1>1, <1>2, <1>3, <1>5, <1>13, GoesOnInForce

LEMMA CountersInForce ==
  ASSUME Typed, [Next]_vars, InForce, Undisturbed, Alone, Alone', NEW r \in Requests,
         NEW run \in Runs, Run(r) = run,
         ExecuteCounters(r) \/ ResumeCounters(r)
  PROVE  InForce'
<1>0. ServedInv
  BY DEF Typed
<1>1. run \in Runs /\ requests[r].pc = "counters" /\ MakeCounters(run)
  BY <1>0, CountersIs
<1>2. PICK y : Asks(r, y) /\ Keeps(requests[r], y) /\ y.pc = "running" /\ y.result = "none"
  BY <1>0, CountersIs
<1>3. PICK x \in TaskSet :
         /\ Moves(r, Root, x) /\ x.result = "none" /\ x.next = {}
         /\ \/ /\ requests[r].kind = "execute" /\ x.pc = "enter" /\ x.node = Entry
               /\ nodeRuns' = nodeRuns
            \/ /\ requests[r].kind = "resume" /\ x.pc = "resolve" /\ requests[r].hitl \in HITLStates
               /\ nodeRuns' = [nodeRuns EXCEPT ![r] = requests[r].hitl.runs]
  BY <1>0, CountersIs
<1>4. requests'[r] = y /\ y.run = run /\ SameAim(requests[r], y)
  BY <1>2 DEF Asks, Keeps, SameAim, Run
<1>5. UNCHANGED <<flowRun, hitl, nodeState, traversals, forked>>
  BY <1>1 DEF ExecuteCounters, ResumeCounters, MakeCounters, redis
<1>6. /\ \A s \in Requests \ {r} : nodeRuns'[s] = nodeRuns[s]
      /\ requests[r].kind = "execute" => nodeRuns'[r] = nodeRuns[r]
      /\ requests[r].kind = "resume" => nodeRuns'[r] = requests[r].hitl.runs
  BY <1>0, <1>3 DEF ServedInv, Served
<1>7. Apart(r, run)
  BY <1>1, <1>2, <1>3, <1>5, <1>6, RequestApart
<1>8. RunOf(run)' = RunOf(run)
  BY <1>5 DEF RunOf
<1>9. During(requests[r], nodeRuns[r], tasks[r], RunOf(run))
  BY <1>1, DuringIs
<1>10. OnlyTask(tasks[r], tasks'[r], Root) /\ tasks'[r][Root] = x
  BY <1>3, RootPath, MovesMeans
<1>11. Orderly(y, nodeRuns'[r], tasks'[r], RunOf(run))
  BY <1>1, <1>2, <1>3, <1>4, <1>6, <1>9, <1>10, PlantStep
<1> QED
  BY <1>1, <1>4, <1>7, <1>8, <1>11, Advances

LEMMA ReturnFromRootInForce ==
  ASSUME Typed, [Next]_vars, InForce, Undisturbed, Alone, Alone', NEW r \in Requests,
         NEW run \in Runs, Run(r) = run, ReturnFromRoot(r)
  PROVE  InForce'
<1>0. ServedInv
  BY DEF Typed
<1>1. /\ tasks[r][Root].pc = "return" /\ Moves(r, Root, NoTask) /\ requests[r].pc = "running"
      /\ run \in Runs /\ \A q \in Paths : q # Root => tasks[r][q] = NoTask
  BY <1>0, ReturnFromRootIs
<1>2. PICK y : /\ Asks(r, y) /\ Keeps(requests[r], y) /\ y.result = tasks[r][Root].result
               /\ y.pc = IF tasks[r][Root].result = "await" THEN "cleanup" ELSE "persist"
  BY <1>0, ReturnFromRootIs
<1>3. requests'[r] = y /\ y.run = run /\ SameAim(requests[r], y)
  BY <1>2 DEF Asks, Keeps, SameAim, Run
<1>4. UNCHANGED <<flowRun, hitl, nodeState, traversals, forked, nodeRuns>>
  BY DEF ReturnFromRoot, redis, history
<1>5. Apart(r, run)
  BY <1>1, <1>2, <1>4, RequestApart
<1>6. RunOf(run)' = RunOf(run)
  BY <1>4 DEF RunOf
<1>7. During(requests[r], nodeRuns[r], tasks[r], RunOf(run))
  BY <1>1, DuringIs
<1>8. NoneAtWork(tasks'[r])
  BY <1>1 DEF NoneAtWork, Moves
<1>9. Orderly(y, nodeRuns[r], tasks'[r], RunOf(run))
  BY <1>1, <1>2, <1>3, <1>7, <1>8, RootStep
<1> QED
  BY <1>1, <1>3, <1>4, <1>5, <1>6, <1>9, Advances

LEMMA PersistInForce ==
  ASSUME Typed, [Next]_vars, InForce, Undisturbed, Undisturbed', Alone, Alone', NEW r \in Requests,
         NEW run \in Runs, Run(r) = run,
         Persist(r)
  PROVE  InForce'
<1>0. ServedInv
  BY DEF Typed
<1>1. requests[r].pc = "persist" /\ run \in Runs
  BY <1>0, PersistIs
<1>2. PICK y : /\ Asks(r, y) /\ Keeps(requests[r], y) /\ y.result = requests[r].result
               /\ y.pc = IF requests[r].kind = "resume" THEN "delete" ELSE "cleanup"
  BY <1>0, PersistIs
<1>3. PICK lost \in BOOLEAN :
         /\ Write(requests[r].gone, lost)
         /\ \A u \in Runs : flowRun'[u] = IF u = run /\ ~lost
                                          THEN IF requests[r].result = "ok" THEN "SUCCESS" ELSE "FAILED"
                                          ELSE flowRun[u]
  BY <1>0, PersistIs DEF Recorded
<1>4. During(requests[r], nodeRuns[r], tasks[r], RunOf(run)) /\ Sound(r, run)
  BY <1>1, DuringIs
<1>5. ~requests[r].gone /\ requests[r].gone \in BOOLEAN
  BY <1>4 DEF During, Orderly, ForksOk, RequestSet
<1>6. ~lost
  BY <1>3, <1>5, CalmWrite
<1>7. requests'[r] = y /\ y.run = run /\ SameAim(requests[r], y)
  BY <1>2 DEF Asks, Keeps, SameAim, Run
<1>8. UNCHANGED <<hitl, nodeState, traversals, forked, nodeRuns, tasks>>
  BY DEF Persist, history
<1>9. Apart(r, run)
  BY <1>1, <1>2, <1>3, <1>8, RequestApart
<1>10. /\ RunOf(run)'.hitl = RunOf(run).hitl /\ RunOf(run)'.nodes = RunOf(run).nodes
       /\ RunOf(run)'.followed = RunOf(run).followed /\ RunOf(run)'.forks = RunOf(run).forks
       /\ RunOf(run)'.status = IF requests[r].result = "ok" THEN "SUCCESS" ELSE "FAILED"
       /\ RunOf(run).hitl = hitl[run]
  BY <1>1, <1>3, <1>6, <1>8 DEF RunOf
<1>11. requests[r].kind = "execute" /\ requests[r].result = "ok" => hitl[run] = NoHITL
  <2>1. \A p \in Paths : ~Troubled(tasks[r][p])
    BY <1>1, <1>4, Resting, NoTaskIs DEF During, NoneAtWork, Troubled
  <2> QED
    BY <1>4, <1>5, <2>1 DEF Sound, Doomed
<1>12. Orderly(y, nodeRuns[r], tasks[r], RunOf(run)')
  BY <1>1, <1>2, <1>4, <1>7, <1>10, <1>11, PersistStep
<1> QED
  BY <1>1, <1>7, <1>8, <1>9, <1>12, Advances

LEMMA ResumeDeleteInForce ==
  ASSUME Typed, [Next]_vars, InForce, Undisturbed, Undisturbed', Alone, Alone', NEW r \in Requests,
         NEW run \in Runs, Run(r) = run,
         ResumeDelete(r)
  PROVE  InForce'
<1>0. ServedInv
  BY DEF Typed
<1>1. requests[r].pc = "delete" /\ run \in Runs
  BY <1>0, ResumeDeleteIs
<1>2. PICK y : /\ Asks(r, y) /\ Keeps(requests[r], y) /\ y.result = requests[r].result
               /\ y.pc = "cleanup"
  BY <1>0, ResumeDeleteIs
<1>3. PICK lost \in BOOLEAN :
         /\ Write(requests[r].gone, lost)
         /\ \A u \in Runs : hitl'[u] = IF u = run /\ ~lost THEN NoHITL ELSE hitl[u]
  BY <1>0, ResumeDeleteIs
<1>4. During(requests[r], nodeRuns[r], tasks[r], RunOf(run))
  BY <1>1, DuringIs
<1>5. ~requests[r].gone /\ requests[r].gone \in BOOLEAN
  BY <1>4 DEF During, Orderly, ForksOk, RequestSet
<1>6. ~lost
  BY <1>3, <1>5, CalmWrite
<1>7. requests'[r] = y /\ y.run = run /\ SameAim(requests[r], y)
  BY <1>2 DEF Asks, Keeps, SameAim, Run
<1>8. UNCHANGED <<flowRun, nodeState, traversals, forked, nodeRuns, tasks>>
  BY DEF ResumeDelete, history
<1>9. Apart(r, run)
  BY <1>1, <1>2, <1>3, <1>8, RequestApart
<1>10. /\ RunOf(run)'.hitl = NoHITL /\ RunOf(run)'.nodes = RunOf(run).nodes
       /\ RunOf(run)'.followed = RunOf(run).followed /\ RunOf(run)'.forks = RunOf(run).forks
       /\ RunOf(run)'.status = RunOf(run).status
  BY <1>1, <1>3, <1>6, <1>8 DEF RunOf
<1>12. Orderly(y, nodeRuns[r], tasks[r], RunOf(run)')
  BY <1>1, <1>2, <1>4, <1>7, <1>10, DeleteStep
<1> QED
  BY <1>1, <1>7, <1>8, <1>9, <1>12, Advances

LEMMA CleanupInForce ==
  ASSUME Typed, [Next]_vars, InForce, Undisturbed, NEW r \in Requests,
         NEW run \in Runs, Run(r) = run, Cleanup(r)
  PROVE  InForce'
<1>0. ServedInv
  BY DEF Typed
<1>1. requests[r].pc = "cleanup" /\ run \in Runs /\ Asks(r, NoRequest)
  BY <1>0, GoesAwayIs DEF Cleanup
<1>2. Concluded(RunOf(run))
  <2>1. During(requests[r], nodeRuns[r], tasks[r], RunOf(run))
    BY <1>1, DuringIs
  <2> QED
    BY <1>1, <2>1 DEF During, Orderly, StageOk
<1>3. UNCHANGED <<flowRun, hitl, nodeState, traversals, forked, tasks>>
  BY DEF Cleanup, redis, history
<1>4. /\ nodeRuns'[r] = NoInstances
      /\ \A s \in Requests \ {r} : nodeRuns'[s] = nodeRuns[s]
  BY <1>0 DEF Cleanup, ServedInv, Served
<1>5. requests'[r] = NoRequest
  BY <1>1 DEF Asks
<1>6. Apart(r, run)
  BY <1>1, <1>3, <1>4, RequestApart
<1>7. RunOf(run)' = RunOf(run)
  BY <1>3 DEF RunOf
<1> QED
  BY <1>1, <1>2, <1>4, <1>5, <1>6, <1>7, EndsInForce

LEMMA TaskInForce ==
  ASSUME Typed, [Next]_vars, InForce, Undisturbed, Undisturbed', Alone, Alone', NEW r \in Requests,
         NEW run \in Runs, Run(r) = run,
         NEW p \in Paths, Task(r, p)
  PROVE  InForce'
<1>0. ServedInv
  BY DEF Typed
<1>1. tasks[r][p].pc # "none"
  BY DEF Task, EnterNode, ScriptFails, ScriptReturns, PauseHITL, PauseRun, Resolve, Follow,
         ReturnFromBranch, Join
<1>2. requests[r].pc = "running" /\ run \in Runs
  BY <1>0, <1>1, Running DEF ServedInv
<1>3. run \in live
  BY <1>2 DEF Alone
<1>4. requests' = requests /\ Apart(r, run)
  BY <1>3, TaskApart
<1>5. During(requests[r], nodeRuns[r], tasks[r], RunOf(run))
  BY <1>2, DuringIs
<1>7. Serving(r, run)
  BY <1>2, <1>5 DEF Serving, Before, During
<1>8. Goes(r, run)
  BY <1>3, <1>7, TaskOrderly
<1>9. Orderly(requests'[r], nodeRuns'[r], tasks'[r], RunOf(run)')
  BY <1>4, <1>8 DEF Goes
<1>10. requests'[r].run = run
  BY <1>4 DEF Run
<1> QED
  BY <1>2, <1>4, <1>9, <1>10, Advances

LEMMA ServesRun ==
  ASSUME Typed, NEW r \in Requests, Serve(r) PROVE Run(r) \in Runs
<1>0. ServedInv
  BY DEF Typed
<1> QED
  BY <1>0, CountersIs, ReturnFromRootIs, PersistIs, ResumeDeleteIs, GoesAwayIs DEF Serve, Cleanup

LEMMA TaskServesRun ==
  ASSUME Typed, NEW r \in Requests, NEW p \in Paths, Task(r, p) PROVE Run(r) \in Runs
<1>1. tasks[r][p].pc # "none"
  BY DEF Task, EnterNode, ScriptFails, ScriptReturns, PauseHITL, PauseRun, Resolve, Follow,
         ReturnFromBranch, Join
<1> QED
  BY <1>1, Running DEF Typed, ServedInv

LEMMA InForceInit == Init => InForce
<1> SUFFICES ASSUME Init PROVE InForce
  OBVIOUS
<1>1. \A r \in Requests : requests[r] = NoRequest /\ nodeRuns[r] = NoInstances
  BY DEF Init
<1>2. \A run \in Runs : flowRun[run] = "none" /\ RunOk(RunOf(run))
  BY DEF Init, RunOk, RunOf
<1>3. ASSUME NEW r \in Requests, NEW run \in Runs, Run(r) = run PROVE FALSE
  BY <1>1, <1>3, NoRequestIs, NamesAssumption DEF Run
<1> QED
  BY <1>1, <1>2, <1>3 DEF InForce

LEMMA InForceStep ==
  ASSUME Typed, InForce, Alone, Overlap = FALSE, [Next]_vars PROVE InForce'
<1> SUFFICES ASSUME Undisturbed' PROVE InForce'
  BY DEF InForce
<1>1. Undisturbed /\ Alone'
  BY CalmBefore, AloneStep
<1>2. ASSUME NEW r \in Requests, NEW run \in Runs, ExecuteBegin(r, run) \/ SubmitFeedback(r, run)
      PROVE  InForce'
  BY <1>1, <1>2, ExecuteBeginInForce, SubmitFeedbackInForce
<1>3. ASSUME NEW r \in Requests, Serve(r) PROVE InForce'
  <2>1. PICK run \in Runs : Run(r) = run
    BY <1>3, ServesRun
  <2> QED
    BY <1>1, <1>3, <2>1, CountersInForce, ReturnFromRootInForce, PersistInForce, ResumeDeleteInForce,
       CleanupInForce DEF Serve
<1>4. ASSUME NEW r \in Requests, FeedbackAbandoned(r) PROVE FALSE
  BY <1>1, <1>4 DEF FeedbackAbandoned, Undisturbed
<1>5. ASSUME NEW r \in Requests, Disconnect(r) PROVE FALSE
  BY <1>1, <1>5 DEF Disconnect, Undisturbed
<1>6. ASSUME NEW r \in Requests, NEW p \in Paths, Task(r, p) PROVE InForce'
  <2>1. PICK run \in Runs : Run(r) = run
    BY <1>6, TaskServesRun
  <2> QED
    BY <1>1, <1>6, <2>1, TaskInForce
<1>7. ASSUME Crash PROVE FALSE
  BY <1>1, <1>7 DEF Crash, Undisturbed
<1>8. CASE UNCHANGED vars
  BY <1>1, <1>8 DEF vars, redis, memory, serving, history, InForce, Sound, Doomed, RunOf, Idle, Run
<1> QED
  BY <1>2, <1>3, <1>4, <1>5, <1>6, <1>7, <1>8 DEF Next

\* If clients wait for the answer before they send feedback, and nothing fails from outside,
\* every run is between requests either settled or paused with all that is needed to go on:
\* whatever branches fork, meet, pause or fail, and whatever nodes are deleted meanwhile.
THEOREM PausesCanBeAnswered ==
  ASSUME Overlap = FALSE PROVE Spec => []PausedOrSettled
<1>1. Typed /\ InForce => PausedOrSettled
  <2> SUFFICES ASSUME Typed, InForce, Undisturbed, NEW run \in Runs, Idle(run), flowRun[run] # "none"
               PROVE  \/ flowRun[run] = "SUCCESS" /\ hitl[run] = NoHITL
                      \/ flowRun[run] = "FAILED" /\ (run \in forked \/ hitl[run] = NoHITL)
                      \/ flowRun[run] = "WAITING_FEEDBACK" /\ Resumable(run)
    BY DEF PausedOrSettled
  <2>1. Concluded(RunOf(run))
    BY DEF InForce
  <2>2. RunOf(run).forks # {} => run \in forked
    BY DEF RunOf
  <2>3. \A n : MetAt(RunOf(run), n) => Met(run, n)
    BY <2>2 DEF MetAt, Met, Reentered, RunOf
  <2>4. CanResume(RunOf(run)) => Resumable(run)
    BY <2>2, <2>3 DEF CanResume, Resumable, RunOf
  <2> QED
    BY <2>1, <2>2, <2>4 DEF Concluded, RunOf
<1>2. Init => Alone
  BY NoRequestIs DEF Init, Alone, Active
<1>3. Typed /\ Alone /\ InForce /\ [Next]_vars => Alone' /\ InForce'
  BY AloneStep, InForceStep
<1> QED
  BY <1>1, <1>2, <1>3, InForceInit, TypedInit, TypedStep, PTL DEF Spec

----------------------------------------------------------------------------
(* The life cycle of a run *)

LifecycleStep(run) == Lifecycle!Start(run) \/ Lifecycle!Pause(run) \/ Lifecycle!Finish(run)

\* Who writes the status of a run: the request that begins it, the goroutine that
\* pauses it, and the request that has its result.
LEMMA StatusWrites ==
  ASSUME Typed, [Next]_vars, NEW run \in Runs, flowRun'[run] # flowRun[run]
  PROVE  \/ \E r \in Requests : ExecuteBegin(r, run)
         \/ \E r \in Requests : Persist(r) /\ Run(r) = run
         \/ \E r \in Requests, p \in Paths : PauseRun(r, p) /\ Run(r) = run
<1>0. ServedInv
  BY DEF Typed
<1>1. flowRun' # flowRun
  OBVIOUS
<1>2. ASSUME NEW r \in Requests, NEW v \in Runs, ExecuteBegin(r, v) PROVE v = run
  BY <1>0, <1>2, ExecuteBeginIs DEF Recorded
<1>3. ASSUME NEW r \in Requests, Serve(r) PROVE Persist(r) /\ Run(r) = run
  <2>1. Persist(r)
    BY <1>1, <1>3 DEF Serve, ExecuteCounters, ResumeCounters, ReturnFromRoot, ResumeDelete, Cleanup,
                      redis
  <2> QED
    BY <1>0, <2>1, PersistIs DEF Recorded
<1>4. ASSUME NEW r \in Requests, NEW p \in Paths, Task(r, p) PROVE PauseRun(r, p) /\ Run(r) = run
  <2>1. ~EnterNode(r, p) /\ ~ScriptFails(r, p) /\ ~ScriptReturns(r, p) /\ ~PauseHITL(r, p)
    BY <1>1 DEF EnterNode, ScriptFails, ScriptReturns, PauseHITL
  <2>2. ~Resolve(r, p) /\ ~Follow(r, p) /\ ~ReturnFromBranch(r, p) /\ ~Join(r, p)
    BY <1>1 DEF Resolve, ProcessDies, Follow, ReturnFromBranch, Join, redis
  <2>3. PauseRun(r, p)
    BY <1>4, <2>1, <2>2 DEF Task
  <2> QED
    BY <1>0, <2>3, PauseRunIs
<1>5. \A r \in Requests : /\ ~FeedbackAbandoned(r) /\ ~Disconnect(r)
                          /\ \A v \in Runs : ~SubmitFeedback(r, v)
  BY <1>1 DEF FeedbackAbandoned, Disconnect, SubmitFeedback, redis
<1>6. ~Crash /\ ~UNCHANGED vars
  BY <1>1 DEF Crash, ProcessDies, vars, redis
<1> QED
  BY <1>2, <1>3, <1>4, <1>5, <1>6 DEF Next

LEMMA StatusLives ==
  ASSUME Typed, InForce, [Next]_vars, Undisturbed', NEW run \in Runs,
         run \notin forked', flowRun'[run] # flowRun[run]
  PROVE  LifecycleStep(run)
<1>0. ServedInv /\ Undisturbed /\ run \notin forked
  BY CalmBefore, HistoryGrows DEF Typed, Grows
<1>1. RunOf(run).forks = {} /\ RunOf(run).status = flowRun[run]
  BY <1>0 DEF RunOf
<1>2. ASSUME NEW r \in Requests, ExecuteBegin(r, run) PROVE LifecycleStep(run)
  BY <1>2 DEF ExecuteBegin, LifecycleStep, Lifecycle!Start
<1>3. ASSUME NEW r \in Requests, Run(r) = run, requests[r].pc \in {"running", "persist"}
      PROVE  flowRun[run] \in {"RUNNING", "WAITING_FEEDBACK"}
  <2>1. StageOk(requests[r], nodeRuns[r], RunOf(run))
    BY <1>0, <1>3, DuringIs DEF During, Orderly
  <2> QED
    BY <1>1, <1>3, <2>1 DEF StageOk
<1>4. ASSUME NEW r \in Requests, Persist(r), Run(r) = run PROVE LifecycleStep(run)
  <2>1. flowRun[run] \in {"RUNNING", "WAITING_FEEDBACK"}
    BY <1>3, <1>4 DEF Persist
  <2>2. \E final \in {"SUCCESS", "FAILED"} : flowRun' = [flowRun EXCEPT ![run] = final]
    BY <1>4 DEF Persist
  <2> QED
    BY <2>1, <2>2 DEF LifecycleStep, Lifecycle!Finish
<1>5. ASSUME NEW r \in Requests, NEW p \in Paths, PauseRun(r, p), Run(r) = run PROVE LifecycleStep(run)
  <2>1. requests[r].pc = "running"
    <3>1. tasks[r][p].pc # "none"
      BY <1>5 DEF PauseRun
    <3> QED
      BY <1>0, <3>1, Running DEF ServedInv
  <2>2. flowRun[run] \in {"RUNNING", "WAITING_FEEDBACK"}
    BY <1>3, <1>5, <2>1
  <2>3. flowRun' = [flowRun EXCEPT ![run] = "WAITING_FEEDBACK"]
    BY <1>5 DEF PauseRun
  <2>4. flowRun'[run] = "WAITING_FEEDBACK"
    BY <1>0, <2>3 DEF ServedInv, RedisTyped
  <2> QED
    BY <2>2, <2>3, <2>4 DEF LifecycleStep, Lifecycle!Pause
<1> QED
  BY <1>2, <1>4, <1>5, StatusWrites

\* Where nothing fails from outside and clients wait for answers, every change of the
\* status of a run that has not forked is a step of the life cycle: a final status is
\* never left, whatever pauses, resumes and loops lie behind it.
THEOREM StatusKeepsLifecycle ==
  ASSUME Overlap = FALSE
  PROVE  Spec => [][\A run \in Runs :
                       Undisturbed' /\ run \notin forked' /\ flowRun'[run] # flowRun[run]
                       => LifecycleStep(run)]_vars
<1>1. Init => Alone
  BY NoRequestIs DEF Init, Alone, Active
<1>2. Typed /\ Alone /\ InForce /\ [Next]_vars => Alone' /\ InForce'
  BY AloneStep, InForceStep
<1>3. Typed /\ InForce /\ [Next]_vars =>
        [\A run \in Runs : Undisturbed' /\ run \notin forked' /\ flowRun'[run] # flowRun[run]
                           => LifecycleStep(run)]_vars
  BY StatusLives
<1> QED
  BY <1>1, <1>2, <1>3, InForceInit, TypedInit, TypedStep, PTL DEF Spec

\* Without faults, crashes and clients that go away, a run stays undisturbed.
LEMMA StaysCalm ==
  ASSUME Undisturbed, [Next]_vars, MaxFaults = 0, MaxCrashes = 0, MaxDisconnects = 0
  PROVE  Undisturbed'
<1>1. budget.faults = 0 /\ budget.crashes = 0 /\ budget.disconnects = 0
  BY DEF Undisturbed
<1>2. ASSUME NEW done, NEW lost, Write(done, lost) PROVE budget' = budget
  BY <1>1, <1>2 DEF Write
<1>3. ASSUME NEW r \in Requests, NEW run \in Runs, ExecuteBegin(r, run) \/ SubmitFeedback(r, run)
      PROVE  budget' = budget
  BY <1>2, <1>3 DEF ExecuteBegin, SubmitFeedback
<1>4. ASSUME NEW r \in Requests, Serve(r) PROVE budget' = budget
  <2>1. Persist(r) \/ ResumeDelete(r) => budget' = budget
    BY <1>2 DEF Persist, ResumeDelete
  <2> QED
    BY <1>4, <2>1 DEF Serve, ExecuteCounters, ResumeCounters, ReturnFromRoot, Cleanup
<1>5. \A r \in Requests : ~FeedbackAbandoned(r) /\ ~Disconnect(r)
  BY <1>1 DEF FeedbackAbandoned, Disconnect
<1>6. ASSUME NEW r \in Requests, NEW p \in Paths, Task(r, p) PROVE budget' = budget
  <2>1. EnterNode(r, p) => budget' = budget
    BY <1>2 DEF EnterNode
  <2>2. ScriptFails(r, p) \/ ScriptReturns(r, p) => budget' = budget
    BY <1>2 DEF ScriptFails, ScriptReturns
  <2>3. PauseHITL(r, p) \/ PauseRun(r, p) => budget' = budget
    BY <1>2 DEF PauseHITL, PauseRun
  <2>4. Resolve(r, p) \/ Follow(r, p) \/ ReturnFromBranch(r, p) \/ Join(r, p) => budget' = budget
    BY DEF Resolve, Follow, ReturnFromBranch, Join
  <2> QED
    BY <1>6, <2>1, <2>2, <2>3, <2>4 DEF Task
<1>7. ~Crash
  BY <1>1 DEF Crash
<1>8. budget' = budget
  BY <1>3, <1>4, <1>5, <1>6, <1>7 DEF Next, vars
<1> QED
  BY <1>8 DEF Undisturbed

\* Where no forks are allowed, no run forks.
LEMMA StaysUnforked ==
  ASSUME Typed, forked = {}, [Next]_vars, MaxDepth = 0 PROVE forked' = {}
<1>0. ServedInv
  BY DEF Typed
<1>1. forked' = forked \/ \E r \in Requests, p \in Paths : Follow(r, p)
  <2>1. ASSUME NEW r \in Requests, NEW run \in Runs, ExecuteBegin(r, run) \/ SubmitFeedback(r, run)
        PROVE  forked' = forked
    BY <2>1 DEF ExecuteBegin, SubmitFeedback, history
  <2>2. ASSUME NEW r \in Requests, Serve(r) \/ FeedbackAbandoned(r) \/ Disconnect(r)
        PROVE  forked' = forked
    BY <2>2 DEF Serve, FeedbackAbandoned, Disconnect, ExecuteCounters, ResumeCounters, MakeCounters,
                ReturnFromRoot, Persist, ResumeDelete, Cleanup, history
  <2>3. ASSUME NEW r \in Requests, NEW p \in Paths, Task(r, p), ~Follow(r, p) PROVE forked' = forked
    <3>1. /\ EnterNode(r, p) \/ ScriptFails(r, p) \/ ScriptReturns(r, p) => forked' = forked
          /\ PauseHITL(r, p) \/ PauseRun(r, p) => forked' = forked
          /\ ReturnFromBranch(r, p) \/ Join(r, p) => forked' = forked
      BY DEF EnterNode, ScriptFails, ScriptReturns, PauseHITL, PauseRun, ReturnFromBranch, Join, history
    <3>2. Resolve(r, p) => forked' = forked
      BY DEF Resolve, ProcessDies, history
    <3> QED
      BY <2>3, <3>1, <3>2 DEF Task
  <2>4. Crash \/ UNCHANGED vars => forked' = forked
    BY DEF Crash, ProcessDies, history, vars
  <2> QED
    BY <2>1, <2>2, <2>3, <2>4 DEF Next
<1>2. ASSUME NEW r \in Requests, NEW p \in Paths, Follow(r, p) PROVE forked' = forked
  BY <1>0, <1>2, FollowIs
<1> QED
  BY <1>1, <1>2

\* The orchestrator implements the safety part of the life cycle for every flow that does
\* not fork, however it loops, and any number of runs, requests, failures and pauses.
THEOREM ImplementsLifecycle ==
  ASSUME Overlap = FALSE, MaxDepth = 0, MaxFaults = 0, MaxCrashes = 0, MaxDisconnects = 0
  PROVE  Spec => Lifecycle!Spec
<1> DEFINE Inv == Typed /\ Alone /\ InForce /\ Undisturbed /\ forked = {}
<1>1. Init => Inv /\ Lifecycle!Init
  <2>1. Init => Alone
    BY NoRequestIs DEF Init, Alone, Active
  <2>2. Init => Undisturbed /\ forked = {} /\ Lifecycle!Init
    BY DEF Init, Undisturbed, Lifecycle!Init
  <2> QED
    BY <2>1, <2>2, TypedInit, InForceInit
<1>2. Inv /\ [Next]_vars => Inv'
  BY TypedStep, AloneStep, InForceStep, StaysCalm, StaysUnforked
<1>3. Inv /\ [Next]_vars => [Lifecycle!Next]_flowRun
  <2> SUFFICES ASSUME Inv, [Next]_vars, flowRun' # flowRun PROVE Lifecycle!Next
    OBVIOUS
  <2>1. Undisturbed' /\ forked' = {} /\ Typed'
    BY <1>2
  <2>2. PICK run \in Runs : flowRun'[run] # flowRun[run]
    BY <2>1 DEF Typed, ServedInv, RedisTyped
  <2>3. LifecycleStep(run)
    BY <2>1, <2>2, StatusLives
  <2> QED
    BY <2>3 DEF LifecycleStep, Lifecycle!Next
<1> HIDE DEF Inv
<1> QED
  BY <1>1, <1>2, <1>3, PTL DEF Spec, Lifecycle!Spec

=============================================================================
