------------------------ MODULE FlowScheduler_proofs ------------------------
(***************************************************************************)
(* Proofs about the scheduler, for any number of schedules, requests and   *)
(* goroutines and any bounds on time, faults and crashes.                  *)
(***************************************************************************)
EXTENDS FlowScheduler, TLAPS

\* Every variable keeps its type.
THEOREM Typing == Spec => []TypeOK
<1>1. Init => TypeOK
  BY SchedulerAssumption
     DEF Init, TypeOK, Records, NoRecord, JobSet, Free, RequestSet, Idle
<1>2. TypeOK /\ [Next]_vars => TypeOK'
  <2> SUFFICES ASSUME TypeOK, [Next]_vars PROVE TypeOK'
    OBVIOUS
  <2> USE SchedulerAssumption DEF TypeOK, redis, clock, process, history
  <2>1. ASSUME NEW s \in Schedules, NEW at \in 1 .. MaxTime, Schedule(s, at)
        PROVE  TypeOK'
    BY <2>1 DEF Schedule, Reply, SetSchedule, Outcomes, Records, Statuses
  <2>2. ASSUME NEW c \in Requests, NEW s \in Schedules, CancelGet(c, s)
        PROVE  TypeOK'
    BY <2>2 DEF CancelGet, RequestSet
  <2>3. ASSUME NEW c \in Requests, CancelSet(c)
        PROVE  TypeOK'
    <3>1. requests[c].sched \in Schedules
      BY <2>3 DEF CancelSet, RequestSet, Idle
    <3> QED
      BY <2>3, <3>1
         DEF CancelSet, Reply, SetSchedule, Outcomes, Records, Statuses, RequestSet, Idle
  <2>4. ASSUME NEW c \in Requests, CancelUnindex(c)
        PROVE  TypeOK'
    <3>1. requests[c].sched \in Schedules
      BY <2>4 DEF CancelUnindex, RequestSet, Idle
    <3> QED
      BY <2>4, <3>1 DEF CancelUnindex, Reply, RemoveScheduleFromIndex, RequestSet, Idle
  <2>5. CASE TickBegin
    BY <2>5 DEF TickBegin
  <2>6. ASSUME NEW s \in Schedules, TickGet(s)
        PROVE  TypeOK'
    BY <2>6 DEF TickGet, Reply
  <2>7. ASSUME NEW s \in Schedules, NEW j \in Jobs, TickSpawn(s, j)
        PROVE  TypeOK'
    BY <2>7 DEF TickSpawn, Free, JobSet, JobPCs, Results
  <2>8. ASSUME NEW j \in Jobs, Job(j)
        PROVE  TypeOK'
    <3>1. jobs[j] \in JobSet
      BY <2>8 DEF Job, JobMark, JobUnindex, JobExecute, JobReturn, JobFinish, Free
    <3>2. CASE JobMark(j)
      BY <3>1, <3>2 DEF JobMark, Reply, SetSchedule, Outcomes, Records, Statuses, JobSet, JobPCs
    <3>3. CASE JobUnindex(j)
      BY <3>1, <3>3 DEF JobUnindex, Reply, RemoveScheduleFromIndex, JobSet, JobPCs
    <3>4. CASE JobExecute(j)
      BY <3>1, <3>4 DEF JobExecute, JobSet, JobPCs
    <3>5. ASSUME NEW r \in Results, JobReturn(j, r)
          PROVE  TypeOK'
      BY <3>1, <3>5 DEF JobReturn, JobSet, JobPCs
    <3>6. CASE JobFinish(j)
      BY <3>1, <3>6 DEF JobFinish, Reply, SetSchedule, NilErr, Outcomes, Records, Statuses, JobSet
    <3> QED
      BY <2>8, <3>2, <3>3, <3>4, <3>5, <3>6 DEF Job
  <2>9. CASE ClockTick
    BY <2>9 DEF ClockTick
  <2>10. CASE Crash
    <3>1. up' \in BOOLEAN
      BY ONLY <2>10 DEF Crash
    <3> QED
      BY <2>10, <3>1 DEF Crash
  <2>11. CASE Restart
    BY <2>11 DEF Restart
  <2>12. CASE UNCHANGED vars
    BY <2>12 DEF vars
  <2> QED
    BY <2>1, <2>2, <2>3, <2>4, <2>5, <2>6, <2>7, <2>8, <2>9, <2>10, <2>11, <2>12
       DEF Next, Tick, Cancel
<1> QED
  BY <1>1, <1>2, PTL DEF Spec

----------------------------------------------------------------------------
(* A schedule that has left PENDING stays out of it *)

\* Everything that names a schedule names one that was created.
Known ==
    /\ \A s \in picked : due[s] # 0
    /\ \A j \in Jobs : jobs[j] # Free => due[jobs[j].sched] # 0
    /\ \A c \in Requests : requests[c] # Idle => due[requests[c].sched] # 0
    /\ \A s \in Schedules : Pending(s) \/ s \in accepted \/ s \in unseen => due[s] # 0
    /\ \A s \in Schedules : executions[s] # 0 => due[s] # 0

\* The schedule of a goroutine or a cancel request is a schedule.
LEMMA Names ==
    ASSUME TypeOK
    PROVE  /\ \A j \in Jobs : jobs[j].pc # "free" => jobs[j] \in JobSet
           /\ \A c \in Requests : requests[c].pc # "idle" => requests[c] \in RequestSet
BY DEF TypeOK, Free, Idle

\* Every step keeps it: only Schedule names a new id, and it sets its due time.
LEMMA KnownStep == TypeOK /\ Known /\ [Next]_vars => Known'
<1> SUFFICES ASSUME TypeOK, Known, [Next]_vars PROVE Known'
  OBVIOUS
<1> USE DEF redis, clock, process, history
<1>1. ASSUME NEW s \in Schedules, NEW at \in 1 .. MaxTime, Schedule(s, at)
      PROVE  Known'
  BY <1>1, SchedulerAssumption DEF Schedule, SetSchedule, Outcomes, Known, TypeOK, Pending, JobSet, RequestSet
<1>2. ASSUME NEW c \in Requests, NEW s \in Schedules, CancelGet(c, s)
      PROVE  Known'
  BY <1>2 DEF CancelGet, Known, TypeOK, Pending, Idle
<1>3. ASSUME NEW c \in Requests, CancelSet(c)
      PROVE  Known'
  BY <1>3, Names DEF CancelSet, SetSchedule, Outcomes, Known, TypeOK, Pending, RequestSet, Idle
<1>4. ASSUME NEW c \in Requests, CancelUnindex(c)
      PROVE  Known'
  BY <1>4, Names DEF CancelUnindex, Known, TypeOK, Pending, RequestSet, Idle
<1>5. CASE TickBegin
  BY <1>5 DEF TickBegin, Known, Pending
<1>6. ASSUME NEW s \in Schedules, TickGet(s)
      PROVE  Known'
  BY <1>6 DEF TickGet, Known, Pending
<1>7. ASSUME NEW s \in Schedules, NEW j \in Jobs, TickSpawn(s, j)
      PROVE  Known'
  BY <1>7 DEF TickSpawn, Known, TypeOK, Pending, Free
<1>8. ASSUME NEW j \in Jobs, Job(j)
      PROVE  Known'
  <2>1. CASE JobMark(j)
    BY <2>1, Names DEF JobMark, SetSchedule, Outcomes, Known, TypeOK, Pending, JobSet, Free
  <2>2. CASE JobUnindex(j)
    BY <2>2, Names DEF JobUnindex, Known, TypeOK, Pending, JobSet, Free
  <2>3. CASE JobExecute(j)
    BY <2>3, Names DEF JobExecute, Known, TypeOK, Pending, JobSet, Free
  <2>4. ASSUME NEW r \in Results, JobReturn(j, r)
        PROVE  Known'
    BY <2>4, Names DEF JobReturn, Known, TypeOK, Pending, JobSet, Free
  <2>5. CASE JobFinish(j)
    BY <2>5, Names DEF JobFinish, SetSchedule, Outcomes, Known, TypeOK, Pending, JobSet, Free
  <2> QED
    BY <1>8, <2>1, <2>2, <2>3, <2>4, <2>5 DEF Job
<1>9. CASE ClockTick
  BY <1>9 DEF ClockTick, Known, TypeOK, Pending, NoRecord
<1>10. CASE Crash
  BY <1>10 DEF Crash, Known, Pending
<1>11. CASE Restart
  BY <1>11 DEF Restart, Known, Pending
<1>12. CASE UNCHANGED vars
  BY <1>12 DEF vars, Known, Pending
<1> QED
  BY <1>1, <1>2, <1>3, <1>4, <1>5, <1>6, <1>7, <1>8, <1>9, <1>10, <1>11, <1>12
     DEF Next, Tick, Cancel

\* No writer of an older copy makes a schedule PENDING again: only Schedule
\* writes PENDING, and only for a new id.
LEMMA NotRestored ==
    ASSUME TypeOK, Known, [Next]_vars,
           NEW s \in Schedules, due[s] # 0, ~Pending(s)
    PROVE  ~Pending(s)'
<1> USE DEF redis, clock, process, history, Pending
<1>1. ASSUME NEW t \in Schedules, NEW at \in 1 .. MaxTime, Schedule(t, at)
      PROVE  ~Pending(s)'
  BY <1>1 DEF Schedule, SetSchedule, TypeOK
<1>2. ASSUME NEW c \in Requests, NEW t \in Schedules, CancelGet(c, t)
      PROVE  ~Pending(s)'
  BY <1>2 DEF CancelGet
<1>3. ASSUME NEW c \in Requests, Cancel(c)
      PROVE  ~Pending(s)'
  BY <1>3 DEF Cancel, CancelSet, CancelUnindex, SetSchedule, TypeOK
<1>4. CASE Tick
  BY <1>4 DEF Tick, TickBegin, TickGet, TickSpawn
<1>5. ASSUME NEW j \in Jobs, Job(j)
      PROVE  ~Pending(s)'
  <2>1. CASE JobMark(j)
    BY <2>1 DEF JobMark, SetSchedule, TypeOK
  <2>2. CASE JobFinish(j)
    BY <2>2 DEF JobFinish, SetSchedule, TypeOK
  <2>3. CASE JobUnindex(j) \/ JobExecute(j) \/ \E r \in Results : JobReturn(j, r)
    BY <2>3 DEF JobUnindex, JobExecute, JobReturn
  <2> QED
    BY <1>5, <2>1, <2>2, <2>3 DEF Job
<1>6. CASE ClockTick
  BY <1>6 DEF ClockTick, NoRecord
<1>7. CASE Crash \/ Restart \/ UNCHANGED vars
  BY <1>7 DEF Crash, Restart, vars
<1> QED
  BY <1>1, <1>2, <1>3, <1>4, <1>5, <1>6, <1>7 DEF Next

\* A goroutine past its mark, a cancel request past its write and a past
\* execution each show that the schedule has left PENDING.
Marked ==
    /\ \A j \in Jobs : jobs[j].pc \in {"unindex", "execute", "running", "finish"}
                        => ~Pending(jobs[j].sched)
    /\ \A c \in Requests : requests[c].pc = "unindex" => ~Pending(requests[c].sched)
    /\ \A s \in Schedules : executions[s] # 0 => ~Pending(s)

\* A pipeline that reports success was carried out whole.
LEMMA WholePipeline ==
    \A o \in Outcomes : o.applied \in 0 .. 3 /\ (o.err \/ o.applied = 3)
BY DEF Outcomes

LEMMA MarkedStep == TypeOK /\ Known /\ Marked /\ [Next]_vars => Marked'
<1> SUFFICES ASSUME TypeOK, Known, Marked, [Next]_vars PROVE Marked'
  OBVIOUS
<1> DEFINE Past(t) == due[t] # 0 /\ ~Pending(t)
<1>a. \A s \in Schedules : Past(s) => ~Pending(s)'
  BY NotRestored
<1>b. \A j \in Jobs : jobs[j].pc \in {"unindex", "execute", "running", "finish"}
                      => jobs[j].sched \in Schedules /\ Past(jobs[j].sched)
  BY Names DEF Marked, Known, JobSet, Free
<1>c. \A c \in Requests : requests[c].pc = "unindex"
                      => requests[c].sched \in Schedules /\ Past(requests[c].sched)
  BY Names DEF Marked, Known, RequestSet, Idle
<1>d. \A s \in Schedules : executions[s] # 0 => Past(s)
  BY DEF Marked, Known
<1> HIDE DEF Past
<1> USE DEF redis, clock, process, history
<1>1. ASSUME NEW s \in Schedules, NEW at \in 1 .. MaxTime, Schedule(s, at)
      PROVE  Marked'
  BY <1>1, <1>a, <1>b, <1>c, <1>d DEF Schedule, Marked, Pending
<1>2. ASSUME NEW c \in Requests, NEW s \in Schedules, CancelGet(c, s)
      PROVE  Marked'
  BY <1>2, <1>a, <1>b, <1>c, <1>d DEF CancelGet, Marked, Pending, TypeOK
<1>3. ASSUME NEW c \in Requests, CancelSet(c)
      PROVE  Marked'
  <2>1. requests[c].sched \in Schedules
    BY <1>3, Names DEF CancelSet, RequestSet
  <2>2. requests'[c].pc = "unindex" => ~Pending(requests[c].sched)'
    <3>1. PICK o \in Outcomes :
             /\ SetSchedule(requests[c].sched, "CANCELLED", "none", o.applied)
             /\ requests' = [requests EXCEPT ![c] =
                               IF o.err THEN Idle ELSE [@ EXCEPT !.pc = "unindex"]]
      BY <1>3 DEF CancelSet
    <3>2. o.err => requests'[c].pc # "unindex"
      BY <3>1 DEF TypeOK, Idle
    <3>3. ~o.err => ~Pending(requests[c].sched)'
      BY <3>1, <2>1, WholePipeline DEF SetSchedule, Pending, TypeOK
    <3> QED
      BY <3>2, <3>3
  <2> QED
    BY <1>3, <2>2, <1>a, <1>b, <1>c, <1>d DEF CancelSet, Marked, Pending, TypeOK, Idle
<1>4. ASSUME NEW c \in Requests, CancelUnindex(c)
      PROVE  Marked'
  BY <1>4, <1>a, <1>b, <1>c, <1>d DEF CancelUnindex, Marked, Pending, TypeOK, Idle
<1>5. CASE TickBegin
  BY <1>5 DEF TickBegin, Marked, Pending
<1>6. ASSUME NEW s \in Schedules, TickGet(s)
      PROVE  Marked'
  BY <1>6 DEF TickGet, Marked, Pending
<1>7. ASSUME NEW s \in Schedules, NEW j \in Jobs, TickSpawn(s, j)
      PROVE  Marked'
  BY <1>7 DEF TickSpawn, Marked, TypeOK, Pending, Free
<1>8. ASSUME NEW j \in Jobs, Job(j)
      PROVE  Marked'
  <2>1. CASE JobMark(j)
    <3>1. jobs[j].sched \in Schedules
      BY <2>1, Names DEF JobMark, JobSet
    <3>2. jobs'[j].pc = "unindex" => ~Pending(jobs[j].sched)'
      <4>1. PICK o \in Outcomes :
               /\ SetSchedule(jobs[j].sched, "RUNNING", "none", o.applied)
               /\ jobs' = [jobs EXCEPT ![j] =
                             IF o.err THEN Free ELSE [@ EXCEPT !.pc = "unindex"]]
        BY <2>1 DEF JobMark
      <4>2. o.err => jobs'[j].pc # "unindex"
        BY <4>1 DEF TypeOK, Free
      <4>3. ~o.err => ~Pending(jobs[j].sched)'
        BY <4>1, <3>1, WholePipeline DEF SetSchedule, Pending, TypeOK
      <4> QED
        BY <4>2, <4>3
    <3> QED
      BY <2>1, <3>2, <1>a, <1>b, <1>c, <1>d DEF JobMark, Marked, Pending, TypeOK, Free
  <2>2. CASE JobUnindex(j)
    BY <2>2 DEF JobUnindex, Marked, TypeOK, Pending
  <2>3. CASE JobExecute(j)
    BY <2>3, <1>b DEF JobExecute, Marked, TypeOK, Pending
  <2>4. ASSUME NEW r \in Results, JobReturn(j, r)
        PROVE  Marked'
    BY <2>4 DEF JobReturn, Marked, TypeOK, Pending
  <2>5. CASE JobFinish(j)
    BY <2>5, <1>a, <1>b, <1>c, <1>d DEF JobFinish, Marked, Pending, TypeOK, Free
  <2> QED
    BY <1>8, <2>1, <2>2, <2>3, <2>4, <2>5 DEF Job
<1>9. CASE ClockTick
  BY <1>9, <1>a, <1>b, <1>c, <1>d DEF ClockTick, Marked, Pending
<1>10. CASE Crash
  BY <1>10, <1>a, <1>d DEF Crash, Marked, Pending, Free, Idle
<1>11. CASE Restart \/ UNCHANGED vars
  BY <1>11 DEF Restart, vars, Marked, Pending
<1> QED
  BY <1>1, <1>2, <1>3, <1>4, <1>5, <1>6, <1>7, <1>8, <1>9, <1>10, <1>11
     DEF Next, Tick, Cancel

----------------------------------------------------------------------------
(* Accepted schedules stay in the index *)

LEMMA IndexedStep ==
    TypeOK /\ Known /\ Marked /\ PendingIsIndexed /\ [Next]_vars => PendingIsIndexed'
<1> SUFFICES ASSUME TypeOK, Known, Marked, PendingIsIndexed, [Next]_vars
             PROVE  PendingIsIndexed'
  OBVIOUS
<1> USE DEF redis, clock, process, history, PendingIsIndexed, Pending
<1>1. ASSUME NEW s \in Schedules, NEW at \in 1 .. MaxTime, Schedule(s, at)
      PROVE  PendingIsIndexed'
  <2>1. PICK o \in Outcomes :
           /\ SetSchedule(s, "PENDING", "none", o.applied)
           /\ accepted' = IF o.err THEN accepted ELSE accepted \union {s}
    BY <1>1 DEF Schedule
  <2>2. s \notin accepted
    BY <1>1 DEF Schedule, Known
  <2>3. CASE o.err
    BY <2>1, <2>2, <2>3, WholePipeline DEF SetSchedule, TypeOK
  <2>4. CASE ~o.err
    BY <2>1, <2>2, <2>4, WholePipeline DEF SetSchedule, TypeOK
  <2> QED
    BY <2>3, <2>4
<1>2. ASSUME NEW c \in Requests, NEW s \in Schedules, CancelGet(c, s)
      PROVE  PendingIsIndexed'
  BY <1>2 DEF CancelGet
<1>3. ASSUME NEW c \in Requests, CancelSet(c)
      PROVE  PendingIsIndexed'
  BY <1>3, WholePipeline DEF CancelSet, SetSchedule, TypeOK
<1>4. ASSUME NEW c \in Requests, CancelUnindex(c)
      PROVE  PendingIsIndexed'
  BY <1>4 DEF CancelUnindex, RemoveScheduleFromIndex, Marked
<1>5. CASE Tick
  BY <1>5 DEF Tick, TickBegin, TickGet, TickSpawn
<1>6. ASSUME NEW j \in Jobs, Job(j)
      PROVE  PendingIsIndexed'
  <2>1. CASE JobMark(j)
    BY <2>1, WholePipeline DEF JobMark, SetSchedule, TypeOK
  <2>2. CASE JobUnindex(j)
    BY <2>2 DEF JobUnindex, RemoveScheduleFromIndex, Marked
  <2>3. CASE JobExecute(j) \/ \E r \in Results : JobReturn(j, r)
    BY <2>3 DEF JobExecute, JobReturn
  <2>4. CASE JobFinish(j)
    BY <2>4, WholePipeline DEF JobFinish, SetSchedule, TypeOK
  <2> QED
    BY <1>6, <2>1, <2>2, <2>3, <2>4 DEF Job
<1>7. CASE ClockTick
  BY <1>7 DEF ClockTick, TypeOK, NoRecord
<1>8. CASE Crash \/ Restart \/ UNCHANGED vars
  BY <1>8 DEF Crash, Restart, vars
<1> QED
  BY <1>1, <1>2, <1>3, <1>4, <1>5, <1>6, <1>7, <1>8 DEF Next, Cancel

----------------------------------------------------------------------------
(* At most one execution, and cancellations that come first *)

\* A goroutine that has been started and has not called the executor yet.
Early(j, s) == jobs[j].sched = s /\ jobs[j].pc \in {"mark", "unindex", "execute"}

\* At any time one claim at most can still lead to the execution of a schedule:
\* a pick of the current tick, or one goroutine, and neither after an execution.
Exclusive ==
    /\ reading # {} => \A j \in Jobs : jobs[j].pc # "mark"
    /\ \A s \in picked : executions[s] = 0 /\ \A j \in Jobs : ~Early(j, s)
    /\ \A s \in Schedules, j \in Jobs : Early(j, s) => executions[s] = 0
    /\ \A s \in Schedules, j, k \in Jobs : Early(j, s) /\ Early(k, s) => j = k
    /\ AtMostOnce

LEMMA ExclusiveStep ==
    ASSUME TickOverlap = FALSE
    PROVE  TypeOK /\ Marked /\ Exclusive /\ [Next]_vars => Exclusive'
<1> SUFFICES ASSUME TypeOK, Marked, Exclusive, [Next]_vars PROVE Exclusive'
  OBVIOUS
<1> USE DEF redis, clock, process, history, Exclusive, Early, AtMostOnce
<1>1. ASSUME NEW s \in Schedules, NEW at \in 1 .. MaxTime, Schedule(s, at)
      PROVE  Exclusive'
  BY <1>1 DEF Schedule
<1>2. ASSUME NEW c \in Requests, NEW s \in Schedules, CancelGet(c, s)
      PROVE  Exclusive'
  BY <1>2 DEF CancelGet
<1>3. ASSUME NEW c \in Requests, Cancel(c)
      PROVE  Exclusive'
  BY <1>3 DEF Cancel, CancelSet, CancelUnindex
<1>4. CASE TickBegin
  BY <1>4 DEF TickBegin
<1>5. ASSUME NEW s \in Schedules, TickGet(s)
      PROVE  Exclusive'
  <2>1. Pending(s) => executions[s] = 0 /\ \A j \in Jobs : ~Early(j, s)
    BY <1>5 DEF TickGet, Marked, TypeOK
  <2> QED
    BY <1>5, <2>1 DEF TickGet
<1>6. ASSUME NEW s \in Schedules, NEW j \in Jobs, TickSpawn(s, j)
      PROVE  Exclusive'
  <2>1. /\ jobs'[j].sched = s /\ jobs'[j].pc = "mark"
        /\ \A k \in Jobs \ {j} : jobs'[k] = jobs[k]
    BY <1>6 DEF TickSpawn, TypeOK, Free
  <2> QED
    BY <1>6, <2>1 DEF TickSpawn, TypeOK
<1>7. ASSUME NEW j \in Jobs, Job(j)
      PROVE  Exclusive'
  <2>1. CASE JobMark(j) \/ JobUnindex(j)
    <3>1. /\ jobs[j].pc \in {"mark", "unindex"}
          /\ jobs'[j] = Free \/ (jobs'[j].sched = jobs[j].sched
                                 /\ jobs'[j].pc \in {"unindex", "execute"})
          /\ \A k \in Jobs \ {j} : jobs'[k] = jobs[k]
          /\ UNCHANGED <<reading, picked, executions>>
      <4>1. CASE JobMark(j)
        BY <4>1, Names DEF JobMark, TypeOK, JobSet
      <4>2. CASE JobUnindex(j)
        BY <4>2, Names DEF JobUnindex, TypeOK, JobSet
      <4> QED
        BY <2>1, <4>1, <4>2
    <3> QED
      BY <3>1 DEF Free
  <2>2. CASE JobExecute(j)
    <3>1. jobs[j].sched \in Schedules /\ Early(j, jobs[j].sched)
      BY <2>2, Names DEF JobExecute, JobSet
    <3>2. /\ jobs'[j].pc = "running"
          /\ \A k \in Jobs \ {j} : jobs'[k] = jobs[k]
          /\ UNCHANGED <<reading, picked>>
      BY <2>2 DEF JobExecute, TypeOK
    <3>3. /\ executions'[jobs[j].sched] = 1
          /\ \A s \in Schedules \ {jobs[j].sched} : executions'[s] = executions[s]
      BY <2>2, <3>1 DEF JobExecute, TypeOK
    <3> QED
      BY <3>1, <3>2, <3>3 DEF TypeOK
  <2>3. CASE JobFinish(j) \/ \E r \in Results : JobReturn(j, r)
    <3>1. /\ jobs'[j].pc \in {"free", "finish"}
          /\ \A k \in Jobs \ {j} : jobs'[k] = jobs[k]
          /\ UNCHANGED <<reading, picked, executions, unseen>>
      <4>1. CASE JobFinish(j)
        BY <4>1 DEF JobFinish, TypeOK, Free
      <4>2. ASSUME NEW r \in Results, JobReturn(j, r)
            PROVE  jobs'[j].pc = "finish" /\ \A k \in Jobs \ {j} : jobs'[k] = jobs[k]
        BY <4>2, Names DEF JobReturn, TypeOK, JobSet
      <4> QED
        BY <2>3, <4>1, <4>2 DEF JobReturn
    <3> QED
      BY <3>1
  <2> QED
    BY <1>7, <2>1, <2>2, <2>3 DEF Job
<1>8. CASE ClockTick \/ Restart \/ UNCHANGED vars
  BY <1>8 DEF ClockTick, Restart, vars
<1>9. CASE Crash
  BY <1>9 DEF Crash, Free
<1> QED
  BY <1>1, <1>2, <1>3, <1>4, <1>5, <1>6, <1>7, <1>8, <1>9 DEF Next, Tick

\* Nothing can execute a schedule whose cancellation came before any pick.
Unclaimed ==
    \A s \in unseen : /\ executions[s] = 0
                      /\ ~Pending(s)
                      /\ s \notin picked
                      /\ \A j \in Jobs : ~Early(j, s)

LEMMA UnclaimedStep ==
    TypeOK /\ Known /\ Marked /\ Unclaimed /\ [Next]_vars => Unclaimed'
<1> SUFFICES ASSUME TypeOK, Known, Marked, Unclaimed, [Next]_vars PROVE Unclaimed'
  OBVIOUS
<1> USE DEF redis, clock, process, history, Unclaimed, Early
<1>a. \A s \in unseen : ~Pending(s)'
  BY NotRestored DEF TypeOK, Known
<1>1. ASSUME NEW s \in Schedules, NEW at \in 1 .. MaxTime, Schedule(s, at)
      PROVE  Unclaimed'
  BY <1>1, <1>a DEF Schedule
<1>2. ASSUME NEW c \in Requests, NEW s \in Schedules, CancelGet(c, s)
      PROVE  Unclaimed'
  BY <1>2, <1>a DEF CancelGet
<1>3. ASSUME NEW c \in Requests, CancelSet(c)
      PROVE  Unclaimed'
  <2>0. PICK t : t = requests[c].sched
    OBVIOUS
  <2>1. PICK o \in Outcomes :
           /\ SetSchedule(t, "CANCELLED", "none", o.applied)
           /\ unseen' = IF o.applied >= 1 /\ Pending(t) /\ ~InHand(t)
                        THEN unseen \union {t} ELSE unseen
    BY <1>3, <2>0 DEF CancelSet
  <2>2. t \in Schedules /\ UNCHANGED <<picked, jobs, executions>>
    BY <1>3, <2>0, Names DEF CancelSet, RequestSet
  <2>3. ASSUME o.applied >= 1, Pending(t), ~InHand(t)
        PROVE  /\ executions[t] = 0 /\ ~Pending(t)' /\ t \notin picked
               /\ \A j \in Jobs : ~Early(j, t)
    <3>1. executions[t] = 0 /\ t \notin picked /\ \A j \in Jobs : ~Early(j, t)
      BY <2>2, <2>3 DEF Marked, InHand
    <3>2. ~Pending(t)'
      <4>1. record'[t].status = "CANCELLED"
        BY <2>1, <2>2, <2>3 DEF SetSchedule, TypeOK
      <4> QED
        BY <4>1 DEF Pending
    <3> QED
      BY <3>1, <3>2
  <2>4. ASSUME NEW s \in unseen', s \in unseen
        PROVE  executions'[s] = 0 /\ ~Pending(s)' /\ s \notin picked'
               /\ \A j \in Jobs : ~Early(j, s)'
    BY <2>2, <2>4, <1>a
  <2>5. ASSUME NEW s \in unseen', s \notin unseen
        PROVE  executions'[s] = 0 /\ ~Pending(s)' /\ s \notin picked'
               /\ \A j \in Jobs : ~Early(j, s)'
    <3>1. o.applied >= 1 /\ Pending(t) /\ ~InHand(t) /\ s = t
      BY <2>1, <2>5
    <3> QED
      BY <3>1, <2>2, <2>3
  <2> QED
    BY <2>4, <2>5
<1>4. ASSUME NEW c \in Requests, CancelUnindex(c)
      PROVE  Unclaimed'
  BY <1>4, <1>a DEF CancelUnindex
<1>5. CASE TickBegin
  BY <1>5, <1>a DEF TickBegin
<1>6. ASSUME NEW s \in Schedules, TickGet(s)
      PROVE  Unclaimed'
  BY <1>6, <1>a DEF TickGet
<1>7. ASSUME NEW s \in Schedules, NEW j \in Jobs, TickSpawn(s, j)
      PROVE  Unclaimed'
  <2>1. /\ jobs'[j].sched = s
        /\ \A k \in Jobs \ {j} : jobs'[k] = jobs[k]
    BY <1>7 DEF TickSpawn, TypeOK, Free
  <2> QED
    BY <1>7, <2>1, <1>a DEF TickSpawn
<1>8. ASSUME NEW j \in Jobs, Job(j)
      PROVE  Unclaimed'
  <2>1. CASE JobMark(j) \/ JobUnindex(j)
    <3>1. /\ jobs[j].pc \in {"mark", "unindex"}
          /\ jobs'[j] = Free \/ jobs'[j].sched = jobs[j].sched
          /\ \A k \in Jobs \ {j} : jobs'[k] = jobs[k]
          /\ UNCHANGED <<picked, executions, unseen>>
      <4>1. CASE JobMark(j)
        BY <4>1, Names DEF JobMark, TypeOK, JobSet
      <4>2. CASE JobUnindex(j)
        BY <4>2, Names DEF JobUnindex, TypeOK, JobSet
      <4> QED
        BY <2>1, <4>1, <4>2
    <3> QED
      BY <3>1, <1>a DEF Free
  <2>2. CASE JobExecute(j)
    BY <2>2, <1>a, Names DEF JobExecute, TypeOK, JobSet
  <2>3. CASE JobFinish(j) \/ \E r \in Results : JobReturn(j, r)
    <3>1. /\ jobs'[j].pc \in {"free", "finish"}
          /\ \A k \in Jobs \ {j} : jobs'[k] = jobs[k]
          /\ UNCHANGED <<reading, picked, executions, unseen>>
      <4>1. CASE JobFinish(j)
        BY <4>1 DEF JobFinish, TypeOK, Free
      <4>2. ASSUME NEW r \in Results, JobReturn(j, r)
            PROVE  jobs'[j].pc = "finish" /\ \A k \in Jobs \ {j} : jobs'[k] = jobs[k]
        BY <4>2, Names DEF JobReturn, TypeOK, JobSet
      <4> QED
        BY <2>3, <4>1, <4>2 DEF JobReturn
    <3> QED
      BY <3>1, <1>a
  <2> QED
    BY <1>8, <2>1, <2>2, <2>3 DEF Job
<1>9. CASE ClockTick \/ Restart \/ UNCHANGED vars
  BY <1>9, <1>a DEF ClockTick, Restart, vars
<1>10. CASE Crash
  BY <1>10, <1>a DEF Crash, Free
<1> QED
  BY <1>1, <1>2, <1>3, <1>4, <1>5, <1>6, <1>7, <1>8, <1>9, <1>10 DEF Next, Tick, Cancel

----------------------------------------------------------------------------
(* A RUNNING record and its goroutine *)

\* RunningHasGoroutine is inductive where nothing failed: only a goroutine that
\* goes on writes RUNNING, and the write that ends it replaces what it wrote.
LEMMA GoroutineStep ==
    TypeOK /\ RunningHasGoroutine /\ [Next]_vars => RunningHasGoroutine'
<1> SUFFICES ASSUME TypeOK, RunningHasGoroutine, [Next]_vars,
                    (faults + crashes = 0)',
                    NEW s \in Schedules, (record[s].status = "RUNNING")'
             PROVE  \E j \in Jobs : jobs'[j].sched = s /\ jobs'[j].pc # "mark"
  BY DEF RunningHasGoroutine
<1> USE DEF redis, clock, process, history
<1> DEFINE Held == \E j \in Jobs : jobs[j].sched = s /\ jobs[j].pc # "mark"
<1>a. faults \in Nat /\ crashes \in Nat /\ faults + crashes = 0 =>
         (record[s].status = "RUNNING" => Held)
  BY DEF RunningHasGoroutine
<1>b. faults \in Nat /\ crashes \in Nat
  BY DEF TypeOK
<1>1. ASSUME NEW t \in Schedules, NEW at \in 1 .. MaxTime, Schedule(t, at)
      PROVE  Held /\ UNCHANGED jobs
  BY <1>1, <1>a, <1>b DEF Schedule, Reply, SetSchedule, Outcomes, TypeOK
<1>2. ASSUME NEW c \in Requests, NEW t \in Schedules, CancelGet(c, t)
      PROVE  Held /\ UNCHANGED jobs
  BY <1>2, <1>a, <1>b DEF CancelGet
<1>3. ASSUME NEW c \in Requests, Cancel(c)
      PROVE  Held /\ UNCHANGED jobs
  BY <1>3, <1>a, <1>b DEF Cancel, CancelSet, CancelUnindex, Reply, SetSchedule, Outcomes, TypeOK
<1>4. CASE TickBegin
  BY <1>4, <1>a, <1>b DEF TickBegin
<1>5. ASSUME NEW t \in Schedules, TickGet(t)
      PROVE  Held /\ UNCHANGED jobs
  BY <1>5, <1>a, <1>b DEF TickGet, Reply
<1>6. ASSUME NEW t \in Schedules, NEW j \in Jobs, TickSpawn(t, j)
      PROVE  \E k \in Jobs : jobs'[k].sched = s /\ jobs'[k].pc # "mark"
  <2>1. PICK k \in Jobs : jobs[k].sched = s /\ jobs[k].pc # "mark"
    BY <1>6, <1>a, <1>b DEF TickSpawn
  <2>2. k # j
    BY <1>6, <2>1, SchedulerAssumption DEF TickSpawn, Free
  <2> QED
    BY <1>6, <2>1, <2>2 DEF TickSpawn, TypeOK
<1>7. ASSUME NEW j \in Jobs, Job(j)
      PROVE  \E k \in Jobs : jobs'[k].sched = s /\ jobs'[k].pc # "mark"
  <2>1. jobs[j] \in JobSet
    BY <1>7, Names DEF Job, JobMark, JobUnindex, JobExecute, JobReturn, JobFinish
  <2>2. CASE JobMark(j)
    <3>1. /\ faults' = faults
          /\ record' = [record EXCEPT ![jobs[j].sched] = [status  |-> "RUNNING",
                                                          runID   |-> "none",
                                                          expires |-> now + TTL]]
          /\ jobs' = [jobs EXCEPT ![j] = [@ EXCEPT !.pc = "unindex"]]
      <4>1. PICK o \in Outcomes :
               /\ Reply(o.err)
               /\ SetSchedule(jobs[j].sched, "RUNNING", "none", o.applied)
               /\ jobs' = [jobs EXCEPT ![j] =
                              IF o.err THEN Free ELSE [@ EXCEPT !.pc = "unindex"]]
        BY <2>2 DEF JobMark
      <4>2. ~o.err /\ faults' = faults
        BY <4>1, <2>2, <1>b DEF JobMark, Reply, Outcomes
      <4>3. o.applied = 3
        BY <4>2 DEF Outcomes
      <4> QED
        BY <4>1, <4>2, <4>3 DEF SetSchedule
    <3>2. CASE jobs[j].sched = s
      BY <3>1, <3>2, <2>1 DEF JobSet, TypeOK
    <3>3. CASE jobs[j].sched # s
      <4>1. PICK k \in Jobs : jobs[k].sched = s /\ jobs[k].pc # "mark"
        BY <3>1, <3>3, <2>2, <1>a, <1>b DEF JobMark, TypeOK
      <4> QED
        BY <4>1, <3>1, <3>3 DEF TypeOK
    <3> QED
      BY <3>2, <3>3
  <2>3. CASE JobUnindex(j) \/ JobExecute(j) \/ \E r \in Results : JobReturn(j, r)
    <3>1. PICK k \in Jobs : jobs[k].sched = s /\ jobs[k].pc # "mark"
      BY <2>3, <1>a, <1>b DEF JobUnindex, JobExecute, JobReturn, Reply
    <3>2. jobs'[k].sched = s /\ jobs'[k].pc # "mark"
      BY <2>3, <2>1, <3>1 DEF JobUnindex, JobExecute, JobReturn, JobSet, TypeOK
    <3> QED
      BY <3>2
  <2>4. CASE JobFinish(j)
    <3>1. /\ faults' = faults
          /\ record'[jobs[j].sched].status # "RUNNING"
          /\ \A t \in Schedules : t # jobs[j].sched => record'[t] = record[t]
          /\ jobs' = [jobs EXCEPT ![j] = Free]
      BY <2>4, <2>1, <1>b DEF JobFinish, Reply, SetSchedule, Outcomes, TypeOK, JobSet
    <3>2. jobs[j].sched # s
      BY <3>1
    <3>3. PICK k \in Jobs : jobs[k].sched = s /\ jobs[k].pc # "mark"
      BY <3>1, <3>2, <2>4, <1>a, <1>b DEF JobFinish
    <3> QED
      BY <3>1, <3>2, <3>3 DEF TypeOK
  <2> QED
    BY <1>7, <2>2, <2>3, <2>4 DEF Job
<1>8. CASE ClockTick
  BY <1>8, <1>a, <1>b DEF ClockTick, NoRecord, TypeOK
<1>9. CASE Crash
  BY <1>9, <1>b DEF Crash
<1>10. CASE Restart
  BY <1>10, <1>a, <1>b DEF Restart
<1>11. CASE UNCHANGED vars
  BY <1>11, <1>a, <1>b DEF vars
<1> QED
  BY <1>1, <1>2, <1>3, <1>4, <1>5, <1>6, <1>7, <1>8, <1>9, <1>10, <1>11 DEF Next, Tick

----------------------------------------------------------------------------
(* The theorems *)

LEMMA Invariants == Spec => [](TypeOK /\ Known /\ Marked)
<1>1. Init => Known /\ Marked
  BY DEF Init, Known, Marked, Pending, NoRecord, Free, Idle
<1>2. TypeOK /\ Known /\ Marked /\ [Next]_vars => Known' /\ Marked'
  BY KnownStep, MarkedStep
<1> QED
  BY <1>1, <1>2, Typing, PTL DEF Spec

\* An accepted schedule whose record is PENDING can always be found by a tick:
\* no interleaving of goroutines, cancellations, failed writes and crashes takes
\* it off the index or out of the set of schedules.
THEOREM AcceptedIsFound == Spec => []PendingIsIndexed
<1>1. Init => PendingIsIndexed
  BY DEF Init, PendingIsIndexed
<1>2. TypeOK /\ Known /\ Marked /\ PendingIsIndexed /\ [Next]_vars => PendingIsIndexed'
  BY IndexedStep
<1> QED
  BY <1>1, <1>2, Invariants, PTL DEF Spec

\* No writer that holds an older copy of a record ever makes it PENDING again.
THEOREM NeverPendingAgain == Spec => PendingIsNeverRestored
<1>1. TypeOK /\ Known /\ [Next]_vars =>
         [\A s \in Schedules : due[s] # 0 /\ ~Pending(s) => ~Pending(s)']_vars
  BY NotRestored
<1> QED
  BY <1>1, Invariants, PTL DEF Spec, PendingIsNeverRestored

\* If no tick overtakes the goroutines of an earlier tick, the flow of a schedule
\* is started at most once, in spite of failed writes, crashes and cancellations.
THEOREM ExecutedAtMostOnce ==
    ASSUME TickOverlap = FALSE
    PROVE  Spec => []AtMostOnce
<1>1. Init => Exclusive
  BY DEF Init, Exclusive, Early, AtMostOnce, Free
<1>2. TypeOK /\ Known /\ Marked /\ Exclusive /\ [Next]_vars => Exclusive'
  BY ExclusiveStep
<1>3. Exclusive => AtMostOnce
  BY DEF Exclusive
<1> QED
  BY <1>1, <1>2, <1>3, Invariants, PTL DEF Spec

\* A cancellation written before a tick has picked the schedule is final.
THEOREM EarlyCancelIsFinal == Spec => []CancelBeforePickIsFinal
<1>1. Init => Unclaimed
  BY DEF Init, Unclaimed
<1>2. TypeOK /\ Known /\ Marked /\ Unclaimed /\ [Next]_vars => Unclaimed'
  BY UnclaimedStep
<1>3. Unclaimed => CancelBeforePickIsFinal
  BY DEF Unclaimed, CancelBeforePickIsFinal
<1> QED
  BY <1>1, <1>2, <1>3, Invariants, PTL DEF Spec

\* Where nothing failed, a record in RUNNING has a goroutine that will write its
\* result, whatever ticks, cancellations and expiring records do meanwhile.
THEOREM RunningIsAttended == Spec => []RunningHasGoroutine
<1>1. Init => RunningHasGoroutine
  BY DEF Init, RunningHasGoroutine, NoRecord
<1> QED
  BY <1>1, GoroutineStep, Typing, PTL DEF Spec
=============================================================================
