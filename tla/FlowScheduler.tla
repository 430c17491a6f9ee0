---------------------------- MODULE FlowScheduler ----------------------------
(***************************************************************************)
(* The scheduler of flow executions (internal/core/scheduler.go) over the  *)
(* schedule records of the state bus (internal/core/state.go).             *)
(*                                                                         *)
(* A schedule lives in Redis three times: as a record with a time to live, *)
(* as a member of the set of all schedule ids, and, while it is pending,   *)
(* as a member of an index sorted by due time.  A ticker reads the index,  *)
(* reads each due record and starts one goroutine per record still         *)
(* PENDING; the goroutine marks it RUNNING, takes it off the index, runs   *)
(* the flow and writes the result.  HTTP requests create, list and cancel  *)
(* schedules meanwhile.  Each round trip to Redis is a step of its own, so *)
(* every interleaving of ticker, goroutines and requests is explored.      *)
(***************************************************************************)
EXTENDS Integers, FiniteSets

CONSTANTS
    Schedules,    \* identities of the schedules that may be created
    Requests,     \* cancel requests the HTTP server serves at the same time
    Jobs,         \* slots for the goroutines a tick starts
    MaxTime,      \* bound: the clock stops here
    TTL,          \* life of a schedule record after a write (defaultScheduleTTL)
    MaxFaults,    \* bound: round trips that report an error
    MaxCrashes,   \* bound: times the process dies
    TickOverlap,  \* may a tick start before the goroutines of an earlier tick
                  \* have marked their schedules?  FALSE: each of those writes
                  \* is answered within the ten seconds between two ticks
    NoSchedule    \* the job slot or request is free

ASSUME SchedulerAssumption ==
    /\ MaxTime \in Nat
    /\ TTL \in Nat \ {0}
    /\ MaxFaults \in Nat
    /\ MaxCrashes \in Nat
    /\ TickOverlap \in BOOLEAN
    /\ NoSchedule \notin Schedules

VARIABLES
    \* Redis
    record,      \* the record of each schedule
    allSet,      \* ids in the set of all schedules
    index,       \* ids in the sorted set of pending schedules
    \* the clock, and the due time of each schedule (0: not created)
    now,
    due,
    \* the process
    up,
    reading,     \* ids of a tick's index snapshot whose records are still to be read
    picked,      \* schedules a tick found PENDING, whose goroutines are to start
    jobs,        \* goroutines
    requests,    \* cancel requests
    \* budgets and history
    faults,
    crashes,
    executions,  \* how often each schedule's flow was started
    accepted,    \* schedules whose creation was reported as successful
    cancelled,   \* schedules whose cancellation was reported as successful
    unseen       \* schedules cancelled before any tick had picked them

redis   == <<record, allSet, index>>
clock   == <<now, due>>
process == <<up, reading, picked, jobs, requests>>
history == <<executions, accepted, cancelled, unseen>>
vars    == <<redis, clock, process, faults, crashes, history>>

----------------------------------------------------------------------------
Statuses == {"PENDING", "RUNNING", "DONE", "FAILED", "CANCELLED"}

Records  == [status : Statuses, runID : {"none", "known"}, expires : Nat]
NoRecord == [status |-> "none", runID |-> "none", expires |-> 0]

Pending(s) == record[s].status = "PENDING"

\* What the flow executor of cmd/genoma returns: the run's result, which is an
\* error only if the flow could not be loaded or if it waits for a human.
Results == {"success", "failed", "awaiting", "unstarted"}
NilErr(r) == r \in {"success", "failed"}

Free   == [sched |-> NoSchedule, pc |-> "free", result |-> "unstarted"]
JobPCs == {"mark", "unindex", "execute", "running", "finish"}
JobSet == [sched : Schedules, pc : JobPCs, result : Results]

Idle       == [sched |-> NoSchedule, pc |-> "idle"]
RequestSet == [sched : Schedules, pc : {"write", "unindex"}]

----------------------------------------------------------------------------
(* Redis round trips *)

\* A reply that is an error costs one fault.
Reply(err) ==
    /\ err => faults < MaxFaults
    /\ faults' = IF err THEN faults + 1 ELSE faults

\* A pipeline of three commands is not a transaction: when it reports an error,
\* any prefix of it, the whole included, may have been carried out.
Outcomes == {o \in [applied : 0 .. 3, err : BOOLEAN] : o.err \/ o.applied = 3}

\* Mutant: the index is never written.
SetRecordOnly(s, status, runID, applied) ==
    /\ record' = IF applied >= 1
                 THEN [record EXCEPT ![s] = [status  |-> status,
                                             runID   |-> runID,
                                             expires |-> now + TTL]]
                 ELSE record
    /\ allSet' = IF applied >= 2 THEN allSet \union {s} ELSE allSet
    /\ UNCHANGED index

\* StateBus.SetSchedule: SET with a time to live, SADD, and ZADD if pending.
SetSchedule(s, status, runID, applied) ==
    /\ record' = IF applied >= 1
                 THEN [record EXCEPT ![s] = [status  |-> status,
                                             runID   |-> runID,
                                             expires |-> now + TTL]]
                 ELSE record
    /\ allSet' = IF applied >= 2 THEN allSet \union {s} ELSE allSet
    /\ index'  = IF applied >= 3 /\ status = "PENDING"
                 THEN index \union {s} ELSE index

\* StateBus.RemoveScheduleFromIndex: one ZREM, carried out or not.
RemoveScheduleFromIndex(s, applied) ==
    index' = IF applied THEN index \ {s} ELSE index

----------------------------------------------------------------------------
Init ==
    /\ record = [s \in Schedules |-> NoRecord]
    /\ allSet = {}
    /\ index = {}
    /\ now = 1
    /\ due = [s \in Schedules |-> 0]
    /\ up = TRUE
    /\ reading = {}
    /\ picked = {}
    /\ jobs = [j \in Jobs |-> Free]
    /\ requests = [c \in Requests |-> Idle]
    /\ faults = 0
    /\ crashes = 0
    /\ executions = [s \in Schedules |-> 0]
    /\ accepted = {}
    /\ cancelled = {}
    /\ unseen = {}

(* HTTP requests *)

\* ADI ScheduleFlow and FlowScheduler.Schedule: a fresh id, a time that is not
\* in the past, one pipeline; the caller is told of an error.
Schedule(s, at) ==
    /\ up
    /\ due[s] = 0
    /\ at >= now
    /\ \E o \in Outcomes :
          /\ Reply(o.err)
          /\ SetSchedule(s, "PENDING", "none", o.applied)
          /\ accepted' = IF o.err THEN accepted ELSE accepted \union {s}
    /\ due' = [due EXCEPT ![s] = at]
    /\ UNCHANGED <<now, process, crashes, executions, cancelled, unseen>>

\* FlowScheduler.Cancel, first round trip: only a record read as PENDING lets
\* the request go on; a missing record or another status is refused.
CancelGet(c, s) ==
    /\ up
    /\ requests[c] = Idle
    /\ Pending(s)
    /\ requests' = [requests EXCEPT ![c] = [sched |-> s, pc |-> "write"]]
    /\ UNCHANGED <<redis, clock, up, reading, picked, jobs, faults, crashes, history>>

\* Has a tick picked s for a goroutine that has not marked it yet?
InHand(s) ==
    \/ s \in picked
    \/ \E j \in Jobs : jobs[j].sched = s /\ jobs[j].pc = "mark"

\* Second round trip: the record read before is written back as CANCELLED.
CancelSet(c) ==
    LET s == requests[c].sched IN
    /\ requests[c].pc = "write"
    /\ \E o \in Outcomes :
          /\ Reply(o.err)
          /\ SetSchedule(s, "CANCELLED", "none", o.applied)
          /\ requests' = [requests EXCEPT ![c] =
                             IF o.err THEN Idle ELSE [@ EXCEPT !.pc = "unindex"]]
          /\ unseen' = IF o.applied >= 1 /\ Pending(s) /\ ~InHand(s)
                       THEN unseen \union {s} ELSE unseen
    /\ UNCHANGED <<clock, up, reading, picked, jobs, crashes,
                   executions, accepted, cancelled>>

\* Third round trip: off the index; its error is the request's error.
CancelUnindex(c) ==
    LET s == requests[c].sched IN
    /\ requests[c].pc = "unindex"
    /\ \E applied, err \in BOOLEAN :
          /\ applied \/ err
          /\ Reply(err)
          /\ RemoveScheduleFromIndex(s, applied)
          /\ cancelled' = IF err THEN cancelled ELSE cancelled \union {s}
    /\ requests' = [requests EXCEPT ![c] = Idle]
    /\ UNCHANGED <<record, allSet, clock, up, reading, picked, jobs, crashes,
                   executions, accepted, unseen>>

----------------------------------------------------------------------------
(* The ticker: Start, runDue and StateBus.DueSchedules *)

\* The index snapshot of a tick.  An error, or no due id, ends the tick at once.
TickBegin ==
    /\ up
    /\ reading = {} /\ picked = {}
    /\ TickOverlap \/ \A j \in Jobs : jobs[j].pc # "mark"
    /\ reading' = {s \in index : due[s] <= now}
    /\ reading' # {}
    /\ UNCHANGED <<redis, clock, up, picked, jobs, requests, faults, crashes, history>>

\* Mutant: the status of a record found through the index is not looked at.
TickGetAny(s) ==
    /\ s \in reading
    /\ reading' = reading \ {s}
    /\ picked' = IF record[s] # NoRecord THEN picked \union {s} ELSE picked
    /\ UNCHANGED <<redis, clock, up, jobs, requests, faults, crashes, history>>

\* The record of one id: a missing record, a status other than PENDING and a
\* failed read skip it.
TickGet(s) ==
    /\ s \in reading
    /\ reading' = reading \ {s}
    /\ \E err \in BOOLEAN :
          /\ Reply(err)
          /\ picked' = IF Pending(s) /\ ~err THEN picked \union {s} ELSE picked
    /\ UNCHANGED <<redis, clock, up, jobs, requests, crashes, history>>

\* One goroutine per picked schedule, after all records were read.
TickSpawn(s, j) ==
    /\ reading = {}
    /\ s \in picked
    /\ jobs[j] = Free
    /\ picked' = picked \ {s}
    /\ jobs' = [jobs EXCEPT ![j] = [Free EXCEPT !.sched = s, !.pc = "mark"]]
    /\ UNCHANGED <<redis, clock, up, reading, requests, faults, crashes, history>>

----------------------------------------------------------------------------
(* The goroutine of one picked schedule *)

\* Mutant: the goroutine goes on after a failed write.
JobMarkGoesOn(j) ==
    /\ jobs[j].pc = "mark"
    /\ \E o \in Outcomes :
          /\ Reply(o.err)
          /\ SetSchedule(jobs[j].sched, "RUNNING", "none", o.applied)
    /\ jobs' = [jobs EXCEPT ![j].pc = "unindex"]
    /\ UNCHANGED <<clock, up, reading, picked, requests, crashes, history>>

\* The RUNNING mark; a failed write ends the goroutine.
JobMark(j) ==
    LET s == jobs[j].sched IN
    /\ jobs[j].pc = "mark"
    /\ \E o \in Outcomes :
          /\ Reply(o.err)
          /\ SetSchedule(s, "RUNNING", "none", o.applied)
          /\ jobs' = [jobs EXCEPT ![j] =
                         IF o.err THEN Free ELSE [@ EXCEPT !.pc = "unindex"]]
    /\ UNCHANGED <<clock, up, reading, picked, requests, crashes, history>>

\* Off the index; an error is ignored.
JobUnindex(j) ==
    /\ jobs[j].pc = "unindex"
    /\ \E applied, err \in BOOLEAN :
          /\ applied \/ err
          /\ Reply(err)
          /\ RemoveScheduleFromIndex(jobs[j].sched, applied)
    /\ jobs' = [jobs EXCEPT ![j].pc = "execute"]
    /\ UNCHANGED <<record, allSet, clock, up, reading, picked, requests, crashes, history>>

\* The executor is called.
JobExecute(j) ==
    /\ jobs[j].pc = "execute"
    /\ executions' = [executions EXCEPT ![jobs[j].sched] = @ + 1]
    /\ jobs' = [jobs EXCEPT ![j].pc = "running"]
    /\ UNCHANGED <<redis, clock, up, reading, picked, requests, faults, crashes,
                   accepted, cancelled, unseen>>

\* Mutant: a result that nothing handles.
JobReturnOther(j, result) ==
    /\ jobs[j].pc = "running"
    /\ jobs' = [jobs EXCEPT ![j].pc = "finish", ![j].result = "timeout"]
    /\ UNCHANGED <<redis, clock, up, reading, picked, requests, faults, crashes, history>>

\* Mutant: the goroutine returns when the executor reports an error.
JobReturnOnError(j, result) ==
    /\ jobs[j].pc = "running"
    /\ jobs' = [jobs EXCEPT ![j] =
                   IF NilErr(result) THEN [@ EXCEPT !.pc = "finish", !.result = result]
                   ELSE Free]
    /\ UNCHANGED <<redis, clock, up, reading, picked, requests, faults, crashes, history>>

\* The executor returns.
JobReturn(j, result) ==
    /\ jobs[j].pc = "running"
    /\ jobs' = [jobs EXCEPT ![j].pc = "finish", ![j].result = result]
    /\ UNCHANGED <<redis, clock, up, reading, picked, requests, faults, crashes, history>>

\* Mutant: a schedule whose execution failed is put back.
JobFinishRetries(j) ==
    /\ jobs[j].pc = "finish"
    /\ SetSchedule(jobs[j].sched, IF NilErr(jobs[j].result) THEN "DONE" ELSE "PENDING",
                   "none", 3)
    /\ jobs' = [jobs EXCEPT ![j] = Free]
    /\ UNCHANGED <<clock, up, reading, picked, requests, faults, crashes, history>>

\* The result is written, with the run id only if there was no error; an error
\* of the write is ignored.
JobFinish(j) ==
    LET ok == NilErr(jobs[j].result) IN
    /\ jobs[j].pc = "finish"
    /\ \E o \in Outcomes :
          /\ Reply(o.err)
          /\ SetSchedule(jobs[j].sched, IF ok THEN "DONE" ELSE "FAILED",
                         IF ok THEN "known" ELSE "none", o.applied)
    /\ jobs' = [jobs EXCEPT ![j] = Free]
    /\ UNCHANGED <<clock, up, reading, picked, requests, crashes, history>>

----------------------------------------------------------------------------
(* Time and the process *)

\* A pending schedule that is due, that a tick can find and that none has picked.
TickDue(s) == s \in index /\ Pending(s) /\ due[s] <= now /\ ~InHand(s)

\* A unit of time passes; Redis drops the records whose time to live has run out.
\* A unit is longer than the ten seconds between two ticks and short against the
\* seven days a record lives: while the process is up, the ticks of the last unit
\* of a record's life come before its end.
ClockTick ==
    /\ now < MaxTime
    /\ up => \A s \in Schedules : TickDue(s) => record[s].expires > now + 1
    /\ now' = now + 1
    /\ record' = [s \in Schedules |->
                     IF record[s].expires <= now + 1 THEN NoRecord ELSE record[s]]
    /\ UNCHANGED <<allSet, index, due, process, faults, crashes, history>>

\* The process dies, or is told to stop: main returns as soon as the listener
\* is closed, so ticker, goroutines and requests go with it.
Crash ==
    /\ up
    /\ crashes < MaxCrashes
    /\ crashes' = crashes + 1
    /\ up' = FALSE
    /\ reading' = {}
    /\ picked' = {}
    /\ jobs' = [j \in Jobs |-> Free]
    /\ requests' = [c \in Requests |-> Idle]
    /\ UNCHANGED <<redis, clock, faults, history>>

Restart ==
    /\ ~up
    /\ up' = TRUE
    /\ UNCHANGED <<redis, clock, reading, picked, jobs, requests, faults, crashes, history>>

Tick == \/ TickBegin
        \/ \E s \in Schedules : TickGet(s)
        \/ \E s \in Schedules, j \in Jobs : TickSpawn(s, j)

Job(j) == \/ JobMark(j)
          \/ JobUnindex(j)
          \/ JobExecute(j)
          \/ \E r \in Results : JobReturn(j, r)
          \/ JobFinish(j)

Cancel(c) == CancelSet(c) \/ CancelUnindex(c)

Next ==
    \/ \E s \in Schedules, at \in 1 .. MaxTime : Schedule(s, at)
    \/ \E c \in Requests, s \in Schedules : CancelGet(c, s)
    \/ \E c \in Requests : Cancel(c)
    \/ Tick
    \/ \E j \in Jobs : Job(j)
    \/ ClockTick
    \/ Crash
    \/ Restart

Spec == Init /\ [][Next]_vars

\* The ticker ticks, goroutines and handlers that started go on, time passes and
\* a dead process is started again (docker-compose: restart: unless-stopped).
\* Nobody has to create or to cancel a schedule.
Fairness ==
    /\ WF_vars(TickBegin)
    /\ \A s \in Schedules : WF_vars(TickGet(s))
    /\ \A s \in Schedules : WF_vars(\E j \in Jobs : TickSpawn(s, j))
    /\ \A j \in Jobs : WF_vars(Job(j))
    /\ \A c \in Requests : WF_vars(Cancel(c))
    /\ WF_vars(ClockTick)
    /\ WF_vars(Restart)

FairSpec == Spec /\ Fairness

----------------------------------------------------------------------------
(* What the scheduler promises *)

\* Every variable holds values of its type.
TypeOK ==
    /\ record \in [Schedules -> Records \union {NoRecord}]
    /\ allSet \subseteq Schedules
    /\ index \subseteq Schedules
    /\ now \in Nat
    /\ due \in [Schedules -> Nat]
    /\ up \in BOOLEAN
    /\ reading \subseteq Schedules
    /\ picked \subseteq Schedules
    /\ jobs \in [Jobs -> JobSet \union {Free}]
    /\ requests \in [Requests -> RequestSet \union {Idle}]
    /\ faults \in Nat
    /\ crashes \in Nat
    /\ executions \in [Schedules -> Nat]
    /\ accepted \subseteq Schedules
    /\ cancelled \subseteq Schedules
    /\ unseen \subseteq Schedules

\* No accepted schedule is lost: while its record is PENDING it is in the index,
\* where a tick can find it, and in the set the list handler reads, whatever
\* goroutines and cancel requests for it are under way, failed or died.
PendingIsIndexed ==
    \A s \in accepted : Pending(s) => s \in index /\ s \in allSet

\* A flow is started at most once per schedule, however ticks, failed writes,
\* crashes and restarts interleave, if no tick overtakes the goroutines of an
\* earlier one (TickOverlap = FALSE): the RUNNING mark precedes the execution.
AtMostOnce == \A s \in Schedules : executions[s] <= 1

\* A cancellation that reaches the record before a tick has picked the schedule
\* is final: the flow is not started, though the index entry may survive.
CancelBeforePickIsFinal == \A s \in unseen : executions[s] = 0

\* A schedule that has left PENDING is never made PENDING again, by any of the
\* writers that hold an older copy of its record.
PendingIsNeverRestored ==
    [][\A s \in Schedules : due[s] # 0 /\ ~Pending(s) => ~Pending(s)']_vars

\* As long as no round trip failed and the process did not die, a record in
\* RUNNING has a goroutine that will write its result.
RunningHasGoroutine ==
    faults + crashes = 0 =>
        \A s \in Schedules : record[s].status = "RUNNING" =>
            \E j \in Jobs : jobs[j].sched = s /\ jobs[j].pc # "mark"

\* A due schedule that is pending is picked up or cancelled in the end, in spite of
\* failed round trips, crashes and leftover index entries, unless it expires while
\* the process is down.
DueIsPicked ==
    \A s \in Schedules :
        s \in accepted /\ Pending(s) /\ due[s] <= now ~> ~Pending(s)

\* Unless something fails, an accepted schedule that is due before its record expires
\* gets a final status and keeps it for the rest of the record's life, though the
\* writes of the goroutine and of a racing cancellation may land in any order (the
\* last one decides).  A schedule due later than its record lives is never executed:
\* the record expires as PENDING (state.go:209), so the property leaves it out.
AcceptedIsSettled ==
    \A s \in Schedules :
        s \in accepted /\ Pending(s) /\ due[s] < record[s].expires ~>
            \/ faults + crashes > 0
            \/ \E v \in {"DONE", "FAILED", "CANCELLED"} :
                  record[s].status = v /\ [](record[s] = NoRecord \/ record[s].status = v)

\* What Cancel promises (scheduler.go:47, "marks a pending schedule as
\* cancelled"): once it has reported success the record stays CANCELLED.
CancelledStaysCancelled ==
    \A s \in cancelled : record[s] = NoRecord \/ record[s].status = "CANCELLED"
=============================================================================
