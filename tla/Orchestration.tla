---------------------------- MODULE Orchestration ----------------------------
(***************************************************************************)
(* The life of pipeline runs across processes: the cron scanner and the    *)
(* reaper of every scheduler instance (internal/scheduler), the trigger    *)
(* handler, the job queue (Asynq, or the in-process SyncEnqueuer) and      *)
(* the workers that execute RunOnce.  They share the run table only, and   *)
(* write to it blindly: UpdateRun stores the caller's copy of the row.     *)
(* The task loop of RunOnce is one step here (module PipelineRunner).      *)
(*                                                                         *)
(* Backend "memory": one process, MemoryStore and SyncEnqueuer; a job is a *)
(* goroutine that is never redelivered.  Backend "postgres": any number of *)
(* API and worker processes, PipelineStore and Asynq.                      *)
(***************************************************************************)
EXTENDS Integers, FiniteSets

CONSTANTS
    Backend,     \* "memory" or "postgres"
    Schedulers,  \* scheduler instances, one per API process
    Pipes,       \* ids of pipelines, each with an enabled schedule
    RunIds,      \* ids of run rows (bounds the number of runs)
    Workers,     \* deliveries that can be under way at the same time
    Period,      \* every pipeline fires at the multiples of Period
    Lookback,    \* 2 * CronInterval
    StuckAfter,  \* age at which a running run counts as stuck
    MaxRetry,    \* redeliveries of a job
    MaxTime      \* bound on the clock

ASSUME OrchestrationAssumption ==
    /\ Backend \in {"memory", "postgres"}
    /\ Backend = "memory" => /\ \A s, u \in Schedulers : s = u
                             /\ MaxRetry = 0
    /\ RunIds \subseteq Nat \ {0}
    /\ Period \in Nat \ {0} /\ Lookback \in Nat \ {0} /\ StuckAfter \in Nat
    /\ MaxRetry \in Nat /\ MaxTime \in Nat

VARIABLES
    now,        \* the clock
    pipelines,  \* pipeline table: the rows that are there
    runs,       \* run table: id -> row; status "none" when there was never a row,
                \* "deleted" when there is none any more
    lastFired,  \* scheduler -> pipeline -> tick last fired; 0 is the zero time
    sched,      \* scheduler -> what its goroutine is doing
    unsent,     \* runs a trigger handler has created and not enqueued yet
    jobs,       \* run id -> queue entry
    workers,    \* worker -> delivery it executes
    dropped,    \* history: runs whose enqueue failed or whose job was given up
    reaped,     \* history: runs the reaper has marked failed
    disputed    \* history: runs a live worker has lost the lease of

vars == <<now, pipelines, runs, lastFired, sched, unsent, jobs, workers, dropped, reaped, disputed>>

-----------------------------------------------------------------------------

Terminal == {"succeeded", "failed"}
Manual == 0   \* tick of a run that was triggered by hand: its key is unique

Absent == [status |-> "none", pipe |-> "none", tick |-> Manual, startedAt |-> 0]
Deleted == [Absent EXCEPT !.status = "deleted"]
Exists(r) == runs[r].status \notin {"none", "deleted"}

\* PipelineStore.CreateRun and UpdateRun take the tenant from the context; the
\* scheduler's context has none.  MemoryStore does not ask.
SystemActorMayWrite == Backend = "memory"

\* UNIQUE (tenant_id, pipeline_id, idempotency_key).
KeyTaken(p, tick) ==
    /\ Backend = "postgres"
    /\ \E r \in RunIds : Exists(r) /\ runs[r].pipe = p /\ runs[r].tick = tick

\* newID: ids are handed out in order, which names them without loss of cases.
IsFresh(r) == runs[r].status = "none" /\ \A q \in RunIds : runs[q].status = "none" => r <= q

Row(p, tick) == [status |-> "queued", pipe |-> p, tick |-> tick, startedAt |-> 0]

Idle == [pc |-> "idle", run |-> 0, list |-> {}]
NoDelivery == [pc |-> "idle", run |-> 0, lease |-> 0, startedAt |-> 0]
NoJob == [state |-> "none", retried |-> 0]

-----------------------------------------------------------------------------
(* Cron scanner. *)

\* sched.Next(last): the first firing time strictly after last.
CronNext(last) == (last \div Period + 1) * Period

\* dueAt: the first firing time after the last one fired here.
DueAt(s, p) ==
    CronNext(IF lastFired[s][p] = 0 THEN now - Lookback ELSE lastFired[s][p])

\* Mutant: the tick is not remembered.
FireWithoutMark(s, p) ==
    LET tick == DueAt(s, p) IN
    /\ sched[s].pc = "idle"
    /\ p \in pipelines
    /\ tick <= now
    /\ SystemActorMayWrite
    /\ ~KeyTaken(p, tick)
    /\ \E r \in RunIds :
        /\ IsFresh(r)
        /\ runs' = [runs EXCEPT ![r] = Row(p, tick)]
        /\ sched' = [sched EXCEPT ![s] = [pc |-> "enqueue", run |-> r, list |-> {}]]
    /\ UNCHANGED <<now, pipelines, lastFired, unsent, jobs, workers, dropped, reaped, disputed>>

\* fireDue for one pipeline: the tick is marked before the row is created, so a
\* tick whose CreateRun fails is not tried again by this instance.  MemoryStore
\* does not look whether the pipeline is still there: one deleted since it was
\* listed is as good as deleted right after the row was created.
FireDue(s, p) ==
    LET tick == DueAt(s, p) IN
    /\ sched[s].pc = "idle"
    /\ p \in pipelines
    /\ tick <= now
    /\ lastFired[s][p] < tick
    /\ lastFired' = [lastFired EXCEPT ![s][p] = tick]
    /\ SystemActorMayWrite
    /\ ~KeyTaken(p, tick)
    /\ \E r \in RunIds :
        /\ IsFresh(r)
        /\ runs' = [runs EXCEPT ![r] = Row(p, tick)]
        /\ sched' = [sched EXCEPT ![s] = [pc |-> "enqueue", run |-> r, list |-> {}]]
    /\ UNCHANGED <<now, pipelines, unsent, jobs, workers, dropped, reaped, disputed>>

\* ... CreateRun refuses: no tenant, or another instance was first.
FireRefused(s, p) ==
    LET tick == DueAt(s, p) IN
    /\ sched[s].pc = "idle"
    /\ p \in pipelines
    /\ tick <= now
    /\ lastFired[s][p] < tick
    /\ lastFired' = [lastFired EXCEPT ![s][p] = tick]
    /\ ~SystemActorMayWrite \/ KeyTaken(p, tick)
    /\ UNCHANGED <<now, pipelines, runs, sched, unsent, jobs, workers, dropped, reaped, disputed>>

EnqueueJob(r) == jobs' = [jobs EXCEPT ![r] = [state |-> "pending", retried |-> 0]]

\* Mutant: the row is created and no job for it.
ScheduleWithoutJob(s) ==
    /\ sched[s].pc = "enqueue"
    /\ sched' = [sched EXCEPT ![s] = Idle]
    /\ UNCHANGED <<now, pipelines, runs, lastFired, unsent, jobs, workers, dropped, reaped, disputed>>

\* An enqueue error is logged only.  It cannot occur here: rows are created
\* in memory mode only, and SyncEnqueuer just starts a goroutine.
ScheduleEnqueue(s) ==
    /\ sched[s].pc = "enqueue"
    /\ EnqueueJob(sched[s].run)
    /\ sched' = [sched EXCEPT ![s] = Idle]
    /\ UNCHANGED <<now, pipelines, runs, lastFired, unsent, workers, dropped, reaped, disputed>>

-----------------------------------------------------------------------------
(* Reaper: same goroutine as the scanner. *)

Stuck == {r \in RunIds : /\ runs[r].status = "running"
                         /\ runs[r].startedAt # 0
                         /\ runs[r].startedAt <= now - StuckAfter}

\* The list holds copies of the rows.
ReapList(s) ==
    /\ sched[s].pc = "idle"
    /\ Stuck # {}
    /\ sched' = [sched EXCEPT ![s] =
                    [pc |-> "reap", run |-> 0, list |-> {[id |-> r, row |-> runs[r]] : r \in Stuck}]]
    /\ UNCHANGED <<now, pipelines, runs, lastFired, unsent, jobs, workers, dropped, reaped, disputed>>

\* UpdateRun with the copy, status failed.
ReapOne(s) ==
    /\ sched[s].pc = "reap"
    /\ \E c \in sched[s].list :
        /\ sched' = [sched EXCEPT ![s].list = @ \ {c}]
        /\ IF SystemActorMayWrite
           THEN /\ runs' = [runs EXCEPT ![c.id] = [c.row EXCEPT !.status = "failed"]]
                /\ reaped' = reaped \cup {c.id}
           ELSE UNCHANGED <<runs, reaped>>
    /\ UNCHANGED <<now, pipelines, lastFired, unsent, jobs, workers, dropped, disputed>>

ReapDone(s) ==
    /\ sched[s].pc = "reap"
    /\ sched[s].list = {}
    /\ sched' = [sched EXCEPT ![s] = Idle]
    /\ UNCHANGED <<now, pipelines, runs, lastFired, unsent, jobs, workers, dropped, reaped, disputed>>

-----------------------------------------------------------------------------
(* Pipelines.  A client may create one under an id that was used before. *)

CreatePipeline(p) ==
    /\ p \notin pipelines
    /\ pipelines' = pipelines \cup {p}
    /\ UNCHANGED <<now, runs, lastFired, sched, unsent, jobs, workers, dropped, reaped, disputed>>

\* MemoryStore keeps the runs "for audit"; over Postgres they go with their
\* pipeline (ON DELETE CASCADE).  Jobs stay in the queue, and a scheduler does
\* not forget what it fired.
DeletePipeline(p) ==
    /\ p \in pipelines
    /\ pipelines' = pipelines \ {p}
    /\ runs' = IF Backend = "memory" THEN runs
               ELSE [r \in RunIds |-> IF Exists(r) /\ runs[r].pipe = p THEN Deleted ELSE runs[r]]
    /\ UNCHANGED <<now, lastFired, sched, unsent, jobs, workers, dropped, reaped, disputed>>

-----------------------------------------------------------------------------
(* Trigger handler: create the row, then enqueue "best effort". *)

TriggerPipeline(p) ==
    /\ p \in pipelines
    /\ \E r \in RunIds :
        /\ IsFresh(r)
        /\ runs' = [runs EXCEPT ![r] = Row(p, Manual)]
        /\ unsent' = unsent \cup {r}
    /\ UNCHANGED <<now, pipelines, lastFired, sched, jobs, workers, dropped, reaped, disputed>>

TriggerEnqueue(r) ==
    /\ r \in unsent
    /\ unsent' = unsent \ {r}
    /\ EnqueueJob(r)
    /\ UNCHANGED <<now, pipelines, runs, lastFired, sched, workers, dropped, reaped, disputed>>

TriggerEnqueueFails(r) ==
    /\ r \in unsent
    /\ Backend = "postgres"
    /\ unsent' = unsent \ {r}
    /\ dropped' = dropped \cup {r}
    /\ UNCHANGED <<now, pipelines, runs, lastFired, sched, jobs, workers, reaped, disputed>>

-----------------------------------------------------------------------------
(* Queue and workers. *)

Take(w, r) ==
    /\ workers[w].pc = "idle"
    /\ jobs[r].state = "pending"
    /\ jobs' = [jobs EXCEPT ![r].state = "leased"]
    /\ workers' = [workers EXCEPT ![w] =
                      [pc |-> "load", run |-> r, lease |-> jobs[r].retried, startedAt |-> 0]]
    /\ UNCHANGED <<now, pipelines, runs, lastFired, sched, unsent, dropped, reaped, disputed>>

HoldsLease(w) ==
    LET j == jobs[workers[w].run] IN j.state = "leased" /\ j.retried = workers[w].lease

\* The queue ignores an acknowledgement by a delivery that lost its lease.
Ack(w) ==
    jobs' = IF HoldsLease(w) THEN [jobs EXCEPT ![workers[w].run].state = "acked"] ELSE jobs

\* Redelivery, or the archive when the retries are used up.
GiveBack(r) ==
    IF jobs[r].retried < MaxRetry
    THEN /\ jobs' = [jobs EXCEPT ![r] = [state |-> "pending", retried |-> @.retried + 1]]
         /\ UNCHANGED dropped
    ELSE /\ jobs' = [jobs EXCEPT ![r].state = "archived"]
         /\ dropped' = dropped \cup {r}

\* RunOnce: GetRun and GetPipeline, and the early return for a finished run.
LoadRun(w) ==
    /\ workers[w].pc = "load"
    /\ runs[workers[w].run].status \in {"queued", "running"}
    /\ runs[workers[w].run].pipe \in pipelines
    /\ workers' = [workers EXCEPT ![w].pc = "start"]
    /\ UNCHANGED <<now, pipelines, runs, lastFired, sched, unsent, jobs, dropped, reaped, disputed>>

LoadTerminal(w) ==
    /\ workers[w].pc = "load"
    /\ runs[workers[w].run].status \in Terminal
    /\ Ack(w)
    /\ workers' = [workers EXCEPT ![w] = NoDelivery]
    /\ UNCHANGED <<now, pipelines, runs, lastFired, sched, unsent, dropped, reaped, disputed>>

\* The delivery ends with an error: the queue gets the job back, if it is still
\* this delivery's; SyncEnqueuer logs the error and that is all (MaxRetry = 0).
DeliveryFails(w) ==
    /\ IF HoldsLease(w) THEN GiveBack(workers[w].run) ELSE UNCHANGED <<jobs, dropped>>
    /\ workers' = [workers EXCEPT ![w] = NoDelivery]
    /\ UNCHANGED <<now, pipelines, runs, lastFired, sched, unsent, reaped, disputed>>

\* RunOnce: GetPipeline finds no pipeline.  The row of the run is left as it is.
LoadFails(w) ==
    /\ workers[w].pc = "load"
    /\ runs[workers[w].run].status \in {"queued", "running"}
    /\ runs[workers[w].run].pipe \notin pipelines
    /\ DeliveryFails(w)

\* RunOnce: GetRun or one of the two UpdateRuns finds no run.
RunIsGone(w) ==
    /\ workers[w].pc # "idle"
    /\ runs[workers[w].run].status = "deleted"
    /\ DeliveryFails(w)

\* Mutant: the start is not dated.
StartUndated(w) ==
    /\ workers[w].pc = "start"
    /\ Exists(workers[w].run)
    /\ runs' = [runs EXCEPT ![workers[w].run].status = "running"]
    /\ workers' = [workers EXCEPT ![w].pc = "exec", ![w].startedAt = now]
    /\ UNCHANGED <<now, pipelines, lastFired, sched, unsent, jobs, dropped, reaped, disputed>>

\* RunOnce: UpdateRun(running, StartedAt now), on the copy loaded before.
StartRun(w) ==
    /\ workers[w].pc = "start"
    /\ Exists(workers[w].run)
    /\ runs' = [runs EXCEPT ![workers[w].run].status = "running",
                            ![workers[w].run].startedAt = now]
    /\ workers' = [workers EXCEPT ![w].pc = "exec", ![w].startedAt = now]
    /\ UNCHANGED <<now, pipelines, lastFired, sched, unsent, jobs, dropped, reaped, disputed>>

\* Mutant: the worker returns without the final UpdateRun.
FinishUnsaved(w, outcome) ==
    /\ workers[w].pc = "exec"
    /\ Exists(workers[w].run)
    /\ outcome \in Terminal
    /\ Ack(w)
    /\ workers' = [workers EXCEPT ![w] = NoDelivery]
    /\ UNCHANGED <<now, pipelines, runs, lastFired, sched, unsent, dropped, reaped, disputed>>

\* RunOnce: the final UpdateRun, again of the worker's own copy.
FinishRun(w, outcome) ==
    /\ workers[w].pc = "exec"
    /\ Exists(workers[w].run)
    /\ runs' = [runs EXCEPT ![workers[w].run].status = outcome,
                            ![workers[w].run].startedAt = workers[w].startedAt]
    /\ Ack(w)
    /\ workers' = [workers EXCEPT ![w] = NoDelivery]
    /\ UNCHANGED <<now, pipelines, lastFired, sched, unsent, dropped, reaped, disputed>>

\* A worker process dies (a memory deployment dies as a whole), or a statement
\* of RunOnce fails: either way the delivery ends where it is.
WorkerCrash(w) ==
    /\ Backend = "postgres"
    /\ workers[w].pc # "idle"
    /\ DeliveryFails(w)

\* A worker fails to extend its lease in time but goes on executing.
LeaseExpires(w) ==
    /\ Backend = "postgres"
    /\ workers[w].pc # "idle"
    /\ HoldsLease(w)
    /\ GiveBack(workers[w].run)
    /\ disputed' = disputed \cup {workers[w].run}
    /\ UNCHANGED <<now, pipelines, runs, lastFired, sched, unsent, workers, reaped>>

Tick ==
    /\ now < MaxTime
    /\ now' = now + 1
    /\ UNCHANGED <<pipelines, runs, lastFired, sched, unsent, jobs, workers, dropped, reaped, disputed>>

-----------------------------------------------------------------------------

Init ==
    /\ now = Lookback + 1
    /\ pipelines = Pipes
    /\ runs = [r \in RunIds |-> Absent]
    /\ lastFired = [s \in Schedulers |-> [p \in Pipes |-> 0]]
    /\ sched = [s \in Schedulers |-> Idle]
    /\ unsent = {}
    /\ jobs = [r \in RunIds |-> NoJob]
    /\ workers = [w \in Workers |-> NoDelivery]
    /\ dropped = {}
    /\ reaped = {}
    /\ disputed = {}

SchedulerStep(s) ==
    \/ \E p \in Pipes : FireDue(s, p) \/ FireRefused(s, p)
    \/ ScheduleEnqueue(s)
    \/ ReapList(s)
    \/ ReapOne(s)
    \/ ReapDone(s)

WorkerStep(w) ==
    \/ \E r \in RunIds : Take(w, r)
    \/ LoadRun(w)
    \/ LoadTerminal(w)
    \/ LoadFails(w)
    \/ RunIsGone(w)
    \/ StartRun(w)
    \/ \E o \in Terminal : FinishRun(w, o)

Next ==
    \/ \E s \in Schedulers : SchedulerStep(s)
    \/ \E p \in Pipes : CreatePipeline(p) \/ DeletePipeline(p) \/ TriggerPipeline(p)
    \/ \E r \in RunIds : TriggerEnqueue(r) \/ TriggerEnqueueFails(r)
    \/ \E w \in Workers : WorkerStep(w) \/ WorkerCrash(w) \/ LeaseExpires(w)
    \/ Tick

Spec == Init /\ [][Next]_vars

\* Every process that can go on does, and time passes; nobody has to create or
\* delete a pipeline, trigger a run, crash or lose a lease.  The two loops of a scheduler are served by
\* tickers of their own, so neither starves the other.
Fairness ==
    /\ \A s \in Schedulers :
        /\ \A p \in Pipes : SF_vars(FireDue(s, p)) /\ SF_vars(FireRefused(s, p))
        /\ WF_vars(ScheduleEnqueue(s))
        /\ SF_vars(ReapList(s))
        /\ WF_vars(ReapOne(s) \/ ReapDone(s))
    /\ \A r \in RunIds : WF_vars(TriggerEnqueue(r) \/ TriggerEnqueueFails(r))
    /\ \A w \in Workers : WF_vars(WorkerStep(w))
    /\ WF_vars(Tick)

FairSpec == Spec /\ Fairness

-----------------------------------------------------------------------------

RowType == [status : {"none", "deleted", "queued", "running"} \cup Terminal,
            pipe : Pipes \cup {"none"}, tick : Nat, startedAt : Nat]

TypeOK ==
    /\ now \in Nat
    /\ pipelines \subseteq Pipes
    /\ runs \in [RunIds -> RowType]
    /\ lastFired \in [Schedulers -> [Pipes -> Nat]]
    /\ sched \in [Schedulers -> [pc : {"idle", "enqueue", "reap"}, run : RunIds \cup {0},
                                 list : SUBSET [id : RunIds, row : RowType]]]
    /\ unsent \subseteq RunIds
    /\ jobs \in [RunIds -> [state : {"none", "pending", "leased", "acked", "archived"},
                            retried : 0..MaxRetry]]
    /\ workers \in [Workers -> [pc : {"idle", "load", "start", "exec"}, run : RunIds \cup {0},
                                lease : 0..MaxRetry, startedAt : Nat]]
    /\ dropped \subseteq RunIds
    /\ reaped \subseteq RunIds
    /\ disputed \subseteq RunIds

\* A cron tick starts at most one run of its pipeline, however late scans,
\* triggers and deletions of pipelines follow on each other (dueAt, markFired).
OneRunPerTick ==
    \A r, q \in RunIds :
        r # q /\ Exists(r) /\ Exists(q) /\ runs[r].tick # Manual =>
            ~(runs[r].pipe = runs[q].pipe /\ runs[r].tick = runs[q].tick)

\* A run that is not finished is still somebody's: its creator is about to
\* enqueue it, or the queue has it, unless its enqueue failed, its retries are
\* used up (a deleted pipeline uses them up in memory at once), or a worker that
\* had lost its lease went on with it.
NoRunForgotten ==
    \A r \in RunIds :
        runs[r].status \in {"queued", "running"} /\ r \notin dropped \cup disputed =>
        \/ r \in unsent
        \/ \E s \in Schedulers : sched[s].pc = "enqueue" /\ sched[s].run = r
        \/ jobs[r].state \in {"pending", "leased"}

\* While a run is executed its row says so, with the start the reaper goes by,
\* unless the reaper or a second delivery has interfered or the row was deleted.
ExecutionShown ==
    \A w \in Workers : LET r == workers[w].run IN
        workers[w].pc = "exec" /\ Exists(r) /\ r \notin reaped \cup disputed =>
            runs[r].status = "running" /\ runs[r].startedAt = workers[w].startedAt

\* Without redeliveries a row says "running" only while a worker executes it.
RunningMeansExecuting ==
    \A r \in RunIds : runs[r].status = "running" =>
        \E w \in Workers : workers[w].run = r /\ workers[w].pc = "exec"

\* In process, every run that was created is eventually finished, unless its
\* goroutine found the pipeline deleted: nothing takes such a run up again, and
\* the reaper looks at running runs only (RunOnce, SyncEnqueuer).
RunsFinish ==
    \A r \in RunIds :
        (runs[r].status = "queued") ~>
            \/ runs[r].status \in Terminal
            \/ r \in dropped /\ runs[r].status = "queued"

\* "dueAt returns the most recent firing time for p that is <= now": the firing
\* time after a tick that is due is still to come.
DueIsMostRecent ==
    \A s \in Schedulers, p \in Pipes : DueAt(s, p) <= now => CronNext(DueAt(s, p)) > now

\* The scheduler acts for all tenants: a due tick leads to a run.
TicksFire ==
    \A s \in Schedulers, p \in Pipes :
        (p \in pipelines /\ DueAt(s, p) <= now) ~>
            (p \notin pipelines \/ \E r \in RunIds : Exists(r) /\ runs[r].tick # Manual)
=============================================================================
