----------------------------- MODULE Migration ------------------------------
(***************************************************************************)
(* Migrations: plans and their runs (internal/api/http/migration.go, core/ *)
(* migration, storage/postgres/migration.go), the execution of a run       *)
(* (worker/handlers.go and Service.ExecuteRun) and the tables it copies    *)
(* between.  Every plan reads the same source table, whose rows are the    *)
(* numbers 1, 2, ... in the order in which they appear there, and writes   *)
(* a table of its own.                                                     *)
(***************************************************************************)
EXTENDS HttpRequests

CONSTANTS
    Configs,      \* [deployment, bucket, column] to consider
    Conns,        \* connections, [id, tenant, sql]
    Forms,        \* bodies of requests that make plans
    Seed,         \* the tables at the start
    BatchSize,    \* rows per INSERT
    Rows0,        \* rows in the source table at the start
    MaxRuns,      \* bound: runs in all
    MaxCrashes    \* bound: times the server dies

ASSUME MigrationAssumption ==
    /\ \A c \in Configs : c.deployment \in {"sync", "asynq"} /\ c.bucket \in {"memory", "durable"}
    /\ BatchSize \in Nat \ {0}
    /\ {MaxRequests, MaxFaults, MaxRuns, MaxCrashes} \subseteq Nat
    /\ \A c \in Configs : /\ c.column \in Seq([value : Int, text : Nat])
                          /\ Rows0 \in 0..Len(c.column)
    \* rows appear in the order of the cursor, which is "the monotonic column"
    /\ \A c \in Configs : \A i, j \in DOMAIN c.column : i < j => c.column[i].value <= c.column[j].value
    /\ \A c, d \in Conns : c.id = d.id => c = d

VARIABLES
    config,   \* deployment: the server runs jobs itself ("sync") or plowered-worker does
              \* ("asynq"); bucket: checkpoints are in "memory" or "durable"; column: the
              \* cursor column, row -> [value, text]
    source,   \* rows in the source table
    dest,     \* plan -> row -> copies in its destination, 0, 1 or 2 for more
    cp,       \* plan -> the row whose cursor is its checkpoint, 0 for none
    exec,     \* run -> where its execution stands
    crashes   \* times the server died

data == <<source, dest, cp>>
vars == <<config, db, req, started, faults, data, exec, crashes>>

AllRows == DOMAIN config.column
Plans == 1..(Len(Seed.plans) + MaxRequests)
Known == {db.plans[i].id : i \in DOMAIN db.plans}

(***************************************************************************)
(* MigrationStore (internal/storage/postgres/migration.go).                *)
(*   plans  [id, tenant, mode, write, cursor, cols, src, dst]              *)
(*   runs   [id, tenant, plan, status]                                     *)
(* cursor says whether the plan names a cursor column, cols whether it     *)
(* maps columns; src and dst are connections.                              *)
(***************************************************************************)
CreatePlan(d, plan) == Ok([d EXCEPT !.plans = Append(@, plan)])

GetPlan(d, t, id) == Rows(d.plans, LAMBDA x : x.tenant = t /\ x.id = id)
ListPlans(d, t) == Rows(d.plans, LAMBDA x : x.tenant = t)

\* The runs of the plan go with it (ON DELETE CASCADE); nothing to delete is
\* no error.
DeletePlan(d, t, id) ==
    IF GetPlan(d, t, id) = {} THEN Ok(d)
    ELSE Ok([d EXCEPT !.plans = Without(@, LAMBDA x : x.id = id), !.runs = Without(@, LAMBDA x : x.plan = id)])

StartRun(d, t, plan, id) ==
    IF Rows(d.plans, LAMBDA x : x.id = plan) = {} THEN Fails("foreign_key", d)
    ELSE Ok([d EXCEPT !.runs = Append(@, [id |-> id, tenant |-> t, plan |-> plan, status |-> "running"])])

GetRun(d, t, id) == Rows(d.runs, LAMBDA x : x.tenant = t /\ x.id = id)

FinishRun(d, t, id, status) ==
    Ok([d EXCEPT !.runs = Set(@, LAMBDA x : x.tenant = t /\ x.id = id, LAMBDA x : [x EXCEPT !.status = status])])

ListRunsOf(d, t, plan) == Rows(d.runs, LAMBDA x : x.tenant = t /\ x.plan = plan)

(***************************************************************************)
(* The SQL that is sent                                                    *)
(***************************************************************************)
\* The order of the column's type.
Value(k) == config.column[k].value

\* The order of the cursor's text, by which Go compares; row 0 is the empty
\* cursor.
Text(k) == IF k = 0 THEN 0 ELSE config.column[k].text

BuildSelect == 1..source

\* What WHERE cursor > last picks; after an empty cursor there is no WHERE.
Newer(last) == {k \in 1..source : last = 0 \/ Value(k) > Value(last)}

\* ... ORDER BY cursor LIMIT BatchSize
BuildIncrementalSelect(last) ==
    LET newer == Newer(last)
    IN  {k \in newer : Cardinality({j \in newer : j < k}) < BatchSize}

BuildTruncate(d, plan) == [d EXCEPT ![plan] = [k \in AllRows |-> 0]]

BuildInsert(d, plan, rows) ==
    [d EXCEPT ![plan] = [k \in AllRows |-> IF k \in rows /\ @[k] < 2 THEN @[k] + 1 ELSE @[k]]]

(***************************************************************************)
(* Plans                                                                   *)
(***************************************************************************)
ValidatePlan(plan) ==
    /\ plan.src # Blank /\ plan.dst # Blank /\ plan.cols
    /\ plan.mode \in {"snapshot", "incremental", "cdc"}
    /\ plan.write \in {"truncate_and_replace", "append"}
    /\ plan.mode = "incremental" => plan.cursor /\ plan.write # "truncate_and_replace"

\* The plans at the start are numbered, and were validated when they were made.
ASSUME SeedAssumption ==
    /\ Seed = [plans |-> Seed.plans, runs |-> Seed.runs]
    /\ Seed.plans \in Seq({Seed.plans[i] : i \in DOMAIN Seed.plans})
    /\ \A i \in DOMAIN Seed.plans : Seed.plans[i].id = i /\ ValidatePlan(Seed.plans[i])

\* Service.CreatePlan: an empty mode is a snapshot that truncates.
NewPlan(id, t, form) ==
    [id |-> id, tenant |-> t, cursor |-> FALSE,
     mode |-> IF form.mode = "" THEN "snapshot" ELSE form.mode,
     write |-> IF form.write = "" THEN "truncate_and_replace" ELSE form.write,
     cols |-> form.cols, src |-> form.src, dst |-> form.dst]

MakePlan(plan) == IF ValidatePlan(plan) THEN CreatePlan(db, plan) ELSE Fails("invalid", db)

\* The body of the request has no cursor_column.
CreatePlanRequest(r, p) ==
    /\ Admitted(r, p, "edit", "migration")
    /\ \E form \in Forms : Finish(r, MakePlan(NewPlan(Len(Seed.plans) + started', p.tenant, form)))
    /\ UNCHANGED <<config, data, exec, crashes>>

DeletePlanRequest(r, p) ==
    /\ Admitted(r, p, "delete", "migration")
    /\ \E id \in Known : Finish(r, DeletePlan(db, p.tenant, id))
    /\ UNCHANGED <<config, data, exec, crashes>>

\* The checkpoint store is there in every deployment.
Preflight(plan) == plan.mode = "snapshot" \/ (plan.mode = "incremental" /\ plan.cursor)

PlanOf(t, id) == GetPlan(db, t, id)

\* Service.EnqueueRun: the run is there before anything is enqueued.
EnqueueRun(r, t, id) ==
    \E plan \in PlanOf(t, id) :
        /\ Preflight(plan)
        /\ Then(r, StartRun(db, t, id, Len(exec) + 1), [at |-> "enqueue", run |-> Len(exec) + 1])
        /\ exec' = Append(exec, [at |-> "new", tenant |-> t, plan |-> plan, todo |-> {}, last |-> 0, err |-> FALSE,
                                 alone |-> TRUE])

RunPlanRequest(r, p) ==
    /\ Admitted(r, p, "admin", "migration")
    /\ Len(exec) < MaxRuns
    /\ \E id \in Known : EnqueueRun(r, p.tenant, id)
    /\ UNCHANGED <<config, data, crashes>>

\* SyncEnqueuer starts a goroutine, AsynqEnqueuer adds to the queue, and the
\* handler answers 202.
EnqueueMigrationRun(r) ==
    /\ Continue(r, "enqueue")
    /\ exec' = [exec EXCEPT ![req[r].run].at = "queued"]
    /\ Answer(r)
    /\ UNCHANGED <<config, db, data, crashes>>

\* The queue refuses: the run stays as it is.
EnqueueFails(r) ==
    /\ At(r, "enqueue") /\ config.deployment = "asynq"
    /\ CallFails(r)
    /\ UNCHANGED <<config, data, exec, crashes>>

(***************************************************************************)
(* The execution of run n                                                  *)
(***************************************************************************)
Moving == {"connect", "truncate", "select", "insert", "checkpoint", "save", "finish"}

Same(n, m) == n # m /\ exec[n].plan.id = exec[m].plan.id

\* Run n goes on with e.
GoesOnAs(n, e) == exec' = [exec EXCEPT ![n] = e]

GoesTo(n, at) == GoesOnAs(n, [exec[n] EXCEPT !.at = at])

\* HandleMigrationRun in plowered-worker, whose main.go sets no
\* MigrationExecutor: an error, and MaxRetry(0).
NoExecutor(n) ==
    /\ exec[n].at = "queued" /\ config.deployment = "asynq"
    /\ GoesTo(n, "rejected")
    /\ UNCHANGED <<config, db, req, started, faults, data, crashes>>

\* The run and its plan are loaded.  When one of them is gone, ExecuteRun
\* returns and leaves the run as it is.  Nobody keeps two executions of a
\* plan apart; alone remembers whether there were two.
LoadRun(n) ==
    LET e == exec[n]
        others == {m \in DOMAIN exec : Same(n, m) /\ exec[m].at \in Moving}
        found == {run \in GetRun(db, e.tenant, n) : PlanOf(e.tenant, run.plan) # {}}
    IN  /\ e.at = "queued" /\ config.deployment = "sync"
        /\ IF found = {} THEN GoesTo(n, "unloaded")
           ELSE exec' = [m \in DOMAIN exec |->
                            IF m = n THEN [e EXCEPT !.at = "connect", !.alone = others = {}]
                            ELSE IF m \in others THEN [exec[m] EXCEPT !.alone = FALSE] ELSE exec[m]]
        /\ UNCHANGED <<config, db, req, started, faults, data, crashes>>

LoadFails(n) ==
    /\ exec[n].at = "queued" /\ config.deployment = "sync"
    /\ faults < MaxFaults /\ faults' = faults + 1
    /\ GoesTo(n, "unloaded")
    /\ UNCHANGED <<config, db, req, started, data, crashes>>

\* MultiFactory.Open after Conns.Get: the connection is the tenant's own.
Opens(t, id) == \E c \in Conns : c.id = id /\ c.tenant = t /\ c.sql

Connect(n, at) ==
    LET e == exec[n]
    IN  /\ e.at = "connect"
        /\ IF ~Opens(e.tenant, e.plan.src) \/ ~Opens(e.tenant, e.plan.dst)
           THEN GoesOnAs(n, [e EXCEPT !.at = "finish", !.err = TRUE])
           ELSE GoesTo(n, at)
        /\ UNCHANGED <<config, db, req, started, faults, data, crashes>>

RunSnapshot(n) ==
    /\ exec[n].plan.mode = "snapshot"
    /\ Connect(n, IF exec[n].plan.write = "truncate_and_replace" THEN "truncate" ELSE "select")

RunIncremental(n) ==
    /\ exec[n].plan.mode = "incremental"
    /\ Connect(n, "checkpoint")

Truncate(n) ==
    /\ exec[n].at = "truncate"
    /\ dest' = BuildTruncate(dest, exec[n].plan.id)
    /\ GoesTo(n, "select")
    /\ UNCHANGED <<config, db, req, started, faults, source, cp, crashes>>

\* runSnapshot: one SELECT, and an INSERT whenever a batch is full.
SelectAll(n) ==
    /\ exec[n].at = "select" /\ exec[n].plan.mode = "snapshot"
    /\ GoesOnAs(n, [exec[n] EXCEPT !.at = IF BuildSelect = {} THEN "finish" ELSE "insert", !.todo = BuildSelect])
    /\ UNCHANGED <<config, db, req, started, faults, data, crashes>>

FirstOf(rows) == {k \in rows : Cardinality({j \in rows : j < k}) < BatchSize}

Flush(n) ==
    LET e == exec[n]
        rest == e.todo \ FirstOf(e.todo)
    IN  /\ e.at = "insert" /\ e.plan.mode = "snapshot"
        /\ dest' = BuildInsert(dest, e.plan.id, FirstOf(e.todo))
        /\ IF rest = {} THEN GoesTo(n, "finish") ELSE GoesOnAs(n, [e EXCEPT !.todo = rest])
        /\ UNCHANGED <<config, db, req, started, faults, source, cp, crashes>>

\* runIncremental: from the checkpoint on.
LoadCheckpoint(n) ==
    /\ exec[n].at = "checkpoint"
    /\ GoesOnAs(n, [exec[n] EXCEPT !.at = "select", !.last = cp[exec[n].plan.id]])
    /\ UNCHANGED <<config, db, req, started, faults, data, crashes>>

\* maxCursorInBatch, compared as text.
MaxCursor(last, batch) == CHOOSE k \in batch \cup {last} : \A j \in batch \cup {last} : Text(k) >= Text(j)

SelectAndSave(n) ==  \* mutant: the checkpoint is saved before the rows are written
    LET e == exec[n]
        batch == BuildIncrementalSelect(e.last)
    IN  /\ e.at = "select" /\ e.plan.mode = "incremental"
        /\ GoesOnAs(n, [e EXCEPT !.at = IF batch = {} THEN "finish" ELSE "insert", !.todo = batch])
        /\ cp' = [cp EXCEPT ![e.plan.id] = MaxCursor(e.last, batch)]
        /\ UNCHANGED <<config, db, req, started, faults, source, dest, crashes>>

SelectBatch(n) ==
    LET e == exec[n]
        batch == BuildIncrementalSelect(e.last)
    IN  /\ e.at = "select" /\ e.plan.mode = "incremental"
        /\ GoesOnAs(n, [e EXCEPT !.at = IF batch = {} THEN "finish" ELSE "insert", !.todo = batch])
        /\ UNCHANGED <<config, db, req, started, faults, data, crashes>>

InsertBatch(n) ==
    LET e == exec[n]
    IN  /\ e.at = "insert" /\ e.plan.mode = "incremental"
        /\ dest' = BuildInsert(dest, e.plan.id, e.todo)
        /\ GoesOnAs(n, [e EXCEPT !.at = "save", !.last = MaxCursor(@, e.todo)])
        /\ UNCHANGED <<config, db, req, started, faults, source, cp, crashes>>

\* After a batch that is not full the run has caught up.
CaughtUp(e) == Cardinality(e.todo) < BatchSize

SaveCheckpoint(n) ==
    LET e == exec[n]
    IN  /\ e.at = "save"
        /\ cp' = [cp EXCEPT ![e.plan.id] = e.last]
        /\ GoesOnAs(n, [e EXCEPT !.at = IF CaughtUp(e) THEN "finish" ELSE "select", !.todo = {}])
        /\ UNCHANGED <<config, db, req, started, faults, source, dest, crashes>>

\* The checkpoint is not saved and the run goes on.
SaveFails(n) ==
    LET e == exec[n]
    IN  /\ e.at = "save"
        /\ faults < MaxFaults /\ faults' = faults + 1
        /\ GoesOnAs(n, [e EXCEPT !.at = IF CaughtUp(e) THEN "finish" ELSE "select", !.todo = {}])
        /\ UNCHANGED <<config, db, req, started, data, crashes>>

NeverTimesOut(n) == FALSE /\ UNCHANGED vars  \* mutant: a context without a deadline

\* RunTimeout has passed: the next statement is not made.
TimesOut(n) ==
    /\ exec[n].at \in Moving \ {"save", "finish"}
    /\ GoesOnAs(n, [exec[n] EXCEPT !.at = "finish", !.err = TRUE])
    /\ UNCHANGED <<config, db, req, started, faults, data, crashes>>

\* A statement of the warehouse fails; what was written stays.
WarehouseFails(n) ==
    /\ faults < MaxFaults /\ faults' = faults + 1
    /\ exec[n].at \in Moving \ {"save", "finish"}
    /\ GoesOnAs(n, [exec[n] EXCEPT !.at = "finish", !.err = TRUE])
    /\ UNCHANGED <<config, db, req, started, data, crashes>>

\* ExecuteRun ends: FinishRun, then the event and the row of the cost, which
\* are left out here.
EndRun(n) ==
    LET e == exec[n]
    IN  /\ e.at = "finish"
        /\ db' = FinishRun(db, e.tenant, n, IF e.err THEN "failed" ELSE "succeeded").db
        /\ GoesTo(n, "done")
        /\ UNCHANGED <<config, req, started, faults, data, crashes>>

\* The error of FinishRun is logged.
EndFails(n) ==
    /\ exec[n].at = "finish"
    /\ faults < MaxFaults /\ faults' = faults + 1
    /\ GoesTo(n, "unfinished")
    /\ UNCHANGED <<config, db, req, started, data, crashes>>

(***************************************************************************)
(* The rest of the world                                                   *)
(***************************************************************************)
\* A row is added to the source table.
SourceGrows ==
    /\ source < Len(config.column)
    /\ source' = source + 1
    /\ UNCHANGED <<config, db, req, started, faults, dest, cp, exec, crashes>>

\* The server dies with its requests, its goroutines and what a bucket in
\* memory holds; what is queued in Redis, and the worker there, live on.
Crash ==
    /\ crashes < MaxCrashes
    /\ crashes' = crashes + 1
    /\ req' = [r \in Requests |-> Idle]
    /\ exec' = [n \in DOMAIN exec |->
                   IF exec[n].at \in {"new"} \cup Moving \/ (exec[n].at = "queued" /\ config.deployment = "sync")
                   THEN [exec[n] EXCEPT !.at = "dead"] ELSE exec[n]]
    /\ cp' = IF config.bucket = "memory" THEN [plan \in Plans |-> 0] ELSE cp
    /\ UNCHANGED <<config, db, started, faults, source, dest>>

Init ==
    /\ InitRequests(Seed)
    /\ config \in Configs
    /\ source = Rows0
    /\ dest = [plan \in Plans |-> [k \in AllRows |-> 0]]
    /\ cp = [plan \in Plans |-> 0]
    /\ exec = <<>>
    /\ crashes = 0

Step(n) ==
    \/ NoExecutor(n) \/ LoadRun(n) \/ RunSnapshot(n) \/ RunIncremental(n)
    \/ Truncate(n) \/ SelectAll(n) \/ Flush(n)
    \/ LoadCheckpoint(n) \/ SelectBatch(n) \/ InsertBatch(n) \/ SaveCheckpoint(n)
    \/ EndRun(n)

Next ==
    \/ \E r \in Requests, p \in People : CreatePlanRequest(r, p) \/ DeletePlanRequest(r, p) \/ RunPlanRequest(r, p)
    \/ \E r \in Requests : EnqueueMigrationRun(r) \/ EnqueueFails(r)
    \/ \E n \in DOMAIN exec : Step(n) \/ TimesOut(n) \/ LoadFails(n) \/ WarehouseFails(n) \/ SaveFails(n) \/ EndFails(n)
    \/ SourceGrows \/ Crash

Spec == Init /\ [][Next]_vars

\* A handler and a goroutine go on; a run that goes on for RunTimeout ends.
Fairness ==
    /\ \A r \in Requests : WF_vars(EnqueueMigrationRun(r))
    /\ \A n \in 1..MaxRuns : WF_vars(n \in DOMAIN exec /\ Step(n)) /\ SF_vars(n \in DOMAIN exec /\ TimesOut(n))

FairSpec == Spec /\ Fairness

(***************************************************************************)
(* Properties                                                              *)
(***************************************************************************)
\* A checkpoint never runs ahead of the rows: whatever is up to it in the
\* order of the column has been copied, though cursors are compared as text,
\* saves fail and two runs of a plan overwrite each other's.  The exception
\* is a row whose cursor another row has too: a batch that ends between them
\* leaves the second one out for good.
CheckpointCovers ==
    \A plan \in Plans, k \in 1..source :
        cp[plan] # 0 /\ Value(k) <= Value(cp[plan]) =>
            dest[plan][k] > 0 \/ \E j \in AllRows \ {k} : Value(j) = Value(k)

\* A snapshot that truncates and succeeds leaves every row once, when no
\* other execution of its plan overlapped with it.
SnapshotExact ==
    \A n \in DOMAIN exec :
        LET e == exec[n]
            rows == dest[e.plan.id]
        IN  e.at = "finish" /\ ~e.err /\ e.alone /\ e.plan.write = "truncate_and_replace" =>
                \E count \in 0..source : \A k \in AllRows : rows[k] = IF k <= count THEN 1 ELSE 0

\* What the reading handlers show p.
ListPlansRequest(p) == ListPlans(db, p.tenant)
GetPlanRequest(p, id) == GetPlan(db, p.tenant, id)
ListRunsRequest(p, id) == ListRunsOf(db, p.tenant, id)

\* Tenants are apart: no run is of another tenant's plan, no row is copied
\* from or to another tenant's connection, plans of other tenants stay and
\* nobody is shown them.
MigrationsApart ==
    /\ Foreign(db.plans) = Foreign(Seed.plans)
    /\ \A n \in DOMAIN exec :
          /\ exec[n].plan.tenant = exec[n].tenant
          /\ exec[n].at \in Moving \ {"connect", "finish"} =>
                 \A c \in Conns : c.id \in {exec[n].plan.src, exec[n].plan.dst} => c.tenant = exec[n].tenant
    /\ \A p \in People : \A row \in ListPlansRequest(p) \cup UNION {GetPlanRequest(p, id) \cup ListRunsRequest(p, id) : id \in Plans} :
          row.tenant = p.tenant

\* What is copied is what should be, and the caller's.
TargetFaithful == CheckpointCovers /\ SnapshotExact /\ MigrationsApart

Stage(n) == IF n \in DOMAIN exec THEN exec[n].at ELSE "none"

Finalised(n) == \A run \in {db.runs[i] : i \in DOMAIN db.runs} : run.id = n => run.status # "running"

\* A run that is enqueued in a server that runs jobs itself ends, in time or
\* by its timeout, and its row says so; unless the server dies, or a
\* statement that loads or finishes the run fails.
MigrationEnds ==
    \A n \in 1..MaxRuns :
        (Stage(n) = "queued" /\ config.deployment = "sync") ~>
            (Stage(n) = "dead" \/ Finalised(n) \/ (Stage(n) \in {"unloaded", "unfinished"} /\ faults > 0))
=============================================================================
