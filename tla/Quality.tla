------------------------------ MODULE Quality -------------------------------
(***************************************************************************)
(* Quality checks: their editing (internal/api/http/checks.go), the job    *)
(* that executes one (worker/handlers.go) and the scheduler that bounds    *)
(* what runs against a customer's database at a time (core/quality).       *)
(* A check is [id, tenant, asset, type, config, enabled]; config is        *)
(* [table, column, bound, max], 0 for what is missing.  The checks are in  *)
(* Postgres: without it no data source can be resolved.                    *)
(***************************************************************************)
EXTENDS HttpRequests, TLC

CONSTANTS
    Checks,        \* bodies of requests, [asset, type, config, enabled]
    Sources,       \* ids of data sources that a request may name
    Measurements,  \* what a query of a table may find, [rows, nulls, age, dups, failing]
    Workers,       \* processes that execute jobs
    MaxConcurrentPerSource,
    MaxRetry,      \* retries of the queue
    MaxJobs        \* bound: jobs in all

ASSUME QualityAssumption == MaxConcurrentPerSource \in Nat \ {0} /\ MaxRetry \in Nat

VARIABLES
    jobs,   \* deliveries so far, [at, tenant, check, source, tries, worker, stale, loaded, outcome]:
            \* the payload, the queue's count, whether the context of the execution was
            \* cancelled, and what the handler has so far
    slots   \* worker -> its semaphores, the pairs of a key and a job that has a slot

qvars == <<jobs, slots>>

(***************************************************************************)
(* The store (storage/postgres/quality.go).                                *)
(*   checks    [id, tenant, asset, type, config, enabled]                  *)
(*   runs      [id, tenant, check, outcome]                                *)
(***************************************************************************)
CreateCheck(d, c) == Ok([d EXCEPT !.checks = Append(@, c)])

UpdateCheck(d, t, c) ==
    LET P(x) == x.tenant = t /\ x.id = c.id
    IN  Affected(d, d.checks, P, [d EXCEPT !.checks = Set(@, P, LAMBDA x : c)])

\* The runs go with the check.
DeleteCheck(d, t, id) ==
    LET P(x) == x.tenant = t /\ x.id = id
    IN  Affected(d, d.checks, P, [d EXCEPT !.checks = Without(@, P), !.runs = Without(@, LAMBDA r : r.check = id)])

GetCheck(d, t, id) == Rows(d.checks, LAMBDA c : c.tenant = t /\ c.id = id)

ListChecks(d, t, asset) == Rows(d.checks, LAMBDA c : c.tenant = t /\ asset \in {0, c.asset})

RecordRun(d, r) ==
    IF Where(d.checks, LAMBDA c : c.id = r.check) = {} THEN Fails("foreign_key", d)
    ELSE Ok([d EXCEPT !.runs = Append(@, r)])

ListRuns(d, t, check, limit) ==
    Newest(d.runs, LAMBDA r : r.tenant = t /\ check \in {0, r.check}, Limit(limit, 500, 50))

CheckIds == {db.checks[i].id : i \in DOMAIN db.checks}

(***************************************************************************)
(* Runner.Run.  m is what the query found, or Down when it failed.         *)
(***************************************************************************)
CONSTANT Down

Verdict(fails) == IF fails THEN "fail" ELSE "pass"

\* A bound of zero is the default: at least one row.
RunRowCount(cfg, m) ==
    IF cfg.table = 0 \/ m = Down THEN "error"
    ELSE Verdict(m.rows < (IF cfg.bound = 0 THEN 1 ELSE cfg.bound) \/ (cfg.max > 0 /\ m.rows > cfg.max))

RunNotNull(cfg, m) ==
    IF 0 \in {cfg.table, cfg.column} \/ m = Down THEN "error" ELSE Verdict(m.nulls > cfg.bound)

DayOfHours == 24

RunFreshness(cfg, m) ==
    IF 0 \in {cfg.table, cfg.column} \/ m = Down THEN "error"
    ELSE Verdict(m.age > (IF cfg.bound = 0 THEN DayOfHours ELSE cfg.bound))

RunUniqueness(cfg, m) == IF 0 \in {cfg.table, cfg.column} \/ m = Down THEN "error" ELSE Verdict(m.dups > 0)

\* The cell counts failing rows.
RunCustomSQL(cfg, m) == IF cfg.table = 0 \/ m = Down THEN "error" ELSE Verdict(m.failing > 0)

Run(c, m) ==
    CASE c.type = "row_count"  -> RunRowCount(c.config, m)
      [] c.type = "not_null"   -> RunNotNull(c.config, m)
      [] c.type = "freshness"  -> RunFreshness(c.config, m)
      [] c.type = "uniqueness" -> RunUniqueness(c.config, m)
      [] c.type = "custom_sql" -> RunCustomSQL(c.config, m)
      [] OTHER                 -> "error"

(***************************************************************************)
(* Requests                                                                *)
(***************************************************************************)
CreateCheckRequest(r, p) ==
    /\ Admitted(r, p, "edit", "check")
    /\ \E c \in Checks :
           Finish(r, IF c.type = "" \/ c.asset = Blank THEN Fails("invalid", db)
                     ELSE CreateCheck(db, [id |-> 100 + started', tenant |-> p.tenant] @@ c))
    /\ UNCHANGED qvars

\* The check is looked up, and then overwritten as a whole.
UpdateCheckRequest(r, p) ==
    /\ Admitted(r, p, "edit", "check")
    /\ \E id \in CheckIds, patch \in Checks :
           IF GetCheck(db, p.tenant, id) = {} THEN Answer(r)
           ELSE Goto(r, [at |-> "update", tenant |-> p.tenant, check |-> [id |-> id, tenant |-> p.tenant] @@ patch])
    /\ UNCHANGED <<db, qvars>>

StoreUpdate(r) ==
    /\ Continue(r, "update")
    /\ Finish(r, UpdateCheck(db, req[r].tenant, req[r].check))
    /\ UNCHANGED qvars

\* Capture of the tombstone left out (Governance).
DeleteCheckRequest(r, p) ==
    /\ Admitted(r, p, "delete", "check")
    /\ \E id \in CheckIds : Finish(r, DeleteCheck(db, p.tenant, id))
    /\ UNCHANGED qvars

\* GetCheckRequest, ListChecksRequest and ListCheckRunsRequest: what p is shown.
GetCheckRequest(p) == IF Gate(p, "read", "check") THEN UNION {GetCheck(db, p.tenant, id) : id \in CheckIds} ELSE {}
ListChecksRequest(p) == IF Gate(p, "read", "check") THEN ListChecks(db, p.tenant, Blank) ELSE {}
ListCheckRunsRequest(p) ==
    IF Gate(p, "read", "check")
    THEN UNION {ListRuns(db, p.tenant, c.id, 0) : c \in GetCheckRequest(p)} ELSE {}

\* A job that no worker has taken up.
Nobody == "nobody"
QueuedJob(at, t, check, s, tries) ==
    [at |-> at, tenant |-> t, check |-> check, source |-> s, tries |-> tries,
     worker |-> Nobody, stale |-> FALSE, loaded |-> {}, outcome |-> ""]

\* The job of a disabled check is enqueued all the same.
RunCheckRequest(r, p) ==
    /\ Admitted(r, p, "run", "check")
    /\ Len(jobs) < MaxJobs
    /\ \E id \in CheckIds, s \in Sources :
           IF GetCheck(db, p.tenant, id) = {} THEN UNCHANGED jobs
           ELSE jobs' = Append(jobs, QueuedJob("queued", p.tenant, id, s, 0))
    /\ Answer(r)
    /\ UNCHANGED <<db, slots>>

(***************************************************************************)
(* HandleQualityRun for job n, in worker w                                 *)
(***************************************************************************)
Becomes(n, j) == jobs' = [jobs EXCEPT ![n] = j]
Job(n, at) == jobs[n].at = at

\* asynq delivers a job that failed again, up to MaxRetry times.  What becomes
\* of an execution it has given up is nothing to it.
Again(j) ==
    QueuedJob(IF j.tries < MaxRetry /\ ~j.stale THEN "queued" ELSE "archived", j.tenant, j.check, j.source, j.tries + 1)

Errs(n) == Becomes(n, Again(jobs[n]))

OfCheck(j) == <<j.tenant, j.check>>  \* mutant: one semaphore per check

\* p.TenantID + ":" + p.SourceID
SourceKey(j) == <<j.tenant, j.source>>

\* The check is loaded, and the data source resolved: the pool, always.
LoadCheck(n, w) ==
    /\ Job(n, "queued")
    /\ LET found == GetCheck(db, jobs[n].tenant, jobs[n].check)
       IN  IF found = {} THEN Errs(n)
           ELSE Becomes(n, [jobs[n] EXCEPT !.at = "acquire", !.worker = w, !.loaded = found])
    /\ UNCHANGED <<db, req, started, faults, slots>>

\* Scheduler.acquire waits for a slot of the source, as long as its context
\* lasts.
Acquire(n) ==
    /\ Job(n, "acquire")
    /\ LET w == jobs[n].worker
           key == SourceKey(jobs[n])
       IN  /\ Cardinality({x \in slots[w] : x[1] = key}) < MaxConcurrentPerSource
           /\ slots' = [slots EXCEPT ![w] = @ \cup {<<key, n>>}]
    /\ Becomes(n, [jobs[n] EXCEPT !.at = "query"])
    /\ UNCHANGED <<db, req, started, faults>>

\* The context is done first, or as well: an error is recorded, and no slot was
\* taken.
AbandonWait(n) ==
    /\ Job(n, "acquire")
    /\ jobs[n].stale
    /\ Becomes(n, [jobs[n] EXCEPT !.at = "record", !.outcome = "error"])
    /\ UNCHANGED <<db, req, started, faults, slots>>

Release(n) == [slots EXCEPT ![jobs[n].worker] = @ \ {<<SourceKey(jobs[n]), n>>}]

\* A check that has not failed by the time of the timeout is an error.
TimedOut(outcome) == IF outcome = "fail" THEN outcome ELSE "error"

\* The verdict, and the slot is given back.
Schedule(n) ==
    /\ Job(n, "query")
    /\ \E c \in jobs[n].loaded, m \in Measurements \cup {Down}, late \in BOOLEAN :
           Becomes(n, [jobs[n] EXCEPT !.at = "record", !.outcome = IF late THEN TimedOut(Run(c, m)) ELSE Run(c, m)])
    /\ slots' = Release(n)
    /\ UNCHANGED <<db, req, started, faults>>

SaveRun(n) ==
    /\ Job(n, "record")
    /\ LET answer == RecordRun(db, [id |-> Len(db.runs) + 1, tenant |-> jobs[n].tenant, check |-> jobs[n].check, job |-> n,
                                    outcome |-> jobs[n].outcome])
       IN  /\ db' = answer.db
           /\ IF answer.err = "ok" THEN Becomes(n, [jobs[n] EXCEPT !.at = "publish"]) ELSE Errs(n)
    /\ UNCHANGED <<req, started, faults, slots>>

\* The statement fails, as it may at any time once the context is cancelled.
SaveRunFails(n) ==
    /\ Job(n, "record")
    /\ IF jobs[n].stale THEN UNCHANGED faults ELSE faults < MaxFaults /\ faults' = faults + 1
    /\ Errs(n)
    /\ UNCHANGED <<db, req, started, slots>>

\* CheckPassed or CheckFailed.
PublishOutcome(n) ==
    /\ Job(n, "publish")
    /\ Becomes(n, [jobs[n] EXCEPT !.at = "done"])
    /\ UNCHANGED <<db, req, started, faults, slots>>

InProgress(n) == jobs[n].at \in {"acquire", "query", "record", "publish"}

\* asynq's deadline of the job passes, or its lease is lost: the context is
\* cancelled and the job delivered again, while the handler of the first
\* delivery is still on its way.
Cancelled(n) ==
    /\ InProgress(n) /\ ~jobs[n].stale
    /\ faults < MaxFaults /\ faults' = faults + 1
    /\ jobs' = Append([jobs EXCEPT ![n].stale = TRUE], Again(jobs[n]))
    /\ UNCHANGED <<db, req, started, slots>>

\* The worker dies: what it was doing is delivered again, its semaphores are
\* empty when it is back.
WorkerDies(w) ==
    /\ faults < MaxFaults /\ faults' = faults + 1
    /\ jobs' = [n \in DOMAIN jobs |->
                   IF InProgress(n) /\ jobs[n].worker = w
                   THEN Again(jobs[n]) ELSE jobs[n]]
    /\ slots' = [slots EXCEPT ![w] = {}]
    /\ UNCHANGED <<db, req, started>>

InitQuality == jobs = <<>> /\ slots = [w \in Workers |-> {}]

JobStep(n) ==
    \/ \E w \in Workers : LoadCheck(n, w)
    \/ Acquire(n) \/ AbandonWait(n) \/ Schedule(n) \/ SaveRun(n) \/ PublishOutcome(n)

QualityNext ==
    \/ \E r \in Requests :
           \/ StoreUpdate(r)
           \/ \E p \in People : CreateCheckRequest(r, p) \/ UpdateCheckRequest(r, p) \/ DeleteCheckRequest(r, p) \/ RunCheckRequest(r, p)
    \/ \E n \in DOMAIN jobs : JobStep(n) \/ SaveRunFails(n) \/ Cancelled(n)
    \/ \E w \in Workers : WorkerDies(w)

QualitySpec(seed) == InitRequests(seed) /\ InitQuality /\ [][QualityNext]_<<db, req, started, faults, qvars>>

(***************************************************************************)
(* Properties                                                              *)
(***************************************************************************)
\* "Per-source semaphores keep a noisy customer DB from being hammered": no
\* worker has more checks querying one source of a tenant at a time than its
\* cap, whatever is retried, given up or delivered again while it still runs,
\* and slots are held by those only: none leaks, so that nobody waits for a
\* slot for ever.
SourcesSpared ==
    /\ \A w \in Workers : {x[2] : x \in slots[w]} = {n \in DOMAIN jobs : Job(n, "query") /\ jobs[n].worker = w}
    /\ \A w \in Workers, n \in DOMAIN jobs :
           Cardinality({m \in DOMAIN jobs : /\ Job(m, "query") /\ jobs[m].worker = w
                                            /\ jobs[m].tenant = jobs[n].tenant /\ jobs[m].source = jobs[n].source})
               <= MaxConcurrentPerSource
=============================================================================
