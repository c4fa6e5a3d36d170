# Plowered: a TLA+ model of the server

Plowered is a data catalog and governance server written in Go. This directory
holds TLA+ modules for the parts of it that keep state and are hard to test,
TLC configurations that check them on small instances, and TLAPS proofs of what
matters most for instances of every size. Source paths below are relative to
`src/`; `internal/` is left out where it is clear. `PROJECT.json` is the index:
the components, the runs, the lines each definition stands for, a mutation for
every property, the hazards, the findings and the theorems. (Small helpers whose lines lie
within those of a definition that uses them have no entry of their own there.)

Contents

1. The system and its parts
2. The modules and the code they model
3. What the runs check
4. What is proved
5. What only TLC checks, and what is not modelled
6. Where code and documentation disagree
7. The plan

## 1. The system and its parts

### Processes

| process | code | what runs in it |
|---|---|---|
| API server | `cmd/plowered` | HTTP handlers, and in goroutines of their own: cron scanner and stuck-run reaper, outbox relay, notification pool, contract ticker, cost watcher |
| worker | `cmd/plowered-worker` | Asynq server: one handler per job kind |
| MCP server, CLI | `cmd/plowered-mcp`, `cmd/ploweredctl` | clients of the API |

There are two deployments. *Memory*: one process, stores are maps under a mutex,
a job is a goroutine (`worker/sync.go`) that nobody retries. *Postgres*: any
number of API and worker processes over one database, jobs in Redis (Asynq) with
leases and redelivery. Processes never talk to each other directly. They share
tables and the queue, and nearly all writes are single statements: the code uses
few transactions, so what one handler does in several statements can be cut in
two by a crash and interleaved with anybody else's.

### Components

State, operations, what is hard and what makes them correct. "M" marks what is
modelled, "p" what is modelled in part.

| component | state | operations | hard part | correct when |
|---|---|---|---|---|
| M DAG ordering, `core/pipeline/dag.go` | in-degree counters, levels | `TopologicalSort` | repeated entries, unknown ids, cycles | every task after what it depends on; a cycle is reported exactly when there is one |
| M Runner, `core/pipeline/runner.go` | run row, task_run rows, a local map | `RunOnce` | crash or cancellation between any two store calls, redelivery, failing writes, the definition edited meanwhile | order, outcome, ledger and event agree with what was executed |
| M Scanner and reaper, `scheduler/scheduler.go` | last tick fired per pipeline (per process) | `fireDue`, `reapStuck` | several instances, backlog after a pause, pipelines deleted under their runs, stale copies of rows | one run per tick, none forgotten |
| p Queue, `worker/*.go` | job: pending, leased, acknowledged, archived | enqueue, lease, acknowledge, redeliver | lost leases, two deliveries at once | an unfinished run is somebody's |
| M Pipelines and runs over HTTP, `api/http/orchestration.go`, `run_logs.go`, both stores | pipelines, runs, task runs, log lines | create, edit, trigger, delete, stream the log | deletion under a trigger, polls racing the end of a run | what is stored can run; a stream has every line once and in order |
| M Outbox, `core/outbox`, `storage/postgres/outbox.go` | outbox rows | `Write`, `NextBatch`, `MarkProcessed`, relay tick | locks that end with the statement, crash between publish and mark, rows that never go through | nothing skipped, repeats have a cause, everything goes out in the end |
| M Notifications, `core/notify` | rules, channel of jobs, delivery rows | `OnEvent`, pool, `deliverOne` | full channel, stop while publishing, silent errors | a due notification is in one place until it is settled |
| p Event bus, `core/events` | subscribers | `Publish` | synchronous: a subscriber holds up its publisher | (with its users) |
| M Migrations, `core/migration`, `api/http/migration.go` | plans, run rows, source, destination, checkpoints | plan CRUD, enqueue, `ExecuteRun`: snapshot and incremental copy | three stores that fail independently; cursors compared as text; ties; status not looked at | no row lost below a checkpoint, snapshots exact, runs end |
| M Audit log, `core/audit`, `storage/postgres/audit.go`, `audit_mw.go` | hash chain per tenant, tail cached per process | `Emit` | tail read, insert and write-back apart; several replicas; restarts | one chain, and a cause for every fork |
| M Certification, recycle bin, legal holds, DSR, policy rules | history, tombstones, holds, requests, rules | propose, decide, revoke; delete, restore, purge; issue, release | check and write apart; restore and mark apart; holds issued meanwhile | nothing deleted is lost, what is held is not deleted, a decision follows a proposal |
| M Identity, `core/identity`, `api/http/auth.go`, `team.go`, `password_reset.go`, `account*.go` | users, members, sessions, tokens, invitations | sign up, log in, lock out, reset, switch, invite, accept, erase | what was read before is used after; four statements without a transaction | no session outlives what should have ended it; invitations work once |
| M Middleware and rate limiters, `internal/server`, `api/http/*_mw.go`, `ratelimit_*.go` | token buckets | the chain of a request, the janitors | buckets dropped while in use, refusals that cost tokens | nobody gets more than his rate, nobody is refused less |
| M Policy engine, `core/policy` | rules | `Allow`, role verbs | deny before allow, blank ids | (in every handler's gate) |
| M Contracts, `core/contract` | contracts, breaches | CRUD, `Evaluate`, ticker | window of recent breaches, ticker and API at once, versions | a breach is told once, rightly, and announced |
| M Cost, `core/cost` | cost rows, budgets, last alerts | record, summaries, `checkOne` | read, publish, mark; two replicas | alerts a cool-down apart |
| p Quality checks, `core/quality`, `worker/handlers.go` | checks, runs, semaphores | CRUD, run, acquire, release | waiting outside the time-out, contexts that end, overlapping redeliveries | bound kept, slot returned |
| M Catalog and crawler, `api/http/catalog.go`, `core/crawler`, stores | assets, edges, names, page tokens | CRUD, paging, crawl | assets change between pages; crawls overlap edits | pages lose nothing; the catalog is the source's tree |
| M Connections and secrets, `api/http/connections.go`, `core/secrets` | connections, sealed secrets | create, edit, test, delete | row and secret written apart | a urn leads to a secret, no secret without cause |
| M Connectors, `connectors/*` | crawl, batch, names to ids | `Crawl` of each connector, `sink` | edges before their ends, batches that fail, overlap | every emission counted and there |
| p Classifier, profiler, indexer, `core/classifier`, `core/profile`, `core/search` | classifications, profiles, embeddings | classify, review, profile, reindex | read, compute, write back | classifications reach the tags policies go by; statistics are the column's |
| M Job ledger, `storage/postgres/jobs.go` | job rows | create, start, progress, succeed, fail | redelivery | a finished job stays finished |
| p AI providers, vector stores, ask, describe | configurations, keys, executions, descriptions | CRUD, promote, test; ask, run, describe | two primaries, key and row apart, a model's answer executed | one primary, usable keys, only SELECTs run |
| p Glossary, feedback, lineage | terms, assignments, items, votes, column edges | CRUD, vote, triage | overlapping edits and deletions | references hold, votes counted |
| Sources and drivers, blobs, mail, wiring, command line, web | | | I/O, configuration, presentation | |

How they interact: a handler or the scanner creates a run row and enqueues a
job; a worker's `RunOnce` reads the definition, sorts it, executes tasks, writes
task_run rows, publishes the outcome on the bus and saves it; the bus calls the
notification dispatcher in the publisher's goroutine; the reaper overwrites rows
that look stuck. Every other handler passes the middleware and a gate (a tenant and
a verb the policy engine allows), then calls its store once or several times, and some
end by enqueueing a job that writes the same tables later. `cmd/plowered/main.go` is
where the pieces are put together, and the place that decides which context the
background loops get.

## 2. The modules and the code they model

Modules ending in `_proofs` extend the module they are named after; Monitors_proofs is about
CostWatcher, Quality, Contracts and Migration, Governance_proofs about Governance and AuditLog,
Identity_proofs about Identity and Middleware. `MC` modules give
constants; five of them (MCPipelineRunner, MCIdentity, MCGovernance, MCMonitors, MCCatalog) also put components side
by side: `area`, chosen in Init, says which of them moves (in MCGovernance the first step does), so
that one run asks its questions of each without multiplying their states. Every behaviour of such a
run is one of the component's own specification (`Spec` of PipelineRunner, Governance and Identity, `SortSpec`, `AuditSpec`,
`MiddlewareSpec`, `CostSpec(seed)`, `QualitySpec(seed)`, `ContractSpec(assets, seed)`) in which the
others stand still, which is what the theorems are about. OutboxRelay and Orchestration have constants a configuration can give and need no MC module.

### TopologicalSort

`dag.go`, one action per phase: reject a repeated id, reject an unknown
dependency, count the dependency entries (`CountDependencies`, `indeg`), take all
tasks whose counter is zero as the next level and decrement their successors once
per entry (`PlaceLevel`), report a cycle when nothing is ready, return.
`tasks` is a sequence with repetitions, as in the code. The insertion sort inside a
level has no influence on the levels; it is the lexical order of PipelineRunner.

### PipelineRunner, DagExecution

One run and the successive deliveries of its job. Each action is the code between
two calls of the store or an executor; `pc` says where the delivery stands.

| state | code |
|---|---|
| `pipeline`, `run`, `taskRuns` | rows of pipelines, runs, task_runs |
| `job`, `retried` | the Asynq task and its retry counter |
| `def`, `depth`, `local`, `cur`, `attempt`, `failed` | local variables of `RunOnce` and `executeTaskWithRetry` |
| `ctxDone`, `storeFlaky` | the delivery's context; whether statements fail by themselves |
| `executed`, `announced` | history |

| actions | code |
|---|---|
| `Deliver`, `Acknowledge`, `HandBack` | `HandlePipelineRun` and the queue's answer to its result |
| `Load`, `LoadFails`, `AlreadyTerminal`, `RejectCycle` | runner.go, up to the topological sort and its error path |
| `MarkRunning`, `MarkRunningFails` | the first `UpdateRun` |
| `SkipTask`, `NoExecutor`, `NoAttempts`, `StartTask` | head of the loop over levels and tasks |
| `ExecuteSucceeds`, `ExecuteFails`, `ExecuteExhausted`, `BackoffElapses`, `BackoffCancelled` | `executeTaskWithRetry` |
| `SkipRemaining`, `PublishOutcome`, `SaveOutcome`, `SaveOutcomeFails`, `Return` | rest of `RunOnce` |
| `CancelContext`, `Crash`, `UpdatePipeline`, `DeletePipeline` | shutdown, process death, the API handlers |

Errors of the task_run writes are dropped by the code, so a write that fails
leaves the row as it was and the loop goes on (`StoreOk`, `RowAfterUpdate`).

DagExecution is the abstract specification: a set of tasks is settled in any
order the dependencies allow. It knows no levels, attempts, deliveries or rows.
PipelineRunner implements it with `graph <- def, status <- local`.

### Orchestration

Many runs, several schedulers, triggers and workers, with `RunOnce` reduced to
load, start, finish. `Backend` chooses the deployment and with it what differs:
whether the scheduler's context may write (`SystemActorMayWrite`), whether the
idempotency key is unique (`KeyTaken`), redelivery, failing enqueues and lost leases.

| actions | code |
|---|---|
| `FireDue`, `FireRefused`, `ScheduleEnqueue` | `fireDue`: due, mark, create, enqueue |
| `ReapList`, `ReapOne`, `ReapDone` | `reapStuck`: list copies, write each back as failed |
| `TriggerPipeline`, `TriggerEnqueue`, `TriggerEnqueueFails` | `triggerPipelineHandler` |
| `CreatePipeline`, `DeletePipeline` | the two stores: Postgres deletes the runs with their pipeline, memory keeps them |
| `Take`, `LeaseExpires`, `WorkerCrash` | Asynq, seen from its users (external) |
| `LoadRun`, `LoadTerminal`, `StartRun`, `FinishRun` | the run-row accesses of `RunOnce` |
| `LoadFails`, `RunIsGone`, `DeliveryFails` | its errors when pipeline or run are deleted; the queue, or `SyncEnqueuer`, which only logs them |

`dropped`, `reaped`, `disputed` are histories: they name the circumstances the
properties make an exception for. Cron expressions are a period.

### OutboxRelay, NotifyDispatcher

OutboxRelay: `Stamp` and `Insert` are apart because `occurred_at` is taken before the
commit, so rows become visible out of order. A tick is `NextBatch` (the statement,
holding its row locks), `BatchRead` (the locks are gone), `Publish` or `PublishFails` per
row, `MarkProcessed` or `MarkFails`. `Crash` may fall anywhere. `excused` records the
two causes a repetition can have.

NotifyDispatcher: `OnEvent` finds the rules, then hands one job per rule to the channel
(`Enqueue`) or delivers it itself (`DeliverInline`) when the channel is full; `Take`, `Exit`,
`Cancel`, `Close` are the pool; `CreateDelivery`, `GiveUp`, `Deliver` are `deliverOne`,
run by a worker or by the publisher. `store` is chosen in Init: the store the
tests use, or the one the server is wired with.

### Requests and stores: Tables, HttpRequests, Policy

The remaining modules are HTTP handlers over stores. A database is a record of tables
and a table the sequence of its rows; a method of a store is an operator that takes
a database and answers `[err, db]` (Tables). A handler is a sequence of actions, each
of them one call that reads or writes what is shared; `req[r]` says which call request
`r` makes next and what it has read so far, so that what it read may be stale when it
is used (HttpRequests). `faults` counts statements that fail. A failure has a branch where
it makes a difference to what is stored: an error that ends a handler between two of its writes,
and an error that the code drops to go on (the list and the revocations of an invitation,
the merge of tags, the urn of a connection to delete, the look at a run whose log is streamed).
An error of the first call ends the handler with nothing changed and needs no action. The gate at the head of every handler is
`Allow` of module Policy, on the caller's roles and the tenant's rules.

| module | code | remarks |
|---|---|---|
| Policy | `core/policy/policy.go`, the role table | deny before allow, conditions on tags, owners, groups |
| Middleware | `server` chain, body guard, gateway secret, session, bearer, both rate limiters | the chain is one step: nothing is left behind by a request that is turned away; time in ticks, tokens in units per tick |
| Identity, IdentityData, IdentityMemory, IdentityPostgres | `api/http/{auth,team,password_reset,account,account_gdpr,session_mw}.go`; `core/identity/memory.go`; `storage/postgres/identity.go` | both repositories, method by method; `backend` chooses; dates are "set" and "over"; an invitation is a check, a list, a revocation each, and an insert, of which all may fail |
| Governance, GovernanceData, GovernanceMemory, GovernancePostgres | `api/http/{deleted,legalholds,dsr,policies,certifications}.go` and the deleting handlers; `core/{deleted,legalhold,dsr,certification,policy}`; the stores | policy rules are a resource and what gates are decided by |
| AuditLog | `api/http/audit_mw.go`, `core/audit`, `storage/postgres/audit.go` | a hash is the number of its row; `tails` are the caches of processes, `life` their restarts |
| Migration | `api/http/migration.go`, `core/migration/service.go`, `worker/handlers.go`, `storage/postgres/migration.go` | rows are numbers in the order of their appearance; a cursor column gives each a value and a text; checkpoints are memory or durable |
| Contracts | `core/contract`, `api/http/contracts.go`, `storage/postgres/contract.go` | runners of two replicas and requests evaluate concurrently |
| CostWatcher | `core/cost`, `api/http/cost.go`, `storage/postgres/cost.go` | whole cents, hours; price book with longest prefix |
| Quality | `core/quality`, `api/http/checks.go`, `worker/handlers.go`, `storage/postgres/quality*.go` | semaphore per tenant and source in every worker; a job's context may end while it waits, queries or records (`Cancelled`), and the job is delivered again meanwhile |
| CatalogStores | `storage/postgres/{postgres,connections,classifications,classify_catalog,embeddings,jobs}.go`, the vault, the memory catalog | names are sequences of parts, capitals told apart |
| Catalog | `api/http/{catalog,lineage,connections}.go` | a client walks the pages while assets change; a connection's row, secret and urn are three writes; a deletion reads the urn first and goes on if it cannot |
| CatalogTasks | `worker.HandleCrawlConnection`, `core/{crawler,classifier,search}`, reviews | tasks are queued, executed, lost with their worker and delivered again; a table that cannot be sampled, a classification that cannot be applied and tags that cannot be merged are passed over |
| Knowledge | `api/http/{glossary,feedback}.go`, `core/profile`, `core/feedback`, their stores, column lineage | the decoder of a profile is modelled on the row the query builds |
| Asker | `api/http/{ai_providers,vectorstores,ask}.go`, `core/{aiprovider,vectorstore,asker,describer,aictx}`, their stores | partial unique index over primaries; a switch of the primary provider reads the slot and writes later (`ToSwitch`, `SwitchPrimary`); SQL is a sequence of statements, a statement of words |
| PipelineApi | `api/http/{orchestration,run_logs}.go`, both pipeline stores | a stream is a poll, a look at the run (which may fail), a wait; a creation may name anybody's id |
| Connectors | `connectors/`: relational, warehouse and transform connectors, `shared/sink.go` | a crawl is the sequence of what it emits, written in batches |

Reading handlers are operators, not actions: they change nothing, and the properties
about tenants and views quantify over what they answer.

## 3. What the runs check

Run one with `tlc -workers 2 -config <cfg> <module>`.

| run | instance | distinct states |
|---|---|---|
| `runner` | 3 tasks, 5 definitions, 1 redelivery, default of 2 attempts, a pipeline edited or deleted meanwhile; or the sort alone, on all task lists of up to 3 tasks, ids 1..3, up to 2 dependency entries each | 333 843 |
| `orchestration_memory` | 1 scheduler, 1 pipeline, deleted and created again, 2 runs, 2 goroutines, period 2, clock to 7 | 86 728 |
| `orchestration_postgres` | the same with 1 redelivery, crashes, lost leases, clock to 5 | 1 898 597 |
| `due_not_latest` | 1 scheduler, clock to 7; expected to fail, section 6 | |
| `ticks_need_tenant` | as `orchestration_postgres` with 1 run; expected to fail, section 6 | |
| `outbox` | 3 events of which 1 never goes through, 2 relays, batches of 2, 2 faults | 220 427 |
| `notify` | 2 publishers, 2 rules, 2 workers, a channel of 1, both stores | 228 460 |
| `identity` | 4 requests, 2 at a time, 2 addresses, 1 failing statement, both repositories; or 4 calls before the limiters | 701 699 |
| `governance` | 4 requests, 2 at a time, 1 failing statement, both sets of stores; beside them 3 audited requests in 2 processes, 1 restart | 404 244 |
| `migration` | 3 requests, 2 runs, 3 cursor columns, 1 failing statement, 1 crash, both deployments | 397 266 |
| `monitors` | 2 or 3 requests, two replicas' runners and watchers, 1 failing statement, dead worker or ended context | 722 524 |
| `catalog` | 2 or 3 requests, 2 workers, 2 crawls, 1 failing statement, in each of 11 areas | 168 711 |

`runner`, on task lists. `LevelsRespectDependencies`: everything a task depends on is in an earlier
level. `OutcomeJustified`: success means everything placed, and a cycle is reported only
for tasks that wait for each other. `SortExact`: a cycle is reported exactly on graphs that
have one (compared with the transitive closure), and a task is in the first level after its
last dependency.

`runner`, on runs. `RecordFaithful`: the outcome about to be saved is what happened, and without
failing writes every task has its final row. `EndReported`: an outcome is published before
it is stored, and the queue forgets only finished runs. `JobSettles`: every job comes to
rest. `ImplementsDagExecution`: the refinement; in it, no task is executed before its
ancestors have succeeded in the same delivery.

`orchestration_memory`, `orchestration_postgres`. `OneRunPerTick`, across late scans and pipelines that are
deleted and created again; `NoRunForgotten`: an unfinished run is with its creator or in the queue unless
its enqueue failed, its retries are used up or its lease was lost; `RunningMeansExecuting` (memory) and
`ExecutionShown`: the row and the execution agree; `RunsFinish`: liveness of runs in one process, all but those
whose goroutine found their pipeline deleted. In the memory instance one scheduler is all there can be; over
Postgres no tick ever creates a run (section 6), so `OneRunPerTick` is checked where it can fail; two schedulers over
one database, which `KeyTaken` would keep apart, are never reached by the code.

`outbox`. `ProcessedMeansSent`: no row leaves unpublished. `RepeatsExcused`: an event is
published twice only after an overlap of two relays or a fault between publish and
mark. `EveryEventSent`: every acceptable event goes out, provided that the rows
that never do are fewer than a batch: nothing sets them aside (`MaxAttempts` is unused).

`notify`. `OnePlace`: a due notification is waiting, queued, in one hand or ended, and
never two of these. `DueIsSettled`: it ends unless the dispatcher is stopped.

`identity`. `SignInsJustified`: a session made with a password that is no longer the
account's is revoked once the change is through; nobody signs in to an erased account;
no account has a password the strength check refuses. `InvitesHold`: an address has one open
invitation unless the requests overlapped or the list or the revocation failed, and who joined with an invitation has it accepted. Each names the races the
code leaves open as its exceptions. `ViewsAgree`: what the session, the members page, the
workspaces page, the session list, the invitation list and the export say is consistent.
`RatesExact`: over every stretch of time a client gets at most the burst and the refill,
is refused only where one more would be too many, and is not refused after being told
that calls remain, whatever buckets the janitors drop.

`governance`. `DeletionsSafe`: a row there ever was is live or in a tombstone (`NothingLost`,
but for the restores that add nothing), and a row that goes is under no hold its handler
could have seen (`HoldBinds`). `DecisionsFollow`: a decision follows the proposal it decides,
unless a row came in between. `TenantsApart`. `ForksExplained`: two audit rows
with the same predecessor are of two processes, of two lives of one, or overlapped.

`migration`. `TargetFaithful`: a checkpoint is never ahead of the copied rows, though
cursors are compared as text, saves fail and runs overwrite each other's checkpoints, except for a
row that shares its cursor; a truncating snapshot that succeeds alone is exact; tenants stay apart.
`MigrationEnds`: a run the server executes itself ends and its row says so, unless the server
dies or one of the two statements fails that nothing repeats.

`monitors`. `BreachesReported`: a breach is repeated only by an evaluation that could not know
of the first, names the version that was broken, and is announced unless its evaluation died.
`AlertsSpaced`: two alerts of a level are a cool-down apart unless the second's watcher could not
know of the first. `SourcesSpared`: the semaphore's bound holds and no slot leaks, also when the job's context ends
while it waits or queries and the same job is executed a second time.
`MonitorsApart`.

`catalog`. `LookupsExact`: a walk through the pages shows every asset that was there all the
while once, unless the asset a token names went; names lead to their asset. `CredentialsKept`: a urn leads to a
secret of its tenant, a secret nobody names has a cause, a slot has at most one
primary. `SourceProjected`: after a crawl every node has one asset and one edge from its
parent; classifications are among the tags unless the merge failed; a connector's crawl counted and stored all it emitted.
`KnowledgeKept`: terms, assignments and parents hang together, votes are counted, statistics
are the column's and no older than promised. `QuestionsSafe`: only a logged query that is one
SELECT reaches a warehouse, and prompts are about the asker's own assets. `PipelinesServed`:
stored pipelines can run, edits do not bring back what was deleted, a stream has each line once and
in order. `RowsAdvance`: a finished job stays finished, and a slot keeps its primary, unless a switch was overtaken by a deletion or a move of
the provider it promotes. `CatalogApart`: the rows of a tenant nobody works for stay as they were and are shown to nobody, but for
the pipelines that a creation with their id took over in memory, and the terms somebody assigned to his own assets by their id.

Every property has a mutation of the code in `PROJECT.json` (a dropped guard, a
missing mark, a swapped order) that makes its run fail. The mutated definitions stand
beside the original ones, marked "Mutant" or "mutant".

### Bounds

* Three tasks give chains whose lexical order is the reverse of their level order, forks,
  joins and cycles of every length up to three; two entries allow repetition.
* One redelivery is enough for "a second delivery finds what a first one left". A third
  starts from rows of the same kind. The two deliveries can overlap in Orchestration.
* Two of each concurrent process (workers, relays, publishers, requests): every action
  touches at most two of them. The proofs do not depend on the number.
* Clock, runs, faults and events are bounded by guards or by the id set. `MaxTime` leaves
  room for several periods, a backlog and a run that gets stuck; two faults allow a
  crash and a failed retry of the same event; a channel of one is full at once.
* Requests: two overlap and a third or fourth finds what they left. The seeds hold what
  would take more requests to get to (a member and a reset token, a full recycle bin, a
  crawled table, a second tenant whose rows must not move). One statement fails: after
  it the handler has ended or goes on, and both are followed.
* Small limits where the code has large ones: pages of one or two, windows of one breach, batches
  of two or three, so that each is exceeded. A cool-down is two hours and a burst two tokens.
* `TwoRequests` (MCMonitors, MCCatalog) allows two where evaluations, tasks, streams or page walks
  are under way as well, three elsewhere. `Disturbed` (MCCatalog) lets a connector's crawl meet one request or one other crawl.
  `FewerWithFailure` (MCIdentity, and the checks of MCMonitors) allows one request less where a statement fails.
* Deadlock checking is off where the system may stop: all bounded runs, all jobs done.

### Fairness

* `runner`: the queue delivers and a delivery that can move does. Executors return
  because jobs have a deadline. Nothing forces crashes, cancellations, edits.
  The sort shares the run but not its fairness: no liveness is asked of it.
* Orchestration: weak fairness for processes that have work; strong fairness for
  `FireDue`, `FireRefused` and `ReapList`, because scanner and reaper share a goroutine and
  each is served by a ticker of its own (`scheduler.go`, `Run`), so one cannot starve the other
  for ever. Nobody has to trigger a run, crash or lose a lease.
* Outbox: a ticker fires every `TickInterval`; a writer that took the time commits. The
  number of faults is bounded, which is what "eventually" needs.
* Notifications: goroutines are scheduled and every channel's client has a timeout.
  Nobody has to publish, add a rule or stop the dispatcher.
* Migration: a request and an execution that can move do; an execution's timeout is strongly
  fair, because the copy loop may go on for ever on a growing source and its context has a
  deadline all the same. Nobody has to ask for a run, add rows or crash.

## 4. What is proved

Eight modules, 18 601 obligations, with the assumptions named in the modules they extend. These say that sizes are
natural numbers, that sets the code can only count when they are finite are finite, that a memory deployment
has one scheduler and no redelivery, that rows of a migrated table appear in the order of the cursor column
("the monotonic column"), that a rate is positive and a full bucket is older than the janitor's limit
(`RatesAssumption`), and that two special values differ. `SeedAssumption` (Governance, Identity, Migration)
says what the database at the start may be: anything earlier requests can have left, namely rows of the
tables' types, primary keys that are unique, references that hold, and a starting state that satisfies
the properties itself. TLC evaluates every assumption on the run's constants. The monitors take their seed as
a parameter, so two of their theorems state the same as a hypothesis (`CostTables(seed)`, `ContractSeed(seed)`);
the seed of run `monitors` satisfies both.

| module | obligations | theorems | property |
|---|---|---|---|
| TopologicalSort_proofs | 391 | `TypeCorrect`, `OrderCorrect`, `OutcomeCorrect` | `LevelsRespectDependencies`, `OutcomeJustified` |
| PipelineRunner_proofs | 870 | `TypeCorrect`, `RecordIsFaithful`, `EndIsReported`, `RunnerImplementsDag` | `RecordFaithful`, `EndReported`, `ImplementsDagExecution` |
| Orchestration_proofs | 1 068 | `TypeCorrect`, `TickFiredOnce`, `NothingForgotten`, `ExecutionIsShown`, `RunningIsExecuting` | `OneRunPerTick`, `NoRunForgotten`, `ExecutionShown`, `RunningMeansExecuting` |
| OutboxRelay_proofs | 256 | `NothingSkipped`, `RepeatsAreExcused` | `ProcessedMeansSent`, `RepeatsExcused` |
| NotifyDispatcher_proofs | 502 | `TypeCorrect`, `JobsInOnePlace` | `OnePlace` |
| Monitors_proofs | 5 348 | `AlertsAreSpaced`, `SourcesAreSpared`, `BreachesAreReported`, `MigrationSound`, `MigrationsFaithful` | `AlertsSpaced`, `SourcesSpared`, `BreachesReported`, `TargetFaithful` |
| Identity_proofs | 6 053 | `AccountsInvariant`, `SignIns`, `Invitations`, `Pages`, `Rates` | `SignInsJustified`, `InvitesHold`, `ViewsAgree`, `RatesExact` |
| Governance_proofs | 4 113 | `ForksAreExplained`, `DecisionsAreJustified`, `TenantsAreApart`, `DeletionsAreSafe` | `ForksExplained`, `DecisionsFollow`, `TenantsApart`, `DeletionsSafe` |

Every theorem holds for all values of the constants: the bounds of the runs (numbers of requests,
faults, workers, ticks, ids) are constants like the others. In each module an inductive invariant
(`IInv`, `CostInv`, `QualityInv`, `ContractInv`, `MigrationInvariant`, `RatesInvariant`, `AuditInv`, `GovInv`) is
proved with one lemma per action, and TLC has checked it on the run's instance before. What it adds to the property, and why:

**TopologicalSort.** Order alone is not inductive: a task is taken because its counter is zero, and
only the bookkeeping says what zero means. So the invariant joins `CountersExact` (a counter is
the number of entries still to be placed) to the levels and to their disjointness. The heart is
`PlaceLevel`: decrementing by the entries that name a task of the new level keeps every counter
equal to the number of entries outside the levels. `OutcomeCorrect` also counts: the loop ends
with as many placed ids as tasks, hence with all of them.

**PipelineRunner.** `RecordFaithful` compares the outcome with what was executed when it is saved;
to get there the map in memory has to be right all along. `Executions`: what this delivery executed are the
tasks its map says succeeded. `Failures`: the flag says that a task failed, and a skipped task has a
failed ancestor unless the pipeline fails fast. This step rests on the layering: the loop comes to a
task after all it depends on, so when it is skipped its dependencies are in the map already.
`Ledger`: as long as no store call can fail, rows follow the map. `Ancestors` is the least set closed under
dependencies, written as an intersection, so that a proof uses closure and never walks a path.
The refinement maps `local` and `def`; every step of the loop is a step of DagExecution or changes
neither, and a task about to be executed has only succeeded dependencies because the map is
complete up to its level (`Settled`, `Loaded`).

**Orchestration.** On both backends, with

* `Copies`: a copy the reaper holds differs from its row in status and start only, so
  writing it back never changes a tick or brings a row into existence;
* `Ticks`: scheduled runs are not later than the last tick fired, so a new one is new;
* `Creation`: a run that waits for its creator has one creator and no job;
* `Leases`: a worker's run has a job, and unless the lease was ever lost, it is leased to
  this worker and to no other.

`RunningIsExecuting` is about the memory backend, as is the property's run: there a worker that has set
a row to running leaves by `FinishRun` only, and what the reaper writes is never `running`.

**OutboxRelay.** The invariant adds `Ticks` (a tick starts empty-handed and publishes a row
once), `DoneSent`, and `Owners`: an event that is not excused is held by at most one
relay and, once published, is processed or still in that relay's `done`. `RepeatsExcused`
needs `Owners`, because a second publication is a publication by somebody who holds it.

**NotifyDispatcher.** `OnePlace` counts the places of a job. The proof replaces the count by four
predicates that exclude each other (`PlaceOf`) and by `Distinct`: the channel and the hands hold no
job twice, without which taking one from the channel would leave it there as well.

**CostWatcher.** The property excepts an alert the watcher could not know of, so the
invariant says what is known: a budget's date is that of every marked alert or a later one
(`Remembered`), and a watcher that is about to publish has compared with the alerts it knew of
(`Watching`). An edit of the budget in between keeps the dates because `UpsertBudget` does.

**Quality.** The property counts jobs, the code counts slots. `Held` says that the slots of a
worker are exactly those of its jobs that query, `Capped` that no source has too many; a job that
ends in any way (answer, time-out, death of the worker) leaves both sets together, one whose context ends while
it waits joins neither, and a second delivery of a job is a job of its own, whose slot the first cannot give back.

**Contracts.** A breach may repeat an earlier one only when the evaluation that recorded it could not know,
and what could be known is settled long before the breach is written. So the invariant carries it through the
loop: of everything an evaluation still has to record, each earlier equal of the same contract came after the
history was read, or was followed by as many newer breaches as the window has (`EvaluationSound`, `Untold`).
Rows that are appended later do not change that (`ExcusedSame`), and a deletion takes all breaches of a contract or none
(`Survive`). The heart is `UnseenIsUntold`: an observation that is not among the newest `Window` breaches has that many
newer ones, counted by position, hence by id. `DeclaredRight` says that the contract an evaluation holds is
what some version declared, also after that version was overwritten, and `OneAnnounces` that a recorded breach has
one evaluation that is about to announce it.

**Migration.** Rows are copied in an order, so the invariant says up to where. A checkpoint, and the cursor a
run has reached, cover what lies up to them in the order of the column, but for rows that share their value
(`Covered`); a batch is an initial part of what comes after its cursor (`BatchExact`); a snapshot that is alone
has the first rows, once each, and the rows it holds are those that follow (`SnapshotSound`). `PlansFixed` says
that a run's copy of its plan is the plan of that id, now and later, and `AloneMoves` that two runs of a plan
move only when both know they are not alone. A crash loses checkpoints that are in memory and never moves one ahead.

**Identity.** One invariant for three theorems. An erased account that nothing was outstanding for stays
unreachable: no password, no token that somebody has and that still works, and no request past the point where it would look
at them (`Gone`). A request that is about to create an invitation has seen to it that the invitations before it
are over, except those it failed to list or to revoke (`Cleared`), hence of any two open invitations of an address one was made while the other's request could not see it or could not revoke it
(`Replaced`). An invitation on its way to a membership is not revoked unnoticed (`Noticed`). The
properties about pages follow from the types and from references that hold (`Grounded`).
Both repositories are covered, method by method (`Mem!`, `Pg!`).

**Middleware.** The property looks back over a stretch of decisions, the code has a level and a date. What joins
them is an account: from any call of a client that was served, what it was served since and what it
has left never exceed a full bucket and the refill since (`NeverMore`), and whoever has less than a full bucket
has, since some call, used all of it up (`NeverLess`). The first refutes a call too many, the second a refusal
too many; the janitors drop only buckets that are full by then. `Promised` is about the remaining calls in the answer's headers.

**AuditLog.** Two rows of one life of a process, the second begun after the first had settled, must
not name one predecessor. Hence the tail of a process is no longer the predecessor of a row
that settled (`Advanced`); a tail that was read before an insert is not the
predecessor of what had settled before the request began (`Reading`); and nothing links yet to a
row whose own update of the tail is still to come (`Unsettled`).

**Governance.** One invariant, `GovInv`, for three theorems, since all of them depend on what a request
in the middle of a handler knows.

* `DecidesLatest`: whoever is about to decide holds the row that was the latest of its asset
  among the `seen` first; if the history has grown since, the decision is in `raced`.
* `Clear`: no hold among those that existed when the handler looked covers the row it deletes. Holds
  are only ever added or released, so what was clear stays clear, and `HoldBinds` follows for the step that removes.
* `Covered` is what makes `NothingLost` inductive, and a counting argument: for every key, the requests
  about to remove its row or to mark its tombstone as restored are fewer than the live rows and
  the unrestored tombstones together. A deletion adds a tombstone before it adds a claim, a restore adds a row
  before it does, and a step that takes something away gives up a claim. That somebody else removed
  the row first is harmless, since every remover brought a tombstone. The keys in `hollow` are those of
  restores that added nothing; `Honest` and `KeysHold` keep them to policy rules over Postgres.
* `DeletesOwn`, `RestoresOwn`, `Original`: rows a request holds are of its own tenant and, but
  for rules, rows of the start, whose keys have one tenant. That is why no deletion reaches a row of another.

The lemmas before it say of each store method what it leaves alone, for both sets of stores; the
tables' operators are characterised once (`Picked`, `Shrinks`, `Keyed`).

How the modules are written for it: `Without` builds the remaining sequence by rank and
tables are described with `Where`, not with a recursive filter, which the provers cannot unfold; records
of the monitors are written out rather than extended with `@@`; `HoldBinds` has its action as a definition
of its own, `HeldRowsStay`; and a `UNION` that is an operand stands in parentheses, because the parsers of
TLC and of the prover do not agree on what follows it.

## 5. What only TLC checks, and what is not modelled

Only TLC:

* all liveness (`RunsFinish`, `JobSettles`, `EveryEventSent`, `DueIsSettled`,
  `MigrationEnds`), which is out of the prover's reach;
* `SortExact`, whose reference is a transitive closure: its proof is an induction over paths;
* `MonitorsApart`, which relates every reading handler of three components to what one tenant may see: not
  proved, see section 7;
* the properties of `catalog`: an invariant would have to say of each of its many handlers what it has read
  when it stands between two calls, as `GovInv` does for the five states of Governance. Not attempted so far.

Left out of the modelled parts: log lines, wording, formats on the wire, the syntax of cron, SQL and
names; what an executor or a channel does outside; what NATS does once the socket has taken
the bytes (a relay counts that as published); task outputs; time zones and daylight saving;
`HeartbeatRun` (no caller); `process_attempts` and `last_error` (written, never read). The outbox
`Writer` has no caller in the server either: the module checks what the relay promises to one.
Hashes are taken to be injective and sealing to be invertible.

Not modelled, or only in part:

* the SQL lexer and the column lineage parser (`core/lineage`), the regular expressions of the
  classifier, prompts and the adapters of AI providers: text in, text out, without state. What their
  results do to the catalog is modelled.
* sources and drivers, blob and mail clients, vector search back ends: I/O. Their errors are the
  faults of the modules that call them.
* process wiring, configuration, tracing and metrics; gRPC and MCP, which call the same cores;
  the command line, the web front end, deployment files.
* quality: the SQL each kind of check runs is a measurement; custom SQL is not interpreted. A server without a database
  keeps checks in `quality.MemoryStore` (`main.go:290`), which is not modelled; there a `POST` with the id of another tenant's
  check overwrites that check (`memstore.go:40-55`, `checks.go:86-96`), so `MonitorsApart` is about Postgres.
* one step stands for several reads where nothing can tell them apart: in `Contracts.Load` the contract, the profile and the
  history (`service.go:99-119`), since an edit between the reads has the effect of one after them, the loop working on its copies.
* token buckets themselves are a library's (`x/time/rate`), modelled from their use.

## 6. Where code and documentation disagree

Two disagreements have a run that TLC must find violated.

`due_not_latest`: "dueAt returns the most recent firing time for p that is <= now" (`scheduler.go:158`). It
returns the first one after the last it fired (`scheduler.go:182`), so a scanner that was held up for two periods is
behind, and works the missed ticks off one per scan.

`ticks_need_tenant`: the scheduler "acts for all tenants"
and enqueues a run for every due pipeline (`scheduler.go:116`, `memstore.go:27`), but its context
has no tenant, which `PipelineStore.CreateRun` requires: over Postgres every tick is marked as
fired and its error taken for a lost race.

The others were met while modelling. The models do what the code does, and the properties
name the cases as their exceptions.

Pipelines and events
* A negative `MaxAttempts`, which the API accepts, makes `RunOnce` store a run as succeeded
  although no attempt was made (`runner.go:177`, `NoAttempts`).
* `scheduler.go:203`: a runner that comes back to life sees the row updated and stops cleanly.
  `RunOnce` never reads the row again; its last `UpdateRun` overwrites the reaper's `failed`.
* `orchestration.go:253`: the reaper will surface runs whose enqueue failed. It lists running
  runs only; these stay queued.
* The reaper writes a copy: a run that finished between list and write becomes failed
  (`ReapOne`). Two overlapping deliveries can likewise reopen a finished run, because the
  check for a finished run and the first `UpdateRun` are apart (`LoadRun`, `StartRun`).
* In memory the runs of a deleted pipeline are kept "for audit" (`memstore.go:86-95`), queued ones as well: their goroutine
  finds no pipeline, logs the error and returns (`sync.go:42`), and they stay queued for ever (`LoadFails`, `RunsFinish`).
* `main.go:482`: matching events become delivery rows. `newID` makes 24 hexadecimal digits, the
  column is a UUID: over Postgres every row is refused and the job given up before `Deliver`.
* Two relays can publish the same rows although `outbox.go:46` rests on SKIP LOCKED: the
  statement runs outside a transaction. This is the first cause in `RepeatsExcused`.
* After the pool has stopped the channel is closed and still set: a publisher that is in its
  loop panics (`SendOnClosed`). `QueueSize` is documented to drop what does not fit; the code
  delivers it inline.
* Pipeline, check and cost events have no id, so all notifications of a rule would share one
  idempotency key; pipeline events have no severity, so a failed run ranks as info.
* `run_logs.go:106`: a stream is drained at its end. Lines written between the last empty poll and
  the end of the run are not streamed. `PATCH` does not look at the name; in memory, a `POST` with the id of
  a stored pipeline replaces it, also when it is another tenant's (`memstore.go:54-69`, `taken`). A look at
  the run that fails ends the stream of a running run with "done" (`run_logs.go:164-166`, `LookFails`).

Migrations
* `cmd/plowered-worker` is built without a `MigrationExecutor`, so runs that are enqueued there stay
  running. "Always finalised" (`service.go:137`) is contradicted by the early returns below it.
* Incremental plans cannot be created over HTTP. Integer cursors are compared as text. A batch that ends
  between two rows with one cursor leaves the second out for good.
* A failed enqueue leaves the run `running`; deleting a plan cascades under its execution.

Identity and limits
* Overlapping resets can both consume a token; a reset token that outlives an erasure makes the account
  active again; the last administrator can leave.
* "The new one becomes the authoritative outstanding invite" (`team.go:253-255`): the errors of the list and of the
  revocations are dropped (`team.go:256,260`), so one failed statement leaves two open invitations, as do two requests at once.
* Postgres `CreateUser` drops the verified address of who was invited; the window of failed logins
  lasts twice as long there as in memory; `Verify` accepts tokens of any purpose.
* The export claims "every personal-data row" (`account_gdpr.go:18,66`). It leaves out ended sessions, tokens and invitations,
  and a list that cannot be read is left out without a word (`account_gdpr.go:54-55`). `ViewsAgree` asks only that
  it tells nothing that is not the caller's.
* Buckets are per process.

Governance
* A restore between the capture and the deletion loses the resource (memory stores; policy rules also in
  Postgres); a purge does not ask for holds; holds on tags never match, since no caller passes any.
* When `Check` fails, the answer to a refused deletion dereferences a hold that is nil. DSRs go from any status to any.
* The audit chain forks where two rows overlap, after a restart and between replicas.

Monitors
* The signature of a freshness breach contains the age, so it is never recognised. A breach that comes
  back within the window is not announced again. Marks of late alerts overwrite newer ones; two replicas alert twice.
* Summaries ask for 1000 rows of a store that gives 100; a budget of zero divides by it. Disabled checks run.

Catalog, knowledge and AI
* A token whose asset was deleted ends the walk silently (Postgres) or starts it over (memory). Names that differ in case are
  one name in memory and two in Postgres.
* A password given to a connection that was created without one is stored and never used; late test
  results overwrite newer ones. A deletion that cannot read the urn leaves the secret (`connections.go:260`, `FindURNFails`). A vector store's key given later fails after the row was written.
* `stats.go`: existing descriptions, tags and owners are preserved. `UpdateAsset` overwrites the row,
  and a view becomes a table. Run results upsert test nodes with `include_tests` off. Foreign keys ignore the filters.
* `SetPrimary` "atomically marks one config primary" (`aiprovider.go:137`). Its first statement takes no lock and its last counts no
  row: when the configuration is deleted or moved to another capability in between, the old primary is demoted and nobody
  promoted (`Overtaken`).
* The classifier logs tags it could not merge and classifications it could not apply, and its job succeeds
  (`orchestrator.go:125-131`, `320-322`): a column is then shown as classified, and policies on tags do not see it (`unmerged`).
* A configuration created as primary beside another is always refused; a question that was refused is
  logged as generated; a run whose rows cannot be read is not logged (`0016` says it is).
* The glossary checks no tenant but that of the assignment: who assigns another tenant's term by its id is shown that term's name and definition
  (`postgres/glossary.go:132-139`, `158-165`), and by the conflict on term and asset changes who assigned it there.
* Glossary parents can form a cycle; votes and comments are not scoped to a tenant; a classification can be
  stored on another tenant's column id; `isNumeric` takes `interval` and `point` for numbers.
* `http/jobs.go`: a result is final. A reindex that is retried turns failed into succeeded; a worker that dies with
  a task without retries leaves its job running. In-process crawls always fail: their handlers get no catalog.

## 7. The plan

Done: all modules of section 2, their runs, and the proofs of section 4. Left, in this order:

| step | what | why |
|---|---|---|
| 1 | Catalog: the part of `CredentialsKept` about urns, then `KnowledgeKept` | needs an invariant over `req`, as in Governance and Identity, with a vault beside the tables |
| 2 | Monitors: `MonitorsApart` for any number of tenants | a lemma per handler about the rows of others (`Foreign`); short, but for three components |
| 3 | TopologicalSort: `SortExact` | the closure as an intersection, as `Ancestors` in PipelineRunner, instead of a path |

Runs stay one per question, and a new component joins the run of its neighbours.
