--------------------------- MODULE PipelineRunner ---------------------------
(***************************************************************************)
(* Runner.RunOnce (internal/core/pipeline/runner.go): one run of a         *)
(* pipeline, driven by successive deliveries of its queue job.  Every step *)
(* is a piece of the code between two calls of the store or the executor,  *)
(* so that a crash, a cancelled context or a failed write can fall between *)
(* any two of them.  A redelivered job starts over: only the run row and   *)
(* the task_run rows survive.                                              *)
(*                                                                         *)
(* The deployment is Postgres and Asynq.  With the memory store and the    *)
(* in-process queue there is less: no redelivery, no cancelled context, no *)
(* failing write, and a run outlives its pipeline.                         *)
(*                                                                         *)
(* Deliveries of one job do not overlap here; concurrent deliveries, the   *)
(* scheduler and the reaper are in module Orchestration.                   *)
(***************************************************************************)
EXTENDS Integers, FiniteSets

CONSTANTS
    Tasks,         \* task ids; their order as numbers is the lexical order
    Pipelines,     \* pipeline definitions that may be stored
    NoPipeline,    \* no definition: the pipeline was deleted
    DefaultRetry,  \* DefaultRetry.MaxAttempts
    MaxRetry       \* redeliveries the queue allows a job

\* dependsOn and maxAttempts are the Tasks' fields, executors the tasks whose
\* type is registered.
PipelineType == [dependsOn   : [Tasks -> SUBSET Tasks],
                 failFast    : BOOLEAN,
                 executors   : SUBSET Tasks,
                 maxAttempts : [Tasks -> Int]]

ASSUME RunnerAssumption ==
    /\ Tasks \subseteq Nat /\ IsFiniteSet(Tasks)
    /\ Pipelines \subseteq PipelineType
    /\ NoPipeline \notin PipelineType
    /\ DefaultRetry \in Nat \ {0}
    /\ MaxRetry \in Nat

VARIABLES
    pipeline,   \* the stored definition, or NoPipeline
    run,        \* status of the run row, "none" once it is deleted
    taskRuns,   \* task -> status of its task_run row, or "none"; rows of
                \* earlier deliveries stay in the table and are never read
    job,        \* queue state of the job: pending, taken, acked, archived
    retried,    \* redeliveries used so far
    pc,         \* where the current delivery is in RunOnce
    def,        \* the definition this delivery loaded
    depth,      \* task -> level, from TopologicalSort
    local,      \* the in-memory taskRuns map: task -> status, or "none"
    cur,        \* task being executed
    attempt,    \* and its attempt number
    failed,     \* pipelineFailed
    ctxDone,    \* the delivery's context is cancelled
    storeFlaky, \* do store calls fail for other reasons than the context?
    executed,   \* history: delivery -> tasks whose executor returned no error
    announced   \* history: terminal run events published

queueVars == <<job, retried>>
loopVars == <<def, depth, local, cur, attempt, failed>>
vars == <<pipeline, run, taskRuns, queueVars, pc, loopVars, ctxDone, storeFlaky, executed, announced>>

-----------------------------------------------------------------------------

TerminalRun == {"succeeded", "failed"}
RunStatus == {"queued", "running"} \cup TerminalRun
TerminalTask == {"succeeded", "failed", "skipped"}
TaskStatus == {"running", "retrying"} \cup TerminalTask

delivery == retried + 1
Deliveries == 1..(MaxRetry + 1)

\* A zero MaxAttempts means the default; a negative one is taken as it is.
Attempts(p, t) == IF p.maxAttempts[t] = 0 THEN DefaultRetry ELSE p.maxAttempts[t]

\* What TopologicalSort returns for p (module TopologicalSort): the layering
\* in dependency order that places every task as early as possible.
\* It is empty when the dependencies have a cycle.
Layerings(p) ==
    {f \in [Tasks -> 1..Cardinality(Tasks)] : \A t \in Tasks :
        /\ \A d \in p.dependsOn[t] : f[d] < f[t]
        /\ f[t] > 1 => \E d \in p.dependsOn[t] : f[d] = f[t] - 1}

Visited == {t \in Tasks : local[t] # "none"}

\* Mutant: lexical order alone.
LexicalNext(t) == t \in Tasks \ Visited /\ \A u \in Tasks \ Visited : u >= t

\* The loop's order: level by level, lexically within a level.
IsNext(t) ==
    /\ t \in Tasks \ Visited
    /\ \A u \in Tasks \ Visited :
          depth[t] < depth[u] \/ (depth[t] = depth[u] /\ t <= u)

\* A dependency that did not succeed, or is not in the map at all.
ShouldSkip(t) == \E d \in def.dependsOn[t] : local[d] # "succeeded"

\* A store call made with a cancelled context fails.
StoreOk(ok) ==
    /\ ok \in BOOLEAN
    /\ ctxDone => ~ok
    /\ ~ok => ctxDone \/ storeFlaky

\* CreateTaskRun, whose error the runner tolerates.  Without the parent run
\* row the foreign key refuses it.
RowAfterCreate(ok) == IF ok /\ run # "none" THEN "running" ELSE "none"

\* UpdateTaskRun, whose error is ignored: the row keeps its old status.
RowAfterUpdate(row, status, ok) == IF ok /\ row # "none" THEN status ELSE row

SetRow(t, status) == taskRuns' = [taskRuns EXCEPT ![t] = status]

NoRows == [t \in Tasks |-> "none"]

-----------------------------------------------------------------------------
(* The queue. *)

NoLoop ==
    /\ def' = NoPipeline
    /\ depth' = [t \in Tasks |-> 0]
    /\ local' = [t \in Tasks |-> "none"]
    /\ cur' = 0
    /\ attempt' = 0
    /\ failed' = FALSE

Acknowledge ==
    /\ job' = "acked"
    /\ pc' = "idle"
    /\ NoLoop
    /\ UNCHANGED retried

\* Mutant: the retry count is not advanced.
HandBackUncounted ==
    /\ job' = "pending"
    /\ UNCHANGED retried
    /\ pc' = "idle"
    /\ NoLoop

\* The handler returned an error, or the worker died holding the job: Asynq
\* delivers it again until the retries are used up, then archives it.
HandBack ==
    /\ IF retried < MaxRetry THEN job' = "pending" /\ retried' = retried + 1
                             ELSE job' = "archived" /\ UNCHANGED retried
    /\ pc' = "idle"
    /\ NoLoop

Deliver ==
    /\ job = "pending"
    /\ job' = "taken"
    /\ pc' = "load"
    /\ ctxDone' = FALSE
    /\ taskRuns' = NoRows
    /\ UNCHANGED <<pipeline, run, retried, loopVars, executed, announced>>

-----------------------------------------------------------------------------
(* RunOnce up to the task loop. *)

\* GetRun or GetPipeline fails: not found, or the store is unreachable.
LoadFails ==
    /\ pc = "load"
    /\ \/ run = "none"
       \/ run \notin TerminalRun /\ pipeline = NoPipeline
       \/ \E ok \in BOOLEAN : StoreOk(ok) /\ ~ok
    /\ HandBack
    /\ UNCHANGED <<pipeline, run, taskRuns, ctxDone, executed, announced>>

AlreadyTerminal ==
    /\ pc = "load"
    /\ run \in TerminalRun
    /\ StoreOk(TRUE)
    /\ Acknowledge
    /\ UNCHANGED <<pipeline, run, taskRuns, ctxDone, executed, announced>>

Load ==
    /\ pc = "load"
    /\ run \in {"queued", "running"}
    /\ pipeline # NoPipeline
    /\ StoreOk(TRUE)
    /\ def' = pipeline
    /\ depth' \in Layerings(pipeline)
    /\ pc' = "start"
    /\ UNCHANGED <<pipeline, run, taskRuns, queueVars, local, cur, attempt, failed,
                   ctxDone, executed, announced>>

\* TopologicalSort fails: the run is marked failed (no event) and the error
\* goes back to the queue.
RejectCycle ==
    /\ pc = "load"
    /\ run \in {"queued", "running"}
    /\ pipeline # NoPipeline
    /\ StoreOk(TRUE)
    /\ Layerings(pipeline) = {}
    /\ \E ok \in BOOLEAN : StoreOk(ok) /\ run' = IF ok THEN "failed" ELSE run
    /\ HandBack
    /\ UNCHANGED <<pipeline, taskRuns, ctxDone, executed, announced>>

MarkRunning ==
    /\ pc = "start"
    /\ run # "none"
    /\ StoreOk(TRUE)
    /\ run' = "running"
    /\ pc' = "next"
    /\ UNCHANGED <<pipeline, taskRuns, queueVars, loopVars, ctxDone, executed, announced>>

MarkRunningFails ==
    /\ pc = "start"
    /\ run = "none" \/ (\E ok \in BOOLEAN : StoreOk(ok) /\ ~ok)
    /\ HandBack
    /\ UNCHANGED <<pipeline, run, taskRuns, ctxDone, executed, announced>>

-----------------------------------------------------------------------------
(* The task loop. *)

\* startTaskRun followed by UpdateTaskRun with a final status.
CreateAndFinishRow(t, status) ==
    \E created, updated \in BOOLEAN :
        /\ StoreOk(created) /\ StoreOk(updated)
        /\ SetRow(t, RowAfterUpdate(RowAfterCreate(created), status, updated))

SkipTask(t) ==
    /\ pc = "next"
    /\ IsNext(t)
    /\ ShouldSkip(t)
    /\ local' = [local EXCEPT ![t] = "skipped"]
    /\ CreateAndFinishRow(t, "skipped")
    /\ UNCHANGED <<pipeline, run, queueVars, pc, def, depth, cur, attempt, failed,
                   ctxDone, executed, announced>>

\* Mutant: a failed task is remembered only when the pipeline fails fast.
FailOnlyIfFast(t) ==
    /\ local' = [local EXCEPT ![t] = "failed"]
    /\ failed' = (failed \/ def.failFast)
    /\ pc' = IF def.failFast THEN "skip" ELSE "next"

\* What follows executeTaskWithRetry when the task has failed.
TaskFails(t) ==
    /\ local' = [local EXCEPT ![t] = "failed"]
    /\ failed' = TRUE
    /\ pc' = IF def.failFast THEN "skip" ELSE "next"

NoExecutor(t) ==
    /\ pc = "next"
    /\ IsNext(t)
    /\ ~ShouldSkip(t)
    /\ t \notin def.executors
    /\ TaskFails(t)
    /\ CreateAndFinishRow(t, "failed")
    /\ UNCHANGED <<pipeline, run, queueVars, def, depth, cur, attempt, ctxDone,
                   executed, announced>>

\* With a negative MaxAttempts the attempt loop has no iteration: the task
\* run comes back as it was created, neither executed nor failed.
NoAttempts(t) ==
    /\ pc = "next"
    /\ IsNext(t)
    /\ ~ShouldSkip(t)
    /\ t \in def.executors
    /\ Attempts(def, t) < 1
    /\ local' = [local EXCEPT ![t] = "running"]
    /\ \E ok \in BOOLEAN : StoreOk(ok) /\ SetRow(t, RowAfterCreate(ok))
    /\ UNCHANGED <<pipeline, run, queueVars, pc, def, depth, cur, attempt, failed,
                   ctxDone, executed, announced>>

StartTask(t) ==
    /\ pc = "next"
    /\ IsNext(t)
    /\ ~ShouldSkip(t)
    /\ t \in def.executors
    /\ Attempts(def, t) >= 1
    /\ \E ok \in BOOLEAN : StoreOk(ok) /\ SetRow(t, RowAfterCreate(ok))
    /\ cur' = t
    /\ attempt' = 1
    /\ pc' = "exec"
    /\ UNCHANGED <<pipeline, run, queueVars, def, depth, local, failed, ctxDone,
                   executed, announced>>

\* UpdateTaskRun for the task being executed, error ignored.
UpdateRow(status) ==
    \E ok \in BOOLEAN :
        /\ StoreOk(ok)
        /\ SetRow(cur, RowAfterUpdate(taskRuns[cur], status, ok))

ExecuteSucceeds ==
    /\ pc = "exec"
    /\ local' = [local EXCEPT ![cur] = "succeeded"]
    /\ executed' = [executed EXCEPT ![delivery] = @ \cup {cur}]
    /\ UpdateRow("succeeded")
    /\ pc' = "next"
    /\ UNCHANGED <<pipeline, run, queueVars, def, depth, cur, attempt, failed,
                   ctxDone, announced>>

\* An attempt fails and another one is left.
ExecuteFails ==
    /\ pc = "exec"
    /\ attempt < Attempts(def, cur)
    /\ pc' = "backoff"
    /\ UNCHANGED <<pipeline, run, taskRuns, queueVars, loopVars, ctxDone, executed,
                   announced>>

\* The last attempt fails: the task run is dead-lettered.
ExecuteExhausted ==
    /\ pc = "exec"
    /\ attempt = Attempts(def, cur)
    /\ TaskFails(cur)
    /\ UpdateRow("failed")
    /\ UNCHANGED <<pipeline, run, queueVars, def, depth, cur, attempt, ctxDone,
                   executed, announced>>

\* select: the timer, or the context.  When both are ready either may win.
BackoffElapses ==
    /\ pc = "backoff"
    /\ attempt' = attempt + 1
    /\ UpdateRow("retrying")
    /\ pc' = "exec"
    /\ UNCHANGED <<pipeline, run, queueVars, def, depth, local, cur, failed, ctxDone,
                   executed, announced>>

BackoffCancelled ==
    /\ pc = "backoff"
    /\ ctxDone
    /\ TaskFails(cur)
    /\ UpdateRow("failed")
    /\ UNCHANGED <<pipeline, run, queueVars, def, depth, cur, attempt, ctxDone,
                   executed, announced>>

\* skipRemaining: every task not in the map yet, in loop order.
SkipRemaining(t) ==
    /\ pc = "skip"
    /\ IsNext(t)
    /\ local' = [local EXCEPT ![t] = "skipped"]
    /\ CreateAndFinishRow(t, "skipped")
    /\ UNCHANGED <<pipeline, run, queueVars, pc, def, depth, cur, attempt, failed,
                   ctxDone, executed, announced>>

-----------------------------------------------------------------------------
(* done: *)

Outcome == IF failed THEN "failed" ELSE "succeeded"

\* Mutant: the event is forgotten.
FinishSilently ==
    /\ pc \in {"next", "skip"}
    /\ Visited = Tasks
    /\ pc' = "save"
    /\ UNCHANGED <<pipeline, run, taskRuns, queueVars, loopVars, ctxDone, executed,
                   announced>>

\* The event goes out before the row is saved.
PublishOutcome ==
    /\ pc \in {"next", "skip"}
    /\ Visited = Tasks
    /\ announced' = announced \cup {Outcome}
    /\ pc' = "save"
    /\ UNCHANGED <<pipeline, run, taskRuns, queueVars, loopVars, ctxDone, executed>>

SaveOutcome ==
    /\ pc = "save"
    /\ run # "none"
    /\ StoreOk(TRUE)
    /\ run' = Outcome
    /\ pc' = "return"
    /\ UNCHANGED <<pipeline, taskRuns, queueVars, loopVars, ctxDone, executed, announced>>

\* The handler returns nil and the queue is told; until then a crash makes the
\* job of a finished run come back.
Return ==
    /\ pc = "return"
    /\ Acknowledge
    /\ UNCHANGED <<pipeline, run, taskRuns, ctxDone, executed, announced>>

SaveOutcomeFails ==
    /\ pc = "save"
    /\ run = "none" \/ (\E ok \in BOOLEAN : StoreOk(ok) /\ ~ok)
    /\ HandBack
    /\ UNCHANGED <<pipeline, run, taskRuns, ctxDone, executed, announced>>

-----------------------------------------------------------------------------
(* The environment. *)

\* The job's deadline passes or the worker shuts down.
CancelContext ==
    /\ pc # "idle"
    /\ ~ctxDone
    /\ ctxDone' = TRUE
    /\ UNCHANGED <<pipeline, run, taskRuns, queueVars, pc, loopVars, executed, announced>>

\* The worker dies: the lease expires and the queue takes the job back.
Crash ==
    /\ pc # "idle"
    /\ HandBack
    /\ UNCHANGED <<pipeline, run, taskRuns, ctxDone, executed, announced>>

\* Bound: what happens to the pipeline once the job is settled is left out.
Unsettled == job \in {"pending", "taken"}

\* updatePipelineHandler refuses definitions that do not sort.
UpdatePipeline(p) ==
    /\ Unsettled
    /\ pipeline # NoPipeline
    /\ Layerings(p) # {}
    /\ pipeline' = p
    /\ UNCHANGED <<run, taskRuns, queueVars, pc, loopVars, ctxDone, executed, announced>>

\* deletePipelineHandler; the foreign keys delete the runs with their pipeline.
DeletePipeline ==
    /\ Unsettled
    /\ pipeline # NoPipeline
    /\ pipeline' = NoPipeline
    /\ run' = "none"
    /\ taskRuns' = NoRows
    /\ UNCHANGED <<queueVars, pc, loopVars, ctxDone, executed, announced>>

-----------------------------------------------------------------------------

\* A run has just been created and its job enqueued.  RunOnce does not rely on
\* the handlers' validation, so neither does Init: any definition may be stored.
Init ==
    /\ pipeline \in Pipelines
    /\ run = "queued"
    /\ taskRuns = NoRows
    /\ job = "pending"
    /\ retried = 0
    /\ pc = "idle"
    /\ def = NoPipeline
    /\ depth = [t \in Tasks |-> 0]
    /\ local = [t \in Tasks |-> "none"]
    /\ cur = 0
    /\ attempt = 0
    /\ failed = FALSE
    /\ ctxDone = FALSE
    /\ storeFlaky \in BOOLEAN
    /\ executed = [d \in Deliveries |-> {}]
    /\ announced = {}

\* The steps of RunOnce and of the queue, as opposed to what befalls them.
RunnerStep ==
    \/ Deliver
    \/ LoadFails
    \/ AlreadyTerminal
    \/ Load
    \/ RejectCycle
    \/ MarkRunning
    \/ MarkRunningFails
    \/ \E t \in Tasks : \/ SkipTask(t)
                        \/ NoExecutor(t)
                        \/ NoAttempts(t)
                        \/ StartTask(t)
                        \/ SkipRemaining(t)
    \/ ExecuteSucceeds
    \/ ExecuteFails
    \/ ExecuteExhausted
    \/ BackoffElapses
    \/ BackoffCancelled
    \/ PublishOutcome
    \/ SaveOutcome
    \/ Return
    \/ SaveOutcomeFails

Environment ==
    \/ CancelContext
    \/ Crash
    \/ \E p \in Pipelines : UpdatePipeline(p)
    \/ DeletePipeline

Next == UNCHANGED storeFlaky /\ (RunnerStep \/ Environment)

Spec == Init /\ [][Next]_vars

\* Workers and the queue keep going: a delivery that can move does, and
\* an executor returns (the job's deadline bounds it).
FairSpec == Spec /\ WF_vars(UNCHANGED storeFlaky /\ RunnerStep)

-----------------------------------------------------------------------------

TypeOK ==
    /\ pipeline \in Pipelines \cup {NoPipeline}
    /\ run \in RunStatus \cup {"none"}
    /\ taskRuns \in [Tasks -> TaskStatus \cup {"none"}]
    /\ job \in {"pending", "taken", "acked", "archived"}
    /\ retried \in 0..MaxRetry
    /\ pc \in {"idle", "load", "start", "next", "exec", "backoff", "skip", "save", "return"}
    /\ def \in Pipelines \cup {NoPipeline}
    /\ depth \in [Tasks -> 0..Cardinality(Tasks)]
    /\ local \in [Tasks -> TaskStatus \cup {"none"}]
    /\ cur \in Tasks \cup {0}
    /\ attempt \in Nat
    /\ failed \in BOOLEAN
    /\ ctxDone \in BOOLEAN
    /\ storeFlaky \in BOOLEAN
    /\ executed \in [Deliveries -> SUBSET Tasks]
    /\ announced \subseteq TerminalRun

\* Everything t depends on, directly or not: what is in every set that has t's
\* dependencies and, with a task, the task's own.
Ancestors(p, t) ==
    {a \in Tasks : \A S \in SUBSET Tasks :
        p.dependsOn[t] \subseteq S /\ (\A s \in S : p.dependsOn[s] \subseteq S) => a \in S}

\* Every task gets at least one attempt.
Attempted(p) == \A t \in Tasks : Attempts(p, t) >= 1

\* What the run is about to be saved as is what happened in this very delivery:
\* it succeeds exactly when every executor did, and without fail-fast a task was
\* skipped exactly when one of its ancestors failed.
OutcomeFaithful ==
    pc = "save" /\ Attempted(def) =>
        /\ Outcome = "succeeded" <=> executed[delivery] = Tasks
        /\ ~def.failFast =>
              \A t \in Tasks : local[t] = "skipped" <=>
                  \E a \in Ancestors(def, t) : local[a] = "failed"

\* When no store call of a delivery failed, the ledger it leaves shows
\* every task with its final status.
LedgerComplete ==
    pc = "save" /\ Attempted(def) /\ ~ctxDone /\ ~storeFlaky /\ run # "none" =>
        \A t \in Tasks : taskRuns[t] = local[t] /\ local[t] \in TerminalTask

\* A stored outcome was announced on the event bus first, even when an earlier
\* delivery announced another one; only a pipeline that does not sort fails
\* without an event, and then nothing was announced or executed.
TerminalAnnounced ==
    /\ run = "succeeded" => "succeeded" \in announced
    /\ run = "failed" => \/ "failed" \in announced
                         \/ announced = {} /\ \A d \in Deliveries : executed[d] = {}

\* The queue forgets a job only once its run is finished or deleted.
AckedMeansFinished == job = "acked" => run \in TerminalRun \cup {"none"}

\* What is stored of a run is what happened to its tasks.
RecordFaithful == OutcomeFaithful /\ LedgerComplete

\* The end of a run reaches the bus and the queue in the right order.
EndReported == TerminalAnnounced /\ AckedMeansFinished

\* The job of a run is eventually acknowledged or archived.
JobSettles == <>(job \in {"acked", "archived"})

\* RunOnce implements the order-free reading of its documentation.
Dag == INSTANCE DagExecution WITH NoGraph <- NoPipeline, graph <- def, status <- local
ImplementsDagExecution == Dag!Spec
=============================================================================
