----------------------- MODULE PipelineRunner_proofs -----------------------
(***************************************************************************)
(* The safety of RunOnce for any pipelines over any finite set of tasks    *)
(* and any number of redeliveries, and that it implements DagExecution.    *)
(***************************************************************************)
EXTENDS PipelineRunner, FiniteSetTheorems, TLAPS

\* The delivery is in the task loop, or past it and not yet saved.
InLoop == pc \in {"next", "exec", "backoff", "skip", "save"}

\* The job is held exactly while a delivery is under way.
JobHeld == pc # "idle" <=> job = "taken"

\* Nobody but the delivery finishes the run it works on.
RunOpen ==
    /\ InLoop \/ pc = "start" => run \notin TerminalRun
    /\ pc = "return" => run \in TerminalRun \cup {"none"}

\* The event of the outcome is out before the save, and a pipeline that does not
\* sort has been so from the start: no delivery ever got to its tasks.
Published ==
    /\ pc = "save" => Outcome \in announced
    /\ pipeline # NoPipeline /\ Layerings(pipeline) = {} =>
          announced = {} /\ pc \in {"idle", "load"} /\ \A d \in Deliveries : executed[d] = {}

\* The loop starts on an empty map, with a definition that was sorted.
Loaded ==
    /\ pc \in {"idle", "load", "start"} => local = [t \in Tasks |-> "none"] /\ ~failed
    /\ pc \in {"idle", "load"} => def = NoPipeline
    /\ InLoop \/ pc = "start" => def \in Pipelines /\ depth \in Layerings(def)

\* The task being executed is not in the map yet and may run.
Current ==
    pc \in {"exec", "backoff"} =>
        /\ cur \in def.executors
        /\ local[cur] = "none"
        /\ ~ShouldSkip(cur)
        /\ attempt <= Attempts(def, cur)
        /\ pc = "backoff" => attempt < Attempts(def, cur)

\* What the in-memory map says is justified by the definition.
Settled ==
    InLoop => \A t \in Tasks :
        /\ local[t] # "retrying"
        /\ local[t] \in {"succeeded", "failed", "running"} => ~ShouldSkip(t)
        /\ local[t] = "running" => Attempts(def, t) < 1

\* The flag says that a task failed, and a skipped task has a failed ancestor
\* unless the pipeline fails fast.
Failures ==
    InLoop =>
        /\ failed <=> \E t \in Tasks : local[t] = "failed"
        /\ pc = "skip" => def.failFast /\ failed
        /\ Attempted(def) => \A t \in Tasks : local[t] = "skipped" =>
              /\ failed
              /\ def.failFast \/ \E a \in Ancestors(def, t) : local[a] = "failed"

\* The tasks this delivery executed are the ones its map says succeeded.
Executions ==
    /\ \A d \in Deliveries : d > delivery => executed[d] = {}
    /\ job = "pending" \/ pc \in {"load", "start"} => executed[delivery] = {}
    /\ InLoop => executed[delivery] = {t \in Tasks : local[t] = "succeeded"}

\* As long as no store call can fail, the ledger follows the map.
Ledger ==
    InLoop /\ ~ctxDone /\ ~storeFlaky /\ run # "none" =>
        /\ \A t \in Tasks : local[t] # "none" => taskRuns[t] = local[t]
        /\ pc \in {"exec", "backoff"} => taskRuns[cur] # "none"

\* The outcome is decided when every task has been dealt with.
AllVisited == pc = "save" => Visited = Tasks

IInv ==
    /\ TypeOK /\ JobHeld /\ RunOpen /\ Published /\ Loaded /\ Current /\ Settled
    /\ Failures /\ Executions /\ Ledger /\ AllVisited /\ EndReported

-----------------------------------------------------------------------------
(* Facts about the operators. *)

\* There are finitely many tasks, so the places of the loop are numbers.
LEMMA TaskCount == Cardinality(Tasks) \in Nat
BY RunnerAssumption, FS_CardinalityType

\* A layering puts every task after what it depends on.
LEMMA LayeringOrder ==
    ASSUME NEW p, NEW f \in Layerings(p)
    PROVE  /\ f \in [Tasks -> 1..Cardinality(Tasks)]
           /\ \A t \in Tasks : \A d \in p.dependsOn[t] : f[d] < f[t]
BY DEF Layerings

\* What a task depends on is an ancestor, and so are the ancestors of that.
LEMMA AncestorsClosed ==
    ASSUME NEW p \in PipelineType, NEW t \in Tasks, NEW d \in p.dependsOn[t]
    PROVE  /\ d \in Ancestors(p, t)
           /\ Ancestors(p, d) \subseteq Ancestors(p, t)
<1>1. p.dependsOn[t] \in SUBSET Tasks
  BY DEF PipelineType
<1>2. d \in Ancestors(p, t)
  BY <1>1 DEF Ancestors
<1>3. ASSUME NEW a \in Ancestors(p, d) PROVE a \in Ancestors(p, t)
  BY <1>1, <1>3 DEF Ancestors
<1>. QED
  BY <1>2, <1>3

\* A set that has what t depends on, and is closed, has every ancestor of t.
LEMMA AncestorsLeast ==
    ASSUME NEW p, NEW t \in Tasks, NEW S \in SUBSET Tasks,
           p.dependsOn[t] \subseteq S, \A s \in S : p.dependsOn[s] \subseteq S
    PROVE  Ancestors(p, t) \subseteq S
BY DEF Ancestors

\* In the order of the loop a task's dependencies come before it.
LEMMA DependenciesVisited ==
    ASSUME TypeOK, def \in Pipelines, depth \in Layerings(def), NEW t \in Tasks, IsNext(t)
    PROVE  \A d \in def.dependsOn[t] : d \in Tasks /\ local[d] # "none"
<1> SUFFICES ASSUME NEW d \in def.dependsOn[t] PROVE d \in Tasks /\ local[d] # "none"
  OBVIOUS
<1>1. d \in Tasks
  BY RunnerAssumption DEF PipelineType
<1>2. depth[d] < depth[t] /\ depth[d] \in Int /\ depth[t] \in Int
  BY <1>1, LayeringOrder, TaskCount
<1>3. d \in Visited
  BY <1>1, <1>2 DEF IsNext
<1>. QED
  BY <1>1, <1>3 DEF Visited

\* Attempts is a number, and below one only for a negative MaxAttempts.
LEMMA AttemptsInt ==
    ASSUME NEW p \in Pipelines, NEW t \in Tasks
    PROVE  /\ Attempts(p, t) \in Int
           /\ Attempts(p, t) < 1 => p.maxAttempts[t] < 0
BY RunnerAssumption DEF Attempts, PipelineType

\* A delivery in progress has a number, at most one above MaxRedeliveries.
LEMMA DeliveryInRange ==
    ASSUME TypeOK PROVE delivery \in Deliveries /\ delivery \in Int /\ Deliveries \subseteq Int
BY RunnerAssumption DEF TypeOK, delivery, Deliveries

\* The number of a delivery, from the redeliveries before it.
LEMMA DeliveryNumber ==
    ASSUME NEW n \in 0..MaxRetry
    PROVE  n + 1 \in Deliveries /\ n \in Int /\ n + 1 \in Int
BY RunnerAssumption DEF Deliveries

-----------------------------------------------------------------------------
(* The initial state. *)

\* A queued run with its job pending satisfies the invariant.
LEMMA InitInv == Init => IInv
<1> SUFFICES ASSUME Init PROVE IInv
  OBVIOUS
<1>1. TypeOK
  <2>1. depth \in [Tasks -> 0..Cardinality(Tasks)] /\ retried \in 0..MaxRetry
    BY RunnerAssumption, TaskCount DEF Init
  <2>2. executed \in [Deliveries -> SUBSET Tasks]
    BY DEF Init
  <2>. QED
    BY <2>1, <2>2 DEF Init, TypeOK, RunStatus, TerminalRun, NoRows
<1>2. JobHeld /\ RunOpen /\ Published /\ Loaded /\ Current /\ Settled /\ Failures /\ Ledger /\ AllVisited
  BY DEF Init, JobHeld, RunOpen, Published, Loaded, Current, Settled, Failures, Ledger, AllVisited, InLoop, TerminalRun
<1>3. Executions
  BY <1>1, DeliveryInRange DEF Init, Executions, InLoop
<1>4. EndReported
  BY DEF Init, EndReported, TerminalAnnounced, AckedMeansFinished
<1>. QED
  BY <1>1, <1>2, <1>3, <1>4 DEF IInv

-----------------------------------------------------------------------------
(* The delivery ends: the job goes back to the queue or is acknowledged. *)

\* Whatever the delivery had in memory is gone, and the next one has not
\* executed anything.
LEMMA ResetInv ==
    ASSUME IInv, pc # "idle", UNCHANGED <<pipeline, taskRuns, ctxDone, storeFlaky, executed, announced>>,
           HandBack \/ (Acknowledge /\ run' \in TerminalRun \cup {"none"}),
           run' \in RunStatus \cup {"none"}, TerminalAnnounced'
    PROVE  IInv'
<1>0. TypeOK /\ JobHeld /\ Published /\ Executions
  BY DEF IInv
<1>1. /\ pc' = "idle" /\ job' # "taken"
      /\ job' \in {"pending", "acked", "archived"}
      /\ job' = "acked" => run' \in TerminalRun \cup {"none"}
      /\ retried' \in 0..MaxRetry
      /\ \/ job' = "pending" /\ retried' = retried + 1
         \/ job' # "pending" /\ retried' = retried
  BY <1>0, RunnerAssumption DEF HandBack, Acknowledge, TypeOK
<1>2. /\ def' = NoPipeline
      /\ depth' = [t \in Tasks |-> 0]
      /\ local' = [t \in Tasks |-> "none"]
      /\ cur' = 0 /\ attempt' = 0 /\ failed' = FALSE
  BY DEF HandBack, Acknowledge, NoLoop
<1>3. TypeOK'
  <2>1. depth' \in [Tasks -> 0..Cardinality(Tasks)]
    BY <1>2, TaskCount
  <2>. QED
    BY <1>0, <1>1, <1>2, <2>1 DEF TypeOK
<1>4. Executions'
  <2>1. PICK n \in 0..MaxRetry, m \in 0..MaxRetry : n = retried /\ m = retried'
    BY <1>0, <1>1 DEF TypeOK
  <2>2. n \in Int /\ m \in Int /\ n + 1 \in Int /\ m + 1 \in Int /\ m + 1 \in Deliveries
    BY DeliveryNumber
  <2>a. m = n \/ m = n + 1
    BY <1>1, <2>1, <2>2
  <2>b. job' = "pending" => m = n + 1
    BY <1>1, <2>1, <2>2
  <2>3. \A d \in Deliveries : d > m + 1 => executed[d] = {}
    <3>1. \A d \in Deliveries : d \in Int
      BY RunnerAssumption DEF Deliveries
    <3>2. \A d \in Deliveries : d > n + 1 => executed[d] = {}
      BY <1>0, <2>1 DEF Executions, delivery
    <3>. QED
      BY <2>2, <2>a, <3>1, <3>2
  <2>4. job' = "pending" => executed[m + 1] = {}
    BY <1>0, <2>1, <2>2, <2>b DEF Executions, delivery
  <2>. QED
    BY <1>1, <2>1, <2>3, <2>4 DEF Executions, InLoop, delivery
<1>5. JobHeld' /\ RunOpen' /\ Published'
  BY <1>0, <1>1 DEF JobHeld, RunOpen, Published, InLoop
<1>6. Loaded' /\ Current' /\ Settled' /\ Failures' /\ Ledger' /\ AllVisited'
  BY <1>1, <1>2 DEF Loaded, Current, Settled, Failures, Ledger, AllVisited, InLoop
<1>7. EndReported'
  BY <1>1 DEF EndReported, AckedMeansFinished
<1>. QED
  BY <1>3, <1>4, <1>5, <1>6, <1>7 DEF IInv

\* The job is taken up.
LEMMA DeliverInv == ASSUME IInv, Deliver, UNCHANGED storeFlaky PROVE IInv'
<1>0. TypeOK /\ JobHeld /\ RunOpen /\ Published /\ Loaded /\ Current /\ Settled
      /\ Failures /\ Executions /\ Ledger /\ AllVisited /\ EndReported
  BY DEF IInv
<1>1. pc = "idle" /\ pc' = "load"
  BY <1>0 DEF Deliver, JobHeld
<1>2. TypeOK'
  BY <1>0 DEF TypeOK, Deliver, loopVars, NoRows, TaskStatus
<1>3. JobHeld' /\ RunOpen' /\ Published' /\ Loaded' /\ Current' /\ Settled' /\ Failures' /\ Ledger' /\ AllVisited'
  BY <1>0, <1>1 DEF Deliver, loopVars, JobHeld, RunOpen, Published, Loaded, Current, Settled, Failures,
     Ledger, AllVisited, InLoop
<1>4. Executions'
  BY <1>0, <1>1 DEF Deliver, Executions, InLoop, delivery
<1>5. EndReported'
  BY <1>0 DEF Deliver, EndReported, TerminalAnnounced, AckedMeansFinished
<1>. QED
  BY <1>2, <1>3, <1>4, <1>5 DEF IInv

\* The ways in which a delivery ends without an outcome.
LEMMA GivenUpInv ==
    ASSUME IInv, LoadFails \/ MarkRunningFails \/ SaveOutcomeFails \/ Crash, UNCHANGED storeFlaky
    PROVE  IInv'
<1>0. TypeOK /\ EndReported
  BY DEF IInv
<1>1. /\ pc # "idle" /\ HandBack
      /\ UNCHANGED <<pipeline, run, taskRuns, ctxDone, storeFlaky, executed, announced>>
  BY DEF LoadFails, MarkRunningFails, SaveOutcomeFails, Crash
<1>2. TerminalAnnounced' /\ run' \in RunStatus \cup {"none"}
  BY <1>0, <1>1 DEF EndReported, TerminalAnnounced, TypeOK
<1>. QED
  BY <1>1, <1>2, ResetInv

\* A finished run is acknowledged, right after its save or when its job comes back.
LEMMA AcknowledgedInv ==
    ASSUME IInv, AlreadyTerminal \/ Return, UNCHANGED storeFlaky
    PROVE  IInv'
<1>0. TypeOK /\ RunOpen /\ EndReported
  BY DEF IInv
<1>1. /\ pc # "idle" /\ Acknowledge /\ run \in TerminalRun \cup {"none"}
      /\ UNCHANGED <<pipeline, run, taskRuns, ctxDone, storeFlaky, executed, announced>>
  BY <1>0 DEF AlreadyTerminal, Return, RunOpen
<1>2. TerminalAnnounced' /\ run' \in RunStatus \cup {"none"}
  BY <1>0, <1>1 DEF EndReported, TerminalAnnounced, TypeOK
<1>. QED
  BY <1>1, <1>2, ResetInv

\* A pipeline that does not sort fails its run before anything was announced.
LEMMA RejectCycleInv == ASSUME IInv, RejectCycle, UNCHANGED storeFlaky PROVE IInv'
<1>0. TypeOK /\ Published /\ EndReported
  BY DEF IInv
<1>1. /\ pc = "load" /\ HandBack
      /\ run' = "failed" \/ run' = run
      /\ UNCHANGED <<pipeline, taskRuns, ctxDone, storeFlaky, executed, announced>>
  BY DEF RejectCycle
<1>2. announced = {} /\ \A d \in Deliveries : executed[d] = {}
  BY <1>0 DEF RejectCycle, Published
<1>3. TerminalAnnounced' /\ run' \in RunStatus \cup {"none"}
  BY <1>0, <1>1, <1>2 DEF EndReported, TerminalAnnounced, TypeOK, RunStatus, TerminalRun
<1>. QED
  BY <1>1, <1>3, ResetInv

-----------------------------------------------------------------------------
(* Up to the task loop. *)

\* The run and its definition are read and the pipeline sorts.
LEMMA LoadInv == ASSUME IInv, Load, UNCHANGED storeFlaky PROVE IInv'
<1>0. TypeOK /\ JobHeld /\ RunOpen /\ Published /\ Loaded /\ Current /\ Settled
      /\ Failures /\ Executions /\ Ledger /\ AllVisited /\ EndReported
  BY DEF IInv
<1>1. /\ pc = "load" /\ pc' = "start" /\ run \in {"queued", "running"}
      /\ def' = pipeline /\ pipeline \in Pipelines /\ depth' \in Layerings(pipeline)
      /\ UNCHANGED <<pipeline, run, taskRuns, queueVars, local, cur, attempt, failed, ctxDone,
                     storeFlaky, executed, announced>>
  BY <1>0 DEF Load, TypeOK
<1>2. TypeOK'
  <2>1. depth' \in [Tasks -> 0..Cardinality(Tasks)]
    BY <1>1, LayeringOrder, TaskCount
  <2>. QED
    BY <1>0, <1>1, <2>1 DEF TypeOK, queueVars
<1>3. JobHeld' /\ RunOpen' /\ Published' /\ Loaded'
  BY <1>0, <1>1 DEF JobHeld, RunOpen, Published, Loaded, InLoop, queueVars, TerminalRun
<1>4. Current' /\ Settled' /\ Failures' /\ Ledger' /\ AllVisited'
  BY <1>1 DEF Current, Settled, Failures, Ledger, AllVisited, InLoop
<1>5. Executions'
  BY <1>0, <1>1 DEF Executions, InLoop, delivery, queueVars
<1>6. EndReported'
  BY <1>0, <1>1 DEF EndReported, TerminalAnnounced, AckedMeansFinished, queueVars
<1>. QED
  BY <1>2, <1>3, <1>4, <1>5, <1>6 DEF IInv

\* UpdateRun with the status running; the loop starts with nothing settled.
LEMMA MarkRunningInv == ASSUME IInv, MarkRunning, UNCHANGED storeFlaky PROVE IInv'
<1>0. TypeOK /\ JobHeld /\ RunOpen /\ Published /\ Loaded /\ Current /\ Settled
      /\ Failures /\ Executions /\ Ledger /\ AllVisited /\ EndReported
  BY DEF IInv
<1>1. /\ pc = "start" /\ pc' = "next" /\ run' = "running"
      /\ UNCHANGED <<pipeline, taskRuns, queueVars, loopVars, ctxDone, storeFlaky, executed, announced>>
  BY DEF MarkRunning
<1>2. local = [t \in Tasks |-> "none"] /\ ~failed /\ local' = local /\ failed' = failed
  BY <1>0, <1>1 DEF Loaded, loopVars
<1>3. TypeOK'
  BY <1>0, <1>1 DEF TypeOK, queueVars, loopVars, RunStatus
<1>4. JobHeld' /\ RunOpen' /\ Published' /\ Loaded'
  BY <1>0, <1>1 DEF JobHeld, RunOpen, Published, Loaded, InLoop, queueVars, loopVars, TerminalRun
<1>5. Current' /\ Settled' /\ Failures' /\ Ledger' /\ AllVisited'
  BY <1>1, <1>2 DEF Current, Settled, Failures, Ledger, AllVisited, InLoop
<1>6. Executions'
  BY <1>0, <1>1, <1>2 DEF Executions, InLoop, delivery, queueVars
<1>7. EndReported'
  BY <1>0, <1>1 DEF EndReported, TerminalAnnounced, AckedMeansFinished, queueVars, JobHeld, TerminalRun
<1>. QED
  BY <1>3, <1>4, <1>5, <1>6, <1>7 DEF IInv

-----------------------------------------------------------------------------
(* The task loop.  Seven actions enter a task into the map; what they have *)
(* in common is Settles.                                                   *)

\* Task t gets status s and its row in the ledger.
Settles(t, s) ==
    /\ pc \in {"next", "exec", "backoff", "skip"}
    /\ local[t] = "none"
    /\ \A d \in def.dependsOn[t] : d \in Tasks /\ local[d] # "none"
    /\ s # "skipped" => ~ShouldSkip(t)
    /\ s = "skipped" => ShouldSkip(t) \/ pc = "skip"
    /\ s = "running" => Attempts(def, t) < 1
    /\ local' = [local EXCEPT ![t] = s]
    /\ failed' = (failed \/ s = "failed")
    /\ pc' \in {"next", "skip"}
    /\ pc' = "skip" => pc = "skip" \/ (s = "failed" /\ def.failFast)
    /\ executed' = [executed EXCEPT ![delivery] = IF s = "succeeded" THEN @ \cup {t} ELSE @]
    /\ \E row \in TaskStatus \cup {"none"} :
          /\ taskRuns' = [taskRuns EXCEPT ![t] = row]
          /\ ~ctxDone /\ ~storeFlaky /\ run # "none" => row = s
    /\ UNCHANGED <<pipeline, run, queueVars, def, depth, cur, attempt, ctxDone, storeFlaky, announced>>

\* Whatever settles a task, the loop moves on by one, the task's row is the one
\* the ledger promises and a failure is counted.
LEMMA SettlesInv ==
    ASSUME IInv, NEW t \in Tasks, NEW s \in {"succeeded", "failed", "skipped", "running"}, Settles(t, s)
    PROVE  IInv'
<1>0. TypeOK /\ JobHeld /\ RunOpen /\ Published /\ Loaded /\ Current /\ Settled
      /\ Failures /\ Executions /\ Ledger /\ AllVisited /\ EndReported
  BY DEF IInv
<1>1. /\ InLoop /\ InLoop' /\ pc \in {"next", "exec", "backoff", "skip"} /\ pc' \in {"next", "skip"}
      /\ UNCHANGED <<pipeline, run, job, retried, def, depth, cur, attempt, ctxDone, storeFlaky, announced>>
      /\ def \in Pipelines /\ depth \in Layerings(def) /\ delivery' = delivery
  BY <1>0 DEF Settles, InLoop, queueVars, Loaded, delivery
<1>2. /\ local'[t] = s /\ local[t] = "none"
      /\ \A u \in Tasks \ {t} : local'[u] = local[u]
      /\ local' \in [Tasks -> TaskStatus \cup {"none"}]
  BY <1>0 DEF Settles, TypeOK, TaskStatus, TerminalTask
<1>3. \A u \in Tasks : def.dependsOn[u] \subseteq Tasks
  BY <1>1, RunnerAssumption DEF PipelineType
<1>4. delivery \in Deliveries
  BY <1>0, DeliveryInRange
<1>5. failed' \in BOOLEAN /\ (failed' <=> failed \/ s = "failed")
  BY <1>0 DEF Settles, TypeOK
<1>6. TypeOK'
  <2>1. taskRuns' \in [Tasks -> TaskStatus \cup {"none"}]
    BY <1>0 DEF Settles, TypeOK
  <2>2. executed' \in [Deliveries -> SUBSET Tasks]
    BY <1>0 DEF Settles, TypeOK
  <2>. QED
    BY <1>0, <1>1, <1>2, <1>5, <2>1, <2>2 DEF TypeOK
<1>7. JobHeld' /\ RunOpen' /\ Published' /\ Loaded' /\ Current' /\ AllVisited'
  BY <1>0, <1>1 DEF JobHeld, RunOpen, Published, Loaded, Current, AllVisited, InLoop
<1>8. \A u \in Tasks : ShouldSkip(u)' => ShouldSkip(u)
  BY <1>1, <1>2, <1>3 DEF ShouldSkip
<1>9. \A u \in Tasks : ~ShouldSkip(u) => ~ShouldSkip(u)'
  BY <1>1, <1>2, <1>3 DEF ShouldSkip
<1>10. Settled'
  BY <1>0, <1>1, <1>2, <1>9 DEF Settles, Settled
<1>11. Failures'
  <2>1. failed' <=> \E u \in Tasks : local'[u] = "failed"
    BY <1>0, <1>1, <1>2, <1>5 DEF Failures
  <2>2. pc' = "skip" => def'.failFast /\ failed'
    BY <1>0, <1>1, <1>5 DEF Failures, Settles
  <2>3. ASSUME Attempted(def), NEW u \in Tasks, local'[u] = "skipped"
        PROVE  failed' /\ (def.failFast \/ \E a \in Ancestors(def, u) : local'[a] = "failed")
    <3>1. \A v \in Tasks : local[v] = "failed" => local'[v] = "failed"
      BY <1>2
    <3>2. \A v \in Tasks : Ancestors(def, v) \subseteq Tasks
      BY DEF Ancestors
    <3>3. CASE u # t
      BY <1>0, <1>1, <1>2, <1>5, <2>3, <3>1, <3>2, <3>3 DEF Failures
    <3>4. CASE u = t /\ pc = "skip"
      BY <1>0, <1>1, <1>5, <3>4 DEF Failures
    <3>5. CASE u = t /\ ShouldSkip(t)
      <4>1. PICK d \in def.dependsOn[t] : local[d] # "succeeded"
        BY <3>5 DEF ShouldSkip
      <4>2. d \in Tasks /\ local[d] # "none"
        BY DEF Settles
      <4>3. Attempts(def, d) \in Int /\ Attempts(def, d) >= 1
        BY <1>1, <2>3, <4>2, AttemptsInt DEF Attempted
      <4>4. local[d] \in {"failed", "skipped"}
        BY <1>0, <1>1, <4>1, <4>2, <4>3 DEF Settled, TypeOK, TaskStatus, TerminalTask
      <4>5. d \in Ancestors(def, t) /\ Ancestors(def, d) \subseteq Ancestors(def, t)
        BY <1>1, AncestorsClosed, RunnerAssumption
      <4>. QED
        BY <1>0, <1>1, <1>5, <2>3, <3>1, <3>2, <3>5, <4>2, <4>4, <4>5 DEF Failures
    <3>. QED
      BY <1>2, <2>3, <3>3, <3>4, <3>5 DEF Settles
  <2>. QED
    BY <1>1, <2>1, <2>2, <2>3 DEF Failures
<1>12. Executions'
  <2>1. executed'[delivery] = {u \in Tasks : local'[u] = "succeeded"}
    BY <1>0, <1>1, <1>2, <1>4 DEF Settles, Executions, TypeOK
  <2>2. \A d \in Deliveries : d > delivery => executed'[d] = {}
    BY <1>0, <1>4, DeliveryInRange DEF Settles, Executions, TypeOK
  <2>. QED
    BY <1>0, <1>1, <2>1, <2>2 DEF Executions, JobHeld
<1>13. Ledger'
  <2>1. PICK row \in TaskStatus \cup {"none"} :
            /\ taskRuns' = [taskRuns EXCEPT ![t] = row]
            /\ ~ctxDone /\ ~storeFlaky /\ run # "none" => row = s
    BY DEF Settles
  <2>2. taskRuns'[t] = row /\ \A u \in Tasks \ {t} : taskRuns'[u] = taskRuns[u]
    BY <1>0, <2>1 DEF TypeOK
  <2>. QED
    BY <1>0, <1>1, <1>2, <2>1, <2>2 DEF Ledger
<1>14. EndReported'
  <2>1. run \notin TerminalRun /\ job = "taken"
    BY <1>0, <1>1 DEF RunOpen, JobHeld
  <2>. QED
    BY <1>1, <2>1 DEF EndReported, TerminalAnnounced, AckedMeansFinished, TerminalRun
<1>. QED
  BY <1>6, <1>7, <1>10, <1>11, <1>12, <1>13, <1>14 DEF IInv

\* A row created and updated has its final status unless a call may fail.
LEMMA FinishedRow ==
    ASSUME TypeOK, NEW t \in Tasks, NEW s \in TerminalTask, CreateAndFinishRow(t, s)
    PROVE  \E row \in TaskStatus \cup {"none"} :
              /\ taskRuns' = [taskRuns EXCEPT ![t] = row]
              /\ ~ctxDone /\ ~storeFlaky /\ run # "none" => row = s
<1>1. PICK created \in BOOLEAN, updated \in BOOLEAN :
          /\ StoreOk(created) /\ StoreOk(updated)
          /\ taskRuns' = [taskRuns EXCEPT ![t] = RowAfterUpdate(RowAfterCreate(created), s, updated)]
  BY DEF CreateAndFinishRow, SetRow
<1>2. RowAfterUpdate(RowAfterCreate(created), s, updated) \in TaskStatus \cup {"none"}
  BY DEF RowAfterUpdate, RowAfterCreate, TaskStatus, TerminalTask
<1>3. ~ctxDone /\ ~storeFlaky => created /\ updated
  BY <1>1 DEF StoreOk
<1>4. created /\ updated /\ run # "none" => RowAfterUpdate(RowAfterCreate(created), s, updated) = s
  BY DEF RowAfterUpdate, RowAfterCreate
<1>. QED
  BY <1>1, <1>2, <1>3, <1>4

\* A row that is there is updated unless a call may fail.
LEMMA UpdatedRow ==
    ASSUME TypeOK, NEW s \in TaskStatus, cur \in Tasks, UpdateRow(s)
    PROVE  \E row \in TaskStatus \cup {"none"} :
              /\ taskRuns' = [taskRuns EXCEPT ![cur] = row]
              /\ ~ctxDone /\ ~storeFlaky /\ taskRuns[cur] # "none" => row = s
<1>1. PICK ok \in BOOLEAN :
          StoreOk(ok) /\ taskRuns' = [taskRuns EXCEPT ![cur] = RowAfterUpdate(taskRuns[cur], s, ok)]
  BY DEF UpdateRow, SetRow
<1>2. RowAfterUpdate(taskRuns[cur], s, ok) \in TaskStatus \cup {"none"}
  BY DEF RowAfterUpdate, TypeOK
<1>3. ~ctxDone /\ ~storeFlaky => ok
  BY <1>1 DEF StoreOk
<1>4. ok /\ taskRuns[cur] # "none" => RowAfterUpdate(taskRuns[cur], s, ok) = s
  BY DEF RowAfterUpdate
<1>. QED
  BY <1>1, <1>2, <1>3, <1>4

\* The actions that deal with the next task at once.
LEMMA NextTaskSettles ==
    ASSUME IInv, NEW t \in Tasks, UNCHANGED storeFlaky
    PROVE  /\ SkipTask(t) => Settles(t, "skipped")
           /\ NoExecutor(t) => Settles(t, "failed")
           /\ NoAttempts(t) => Settles(t, "running")
           /\ SkipRemaining(t) => Settles(t, "skipped")
<1>0. TypeOK /\ Loaded
  BY DEF IInv
<1>1. executed = [executed EXCEPT ![delivery] = @]
  BY <1>0 DEF TypeOK
<1>2. ASSUME pc \in {"next", "skip"}, IsNext(t)
      PROVE  local[t] = "none" /\ \A d \in def.dependsOn[t] : d \in Tasks /\ local[d] # "none"
  <2>1. def \in Pipelines /\ depth \in Layerings(def)
    BY <1>0, <1>2 DEF Loaded, InLoop
  <2>. QED
    BY <1>0, <1>2, <2>1, DependenciesVisited DEF IsNext, Visited
<1>3. ASSUME SkipTask(t) PROVE Settles(t, "skipped")
  <2>1. \E row \in TaskStatus \cup {"none"} :
            /\ taskRuns' = [taskRuns EXCEPT ![t] = row]
            /\ ~ctxDone /\ ~storeFlaky /\ run # "none" => row = "skipped"
    BY <1>0, <1>3, FinishedRow DEF SkipTask, TerminalTask
  <2>. QED
    BY <1>0, <1>1, <1>2, <1>3, <2>1 DEF SkipTask, Settles, TypeOK
<1>4. ASSUME NoExecutor(t) PROVE Settles(t, "failed")
  <2>1. \E row \in TaskStatus \cup {"none"} :
            /\ taskRuns' = [taskRuns EXCEPT ![t] = row]
            /\ ~ctxDone /\ ~storeFlaky /\ run # "none" => row = "failed"
    BY <1>0, <1>4, FinishedRow DEF NoExecutor, TerminalTask
  <2>. QED
    BY <1>0, <1>1, <1>2, <1>4, <2>1 DEF NoExecutor, TaskFails, Settles, TypeOK
<1>5. ASSUME NoAttempts(t) PROVE Settles(t, "running")
  <2>1. \E row \in TaskStatus \cup {"none"} :
            /\ taskRuns' = [taskRuns EXCEPT ![t] = row]
            /\ ~ctxDone /\ ~storeFlaky /\ run # "none" => row = "running"
    BY <1>5 DEF NoAttempts, SetRow, RowAfterCreate, StoreOk, TaskStatus
  <2>. QED
    BY <1>0, <1>1, <1>2, <1>5, <2>1 DEF NoAttempts, Settles, TypeOK
<1>6. ASSUME SkipRemaining(t) PROVE Settles(t, "skipped")
  <2>1. \E row \in TaskStatus \cup {"none"} :
            /\ taskRuns' = [taskRuns EXCEPT ![t] = row]
            /\ ~ctxDone /\ ~storeFlaky /\ run # "none" => row = "skipped"
    BY <1>0, <1>6, FinishedRow DEF SkipRemaining, TerminalTask
  <2>. QED
    BY <1>0, <1>1, <1>2, <1>6, <2>1 DEF SkipRemaining, Settles, TypeOK
<1>. QED
  BY <1>3, <1>4, <1>5, <1>6

\* The actions that end the execution of a task.
LEMMA ExecutionSettles ==
    ASSUME IInv, UNCHANGED storeFlaky
    PROVE  /\ ExecuteSucceeds => cur \in Tasks /\ Settles(cur, "succeeded")
           /\ ExecuteExhausted => cur \in Tasks /\ Settles(cur, "failed")
           /\ BackoffCancelled => cur \in Tasks /\ Settles(cur, "failed")
<1>0. TypeOK /\ Loaded /\ Current /\ Ledger
  BY DEF IInv
<1>1. executed = [executed EXCEPT ![delivery] = @]
  BY <1>0 DEF TypeOK
<1>2. ASSUME pc \in {"exec", "backoff"}
      PROVE  /\ cur \in Tasks
             /\ local[cur] = "none"
             /\ ~ShouldSkip(cur)
             /\ \A d \in def.dependsOn[cur] : d \in Tasks /\ local[d] # "none"
             /\ ~ctxDone /\ ~storeFlaky /\ run # "none" => taskRuns[cur] # "none"
  <2>1. def \in PipelineType
    BY <1>0, <1>2, RunnerAssumption DEF Loaded, InLoop
  <2>2. cur \in Tasks /\ def.dependsOn[cur] \subseteq Tasks
    BY <1>0, <1>2, <2>1 DEF Current, PipelineType
  <2>. QED
    BY <1>0, <1>2, <2>2 DEF Current, ShouldSkip, Ledger, InLoop
<1>3. ASSUME ExecuteSucceeds PROVE cur \in Tasks /\ Settles(cur, "succeeded")
  <2>1. cur \in Tasks /\ pc = "exec"
    BY <1>2, <1>3 DEF ExecuteSucceeds
  <2>2. \E row \in TaskStatus \cup {"none"} :
            /\ taskRuns' = [taskRuns EXCEPT ![cur] = row]
            /\ ~ctxDone /\ ~storeFlaky /\ run # "none" => row = "succeeded"
    BY <1>0, <1>2, <1>3, <2>1, UpdatedRow DEF ExecuteSucceeds, TaskStatus, TerminalTask
  <2>. QED
    BY <1>0, <1>2, <1>3, <2>1, <2>2 DEF ExecuteSucceeds, Settles, TypeOK
<1>4. ASSUME ExecuteExhausted \/ BackoffCancelled PROVE cur \in Tasks /\ Settles(cur, "failed")
  <2>1. cur \in Tasks /\ pc \in {"exec", "backoff"}
    BY <1>2, <1>4 DEF ExecuteExhausted, BackoffCancelled
  <2>2. \E row \in TaskStatus \cup {"none"} :
            /\ taskRuns' = [taskRuns EXCEPT ![cur] = row]
            /\ ~ctxDone /\ ~storeFlaky /\ run # "none" => row = "failed"
    BY <1>0, <1>2, <1>4, <2>1, UpdatedRow DEF ExecuteExhausted, BackoffCancelled, TaskStatus, TerminalTask
  <2>. QED
    BY <1>0, <1>1, <1>2, <1>4, <2>1, <2>2 DEF ExecuteExhausted, BackoffCancelled, TaskFails, Settles, TypeOK
<1>. QED
  BY <1>3, <1>4

\* The row of the next task is created and its first attempt begins.
LEMMA StartTaskInv == ASSUME IInv, NEW t \in Tasks, StartTask(t), UNCHANGED storeFlaky PROVE IInv'
<1>0. TypeOK /\ JobHeld /\ RunOpen /\ Published /\ Loaded /\ Current /\ Settled
      /\ Failures /\ Executions /\ Ledger /\ AllVisited /\ EndReported
  BY DEF IInv
<1>1. /\ pc = "next" /\ pc' = "exec" /\ cur' = t /\ attempt' = 1 /\ IsNext(t) /\ ~ShouldSkip(t)
      /\ t \in def.executors /\ Attempts(def, t) >= 1
      /\ UNCHANGED <<pipeline, run, job, retried, def, depth, local, failed, ctxDone, storeFlaky, executed, announced>>
  BY DEF StartTask, queueVars
<1>2. PICK row \in {"running", "none"} :
          /\ taskRuns' = [taskRuns EXCEPT ![t] = row]
          /\ ~ctxDone /\ ~storeFlaky /\ run # "none" => row = "running"
  BY DEF StartTask, SetRow, RowAfterCreate, StoreOk
<1>3. local[t] = "none" /\ taskRuns'[t] = row /\ \A u \in Tasks \ {t} : taskRuns'[u] = taskRuns[u]
  BY <1>0, <1>1, <1>2 DEF TypeOK, IsNext, Visited
<1>4. TypeOK'
  <2>1. taskRuns' \in [Tasks -> TaskStatus \cup {"none"}]
    BY <1>0, <1>2 DEF TypeOK, TaskStatus
  <2>. QED
    BY <1>0, <1>1, <2>1 DEF TypeOK
<1>5. JobHeld' /\ RunOpen' /\ Published' /\ Loaded' /\ AllVisited' /\ Executions'
  BY <1>0, <1>1 DEF JobHeld, RunOpen, Published, Loaded, AllVisited, Executions, InLoop, delivery
<1>6. Current' /\ Settled' /\ Failures'
  BY <1>0, <1>1, <1>3 DEF Current, Settled, Failures, ShouldSkip, InLoop
<1>7. Ledger'
  BY <1>0, <1>1, <1>2, <1>3 DEF Ledger, InLoop
<1>8. EndReported'
  BY <1>0, <1>1 DEF EndReported, TerminalAnnounced, AckedMeansFinished
<1>. QED
  BY <1>4, <1>5, <1>6, <1>7, <1>8 DEF IInv

\* An attempt fails with attempts left: the task waits for its backoff.
LEMMA ExecuteFailsInv == ASSUME IInv, ExecuteFails, UNCHANGED storeFlaky PROVE IInv'
<1>0. TypeOK /\ JobHeld /\ RunOpen /\ Published /\ Loaded /\ Current /\ Settled
      /\ Failures /\ Executions /\ Ledger /\ AllVisited /\ EndReported
  BY DEF IInv
<1>1. /\ pc = "exec" /\ pc' = "backoff" /\ attempt < Attempts(def, cur)
      /\ UNCHANGED <<pipeline, run, taskRuns, job, retried, def, depth, local, cur, attempt, failed, ctxDone,
                     storeFlaky, executed, announced>>
  BY DEF ExecuteFails, queueVars, loopVars
<1>2. TypeOK'
  BY <1>0, <1>1 DEF TypeOK
<1>3. JobHeld' /\ RunOpen' /\ Published' /\ Loaded' /\ AllVisited' /\ Executions'
  BY <1>0, <1>1 DEF JobHeld, RunOpen, Published, Loaded, AllVisited, Executions, InLoop, delivery
<1>4. Current' /\ Settled' /\ Failures' /\ Ledger'
  BY <1>0, <1>1 DEF Current, Settled, Failures, Ledger, ShouldSkip, InLoop
<1>5. EndReported'
  BY <1>0, <1>1 DEF EndReported, TerminalAnnounced, AckedMeansFinished
<1>. QED
  BY <1>2, <1>3, <1>4, <1>5 DEF IInv

\* The retry is counted up to the number of attempts.
LEMMA BackoffElapsesInv == ASSUME IInv, BackoffElapses, UNCHANGED storeFlaky PROVE IInv'
<1>0. TypeOK /\ JobHeld /\ RunOpen /\ Published /\ Loaded /\ Current /\ Settled
      /\ Failures /\ Executions /\ Ledger /\ AllVisited /\ EndReported
  BY DEF IInv
<1>1. /\ pc = "backoff" /\ pc' = "exec" /\ attempt' = attempt + 1
      /\ UNCHANGED <<pipeline, run, job, retried, def, depth, local, cur, failed, ctxDone,
                     storeFlaky, executed, announced>>
  BY DEF BackoffElapses, queueVars
<1>2. /\ def \in Pipelines /\ cur \in def.executors /\ local[cur] = "none" /\ ~ShouldSkip(cur)
      /\ attempt < Attempts(def, cur)
  BY <1>0, <1>1 DEF Loaded, Current, InLoop
<1>3. cur \in Tasks
  BY <1>2, RunnerAssumption DEF PipelineType
<1>4. PICK row \in TaskStatus \cup {"none"} :
          /\ taskRuns' = [taskRuns EXCEPT ![cur] = row]
          /\ ~ctxDone /\ ~storeFlaky /\ taskRuns[cur] # "none" => row = "retrying"
  BY <1>0, <1>3, UpdatedRow DEF BackoffElapses, TaskStatus
<1>5. taskRuns'[cur] = row /\ \A u \in Tasks \ {cur} : taskRuns'[u] = taskRuns[u]
  BY <1>0, <1>3, <1>4 DEF TypeOK
<1>6. attempt' \in Nat /\ attempt' <= Attempts(def, cur)
  <2>1. PICK n \in Nat : n = attempt
    BY <1>0 DEF TypeOK
  <2>2. n + 1 \in Nat /\ n + 1 <= Attempts(def, cur)
    BY <1>2, <1>3, <2>1, AttemptsInt
  <2>. QED
    BY <1>1, <2>1, <2>2
<1>7. TypeOK'
  <2>1. taskRuns' \in [Tasks -> TaskStatus \cup {"none"}]
    BY <1>0, <1>4 DEF TypeOK
  <2>. QED
    BY <1>0, <1>1, <1>6, <2>1 DEF TypeOK
<1>8. JobHeld' /\ RunOpen' /\ Published' /\ Loaded' /\ AllVisited' /\ Executions'
  BY <1>0, <1>1 DEF JobHeld, RunOpen, Published, Loaded, AllVisited, Executions, InLoop, delivery
<1>9. Current' /\ Settled' /\ Failures'
  BY <1>0, <1>1, <1>2, <1>6 DEF Current, Settled, Failures, ShouldSkip, InLoop
<1>10. Ledger'
  BY <1>0, <1>1, <1>2, <1>4, <1>5 DEF Ledger, InLoop
<1>11. EndReported'
  BY <1>0, <1>1 DEF EndReported, TerminalAnnounced, AckedMeansFinished
<1>. QED
  BY <1>7, <1>8, <1>9, <1>10, <1>11 DEF IInv

-----------------------------------------------------------------------------
(* The outcome. *)

\* The loop is over: the outcome goes to the bus, and the row is not written yet.
LEMMA PublishOutcomeInv == ASSUME IInv, PublishOutcome, UNCHANGED storeFlaky PROVE IInv'
<1>0. TypeOK /\ JobHeld /\ RunOpen /\ Published /\ Loaded /\ Current /\ Settled
      /\ Failures /\ Executions /\ Ledger /\ AllVisited /\ EndReported
  BY DEF IInv
<1>1. /\ pc \in {"next", "skip"} /\ pc' = "save" /\ Visited = Tasks
      /\ announced' = announced \cup {Outcome} /\ Outcome' = Outcome
      /\ UNCHANGED <<pipeline, run, taskRuns, job, retried, def, depth, local, cur, attempt, failed, ctxDone,
                     storeFlaky, executed>>
  BY DEF PublishOutcome, queueVars, loopVars, Outcome
<1>2. TypeOK'
  BY <1>0, <1>1 DEF TypeOK, Outcome, TerminalRun
<1>3. JobHeld' /\ RunOpen' /\ Published' /\ Loaded' /\ AllVisited' /\ Executions'
  BY <1>0, <1>1 DEF JobHeld, RunOpen, Published, Loaded, AllVisited, Visited, Executions, InLoop, delivery
<1>4. Current' /\ Settled' /\ Failures' /\ Ledger'
  BY <1>0, <1>1 DEF Current, Settled, Failures, Ledger, ShouldSkip, InLoop
<1>5. EndReported'
  BY <1>0, <1>1 DEF EndReported, TerminalAnnounced, AckedMeansFinished, RunOpen, InLoop, TerminalRun
<1>. QED
  BY <1>2, <1>3, <1>4, <1>5 DEF IInv

\* What is saved has been announced.
LEMMA SaveOutcomeInv == ASSUME IInv, SaveOutcome, UNCHANGED storeFlaky PROVE IInv'
<1>0. TypeOK /\ JobHeld /\ RunOpen /\ Published /\ Loaded /\ Current /\ Settled
      /\ Failures /\ Executions /\ Ledger /\ AllVisited /\ EndReported
  BY DEF IInv
<1>1. /\ pc = "save" /\ pc' = "return" /\ run' = Outcome /\ Outcome \in announced /\ Outcome \in TerminalRun
      /\ UNCHANGED <<pipeline, taskRuns, job, retried, def, depth, local, cur, attempt, failed, ctxDone,
                     storeFlaky, executed, announced>>
  BY <1>0 DEF SaveOutcome, queueVars, loopVars, Published, Outcome, TerminalRun
<1>2. TypeOK'
  BY <1>0, <1>1 DEF TypeOK, RunStatus
<1>3. JobHeld' /\ RunOpen' /\ Published' /\ Loaded' /\ AllVisited' /\ Executions'
  BY <1>0, <1>1 DEF JobHeld, RunOpen, Published, Loaded, AllVisited, Executions, InLoop, delivery
<1>4. Current' /\ Settled' /\ Failures' /\ Ledger'
  BY <1>1 DEF Current, Settled, Failures, Ledger, InLoop
<1>5. EndReported'
  BY <1>0, <1>1 DEF EndReported, TerminalAnnounced, AckedMeansFinished
<1>. QED
  BY <1>2, <1>3, <1>4, <1>5 DEF IInv

-----------------------------------------------------------------------------
(* The environment. *)

\* The context is cancelled: from here on rows may differ from the ledger.
LEMMA CancelContextInv == ASSUME IInv, CancelContext, UNCHANGED storeFlaky PROVE IInv'
<1>0. TypeOK /\ JobHeld /\ RunOpen /\ Published /\ Loaded /\ Current /\ Settled
      /\ Failures /\ Executions /\ Ledger /\ AllVisited /\ EndReported
  BY DEF IInv
<1>1. /\ ctxDone' = TRUE
      /\ UNCHANGED <<pipeline, run, taskRuns, job, retried, pc, def, depth, local, cur, attempt, failed,
                     storeFlaky, executed, announced>>
  BY DEF CancelContext, queueVars, loopVars
<1>2. TypeOK'
  BY <1>0, <1>1 DEF TypeOK
<1>3. JobHeld' /\ RunOpen' /\ Published' /\ Loaded' /\ AllVisited' /\ Executions'
  BY <1>0, <1>1 DEF JobHeld, RunOpen, Published, Outcome, Loaded, AllVisited, Visited, Executions, InLoop, delivery
<1>4. Current' /\ Settled' /\ Failures' /\ Ledger'
  BY <1>0, <1>1 DEF Current, Settled, Failures, Ledger, ShouldSkip, InLoop
<1>5. EndReported'
  BY <1>0, <1>1 DEF EndReported, TerminalAnnounced, AckedMeansFinished
<1>. QED
  BY <1>2, <1>3, <1>4, <1>5 DEF IInv

\* The definition changes under the delivery, which keeps the one it loaded; the
\* rows go with a deleted pipeline.
LEMMA PipelineChangesInv ==
    ASSUME IInv, DeletePipeline \/ \E p \in Pipelines : UpdatePipeline(p), UNCHANGED storeFlaky
    PROVE  IInv'
<1>0. TypeOK /\ JobHeld /\ RunOpen /\ Published /\ Loaded /\ Current /\ Settled
      /\ Failures /\ Executions /\ Ledger /\ AllVisited /\ EndReported
  BY DEF IInv
<1>1. /\ pipeline' \in Pipelines \cup {NoPipeline}
      /\ pipeline' # NoPipeline => Layerings(pipeline') # {}
      /\ \/ run' = run /\ taskRuns' = taskRuns
         \/ run' = "none" /\ taskRuns' = [t \in Tasks |-> "none"]
      /\ UNCHANGED <<job, retried, pc, def, depth, local, cur, attempt, failed, ctxDone,
                     storeFlaky, executed, announced>>
  BY DEF DeletePipeline, UpdatePipeline, queueVars, loopVars, NoRows
<1>2. TypeOK'
  <2>1. taskRuns' \in [Tasks -> TaskStatus \cup {"none"}] /\ run' \in RunStatus \cup {"none"}
    BY <1>0, <1>1 DEF TypeOK
  <2>. QED
    BY <1>0, <1>1, <2>1 DEF TypeOK
<1>3. JobHeld' /\ RunOpen' /\ Published' /\ Loaded' /\ AllVisited' /\ Executions'
  BY <1>0, <1>1 DEF JobHeld, RunOpen, Published, Outcome, Loaded, AllVisited, Visited, Executions, InLoop, delivery,
     TerminalRun
<1>4. Current' /\ Settled' /\ Failures' /\ Ledger'
  BY <1>0, <1>1 DEF Current, Settled, Failures, Ledger, ShouldSkip, InLoop
<1>5. EndReported'
  BY <1>0, <1>1 DEF EndReported, TerminalAnnounced, AckedMeansFinished
<1>. QED
  BY <1>2, <1>3, <1>4, <1>5 DEF IInv

-----------------------------------------------------------------------------
(* The theorems. *)

\* Every step of the runner, the queue and the environment keeps the invariant.
LEMMA StepInv == IInv /\ [Next]_vars => IInv'
<1> SUFFICES ASSUME IInv, [Next]_vars PROVE IInv'
  OBVIOUS
<1>1. CASE UNCHANGED vars
  BY <1>1 DEF vars, queueVars, loopVars, IInv, TypeOK, JobHeld, RunOpen, Published, Outcome, Loaded, Current, Settled,
     Failures, Executions, Ledger, AllVisited, Visited, InLoop, ShouldSkip, delivery, EndReported, TerminalAnnounced,
     AckedMeansFinished
<1>2. CASE UNCHANGED storeFlaky /\ RunnerStep
  <2>1. ASSUME NEW t \in Tasks, SkipTask(t) \/ NoExecutor(t) \/ NoAttempts(t) \/ SkipRemaining(t) PROVE IInv'
    BY <1>2, <2>1, NextTaskSettles, SettlesInv
  <2>2. CASE ExecuteSucceeds \/ ExecuteExhausted \/ BackoffCancelled
    BY <1>2, <2>2, ExecutionSettles, SettlesInv
  <2>. QED
    BY <1>2, <2>1, <2>2, DeliverInv, GivenUpInv, AcknowledgedInv, RejectCycleInv, LoadInv, MarkRunningInv,
       StartTaskInv, ExecuteFailsInv, BackoffElapsesInv, PublishOutcomeInv, SaveOutcomeInv DEF RunnerStep
<1>3. CASE UNCHANGED storeFlaky /\ Environment
  BY <1>3, CancelContextInv, GivenUpInv, PipelineChangesInv DEF Environment
<1>. QED
  BY <1>1, <1>2, <1>3 DEF Next

\* The inductive invariant holds throughout RunOnce, whatever is redelivered.
THEOREM Invariance == Spec => []IInv
BY InitInv, StepInv, PTL DEF Spec

\* Every variable of the runner keeps its type, for any pipelines and any number
\* of redeliveries.
THEOREM TypeCorrect == Spec => []TypeOK
<1>1. IInv => TypeOK
  BY DEF IInv
<1>. QED
  BY <1>1, Invariance, PTL

\* The end of a run reaches the bus before the row, and the row before the queue
\* (RunOnce, done).
THEOREM EndIsReported == Spec => []EndReported
<1>1. IInv => EndReported
  BY DEF IInv
<1>. QED
  BY <1>1, Invariance, PTL

\* What is stored of a run is what its executors did: the outcome, the skipped
\* tasks, and the ledger when no store call can fail (RunOnce, skipRemaining).
THEOREM RecordIsFaithful == Spec => []RecordFaithful
<1>1. ASSUME IInv, pc = "save", Attempted(def)
      PROVE  /\ InLoop /\ def \in Pipelines
             /\ \A t \in Tasks : local[t] \in TerminalTask
  <2>1. InLoop /\ def \in Pipelines /\ Visited = Tasks /\ TypeOK /\ Settled
    BY <1>1 DEF IInv, InLoop, Loaded, AllVisited
  <2>2. \A t \in Tasks : Attempts(def, t) \in Int /\ Attempts(def, t) >= 1
    BY <1>1, <2>1, AttemptsInt DEF Attempted
  <2>3. \A t \in Tasks : local[t] # "none"
    BY <2>1 DEF Visited
  <2>. QED
    BY <2>1, <2>2, <2>3 DEF Settled, TypeOK, TaskStatus, TerminalTask
<1>2. ASSUME IInv PROVE OutcomeFaithful
  <2> SUFFICES ASSUME pc = "save", Attempted(def)
               PROVE  /\ Outcome = "succeeded" <=> executed[delivery] = Tasks
                      /\ ~def.failFast =>
                            \A t \in Tasks : local[t] = "skipped" <=>
                                \E a \in Ancestors(def, t) : local[a] = "failed"
    BY DEF OutcomeFaithful
  <2>0. /\ InLoop /\ def \in Pipelines /\ Settled /\ Failures /\ Executions /\ TypeOK
        /\ \A t \in Tasks : local[t] \in TerminalTask
    BY <1>1, <1>2 DEF IInv
  <2>1. Outcome = "succeeded" <=> executed[delivery] = Tasks
    <3>1. Outcome = "succeeded" <=> ~failed
      BY DEF Outcome
    <3>2. executed[delivery] = {t \in Tasks : local[t] = "succeeded"}
      BY <2>0 DEF Executions
    <3>3. failed <=> \E t \in Tasks : local[t] \in {"failed", "skipped"}
      BY <2>0 DEF Failures
    <3>. QED
      BY <2>0, <3>1, <3>2, <3>3 DEF TerminalTask
  <2>2. ASSUME ~def.failFast, NEW t \in Tasks, local[t] = "skipped"
        PROVE  \E a \in Ancestors(def, t) : local[a] = "failed"
    BY <2>0, <2>2 DEF Failures
  <2>3. ASSUME NEW t \in Tasks, local[t] # "skipped", NEW a \in Ancestors(def, t)
        PROVE  local[a] # "failed"
    <3> DEFINE Fine == {u \in Tasks : local[u] = "succeeded"}
    <3>1. \A u \in Tasks : local[u] \in {"succeeded", "failed"} => def.dependsOn[u] \subseteq Fine
      <4>1. \A u \in Tasks : def.dependsOn[u] \subseteq Tasks
        BY <2>0, RunnerAssumption DEF PipelineType
      <4>. QED
        BY <2>0, <4>1 DEF Settled, ShouldSkip
    <3>2. def.dependsOn[t] \subseteq Fine /\ \A u \in Fine : def.dependsOn[u] \subseteq Fine
      BY <2>0, <2>3, <3>1 DEF TerminalTask
    <3>3. Ancestors(def, t) \subseteq Fine
      BY <3>2, AncestorsLeast
    <3>. QED
      BY <2>3, <3>3
  <2>. QED
    BY <2>1, <2>2, <2>3
<1>3. ASSUME IInv PROVE LedgerComplete
  <2> SUFFICES ASSUME pc = "save", Attempted(def), ~ctxDone, ~storeFlaky, run # "none", NEW t \in Tasks
               PROVE  taskRuns[t] = local[t] /\ local[t] \in TerminalTask
    BY DEF LedgerComplete
  <2>1. InLoop /\ Ledger /\ local[t] \in TerminalTask
    BY <1>1, <1>3 DEF IInv
  <2>. QED
    BY <2>1 DEF Ledger, TerminalTask
<1>. QED
  BY <1>2, <1>3, Invariance, PTL DEF RecordFaithful

-----------------------------------------------------------------------------
(* Refinement. *)

\* A task that is settled is settled in the abstract execution, for the reason
\* DagExecution gives.
LEMMA SettlesRefines ==
    ASSUME IInv, NEW t \in Tasks, NEW s \in {"succeeded", "failed", "skipped", "running"}, Settles(t, s)
    PROVE  Dag!Next
<1>0. TypeOK /\ Loaded /\ Settled /\ Failures
  BY DEF IInv
<1>1. InLoop /\ def \in Pipelines /\ def # NoPipeline /\ def' = def
  BY <1>0, RunnerAssumption DEF Settles, InLoop, Loaded
<1>2. Dag!Settle(t, s)
  BY <1>1 DEF Settles, Dag!Settle
<1>3. s # "skipped" => \A d \in def.dependsOn[t] : local[d] = "succeeded"
  BY DEF Settles, ShouldSkip
<1>4. CASE s \in {"succeeded", "failed"}
  BY <1>1, <1>2, <1>3, <1>4 DEF Dag!Next, Dag!Execute
<1>5. CASE s = "running"
  <2>1. def.maxAttempts[t] < 0
    BY <1>1, <1>5, AttemptsInt DEF Settles
  <2>. QED
    BY <1>1, <1>2, <1>3, <1>5, <2>1 DEF Dag!Next, Dag!Starve
<1>6. CASE s = "skipped"
  <2>1. CASE ShouldSkip(t)
    <3>1. PICK d \in def.dependsOn[t] : local[d] # "succeeded"
      BY <2>1 DEF ShouldSkip
    <3>2. local[d] \in {"failed", "skipped", "running"}
      BY <1>0, <1>1, <3>1 DEF Settles, Settled, TypeOK, TaskStatus, TerminalTask
    <3>. QED
      BY <1>1, <1>2, <1>6, <3>2 DEF Dag!Next, Dag!Skip
  <2>2. CASE pc = "skip"
    <3>1. def.failFast /\ \E u \in Tasks : local[u] = "failed"
      BY <1>0, <1>1, <2>2 DEF Failures
    <3>. QED
      BY <1>1, <1>2, <1>6, <3>1 DEF Dag!Next, Dag!Skip
  <2>. QED
    BY <1>6, <2>1, <2>2 DEF Settles
<1>. QED
  BY <1>4, <1>5, <1>6

\* Every step of the runner, the queue or the environment is a step of the
\* abstract execution, or none.
LEMMA StepRefines == IInv /\ [Next]_vars => [Dag!Next]_(Dag!vars)
<1> SUFFICES ASSUME IInv, [Next]_vars PROVE Dag!Next \/ UNCHANGED <<def, local>>
  BY DEF Dag!vars
<1>1. CASE UNCHANGED vars
  BY <1>1 DEF vars, loopVars
<1>2. ASSUME HandBack \/ Acknowledge PROVE Dag!Next
  BY <1>2 DEF HandBack, Acknowledge, NoLoop, Dag!Next, Dag!End, Dag!Pending
<1>3. CASE LoadFails \/ MarkRunningFails \/ SaveOutcomeFails \/ Crash \/ RejectCycle \/ AlreadyTerminal \/ Return
  BY <1>2, <1>3 DEF LoadFails, MarkRunningFails, SaveOutcomeFails, Crash, RejectCycle, AlreadyTerminal, Return
<1>4. CASE Load
  <2>1. def = NoPipeline /\ def' = pipeline /\ pipeline # NoPipeline /\ local' = local
    BY <1>4 DEF Load, IInv, Loaded
  <2>. QED
    BY <2>1 DEF Dag!Next, Dag!Begin
<1>5. ASSUME UNCHANGED storeFlaky, NEW t \in Tasks, SkipTask(t) \/ NoExecutor(t) \/ NoAttempts(t) \/ SkipRemaining(t)
      PROVE  Dag!Next
  BY <1>5, NextTaskSettles, SettlesRefines
<1>6. ASSUME UNCHANGED storeFlaky, ExecuteSucceeds \/ ExecuteExhausted \/ BackoffCancelled
      PROVE  Dag!Next
  BY <1>6, ExecutionSettles, SettlesRefines
<1>7. CASE \/ Deliver \/ MarkRunning \/ (\E t \in Tasks : StartTask(t)) \/ ExecuteFails \/ BackoffElapses
           \/ PublishOutcome \/ SaveOutcome \/ CancelContext \/ (\E p \in Pipelines : UpdatePipeline(p))
           \/ DeletePipeline
  BY <1>7 DEF Deliver, MarkRunning, StartTask, ExecuteFails, BackoffElapses, PublishOutcome, SaveOutcome,
     CancelContext, UpdatePipeline, DeletePipeline, loopVars
<1>. QED
  BY <1>1, <1>3, <1>4, <1>5, <1>6, <1>7 DEF Next, RunnerStep, Environment

\* RunOnce implements the order-free execution its documentation describes: a
\* task is executed only after what it depends on has succeeded, and skipped only
\* downstream of a failure or after one in a fail-fast pipeline.
THEOREM RunnerImplementsDag == Spec => ImplementsDagExecution
<1>1. Init => Dag!Init
  BY DEF Init, Dag!Init, Dag!Pending
<1>. QED
  BY <1>1, StepRefines, Invariance, PTL DEF Spec, ImplementsDagExecution, Dag!Spec
=============================================================================
