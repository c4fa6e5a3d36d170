-------------------------- MODULE MCPipelineRunner --------------------------
(* Three tasks; graphs whose lexical order differs from their level order, *)
(* a fork, a join, a cycle; fail-fast or not; a task without an executor;  *)
(* tasks with the default and with a negative number of attempts.          *)
(*                                                                         *)
(* Beside it the sort a run begins with, on every task list of at most     *)
(* MaxTasks tasks over the ids 1..MaxId, each with at most MaxDeps         *)
(* dependency entries (self-dependencies, repeated entries, repeated and   *)
(* unknown ids, cycles of every length included).  A behaviour is about a  *)
(* sort or about a run.                                                    *)
EXTENDS PipelineRunner, TopologicalSort, Relation, TLC

CONSTANTS MaxId, MaxTasks, MaxDeps

VARIABLE area

Graph(d1, d2, d3) == (1 :> d1) @@ (2 :> d2) @@ (3 :> d3)

Pipe(g, ff, ex, att) ==
    [dependsOn |-> g, failFast |-> ff, executors |-> ex, maxAttempts |-> att]

MCTasks == 1..3
Backwards == Graph({2}, {3}, {})       \* 3 before 2 before 1
Fork == Graph({}, {1}, {1})
Join == Graph({}, {}, {1, 2})
Cycle == Graph({2}, {1}, {})
Once == Graph(1, 1, 1)
SecondDefault == Graph(1, 0, 1)
FirstNegative == Graph(0 - 1, 1, 1)

\* A negative MaxAttempts passes the API's validation.
MCPipelines ==
    { Pipe(Fork, FALSE, MCTasks, FirstNegative),
      Pipe(Backwards, FALSE, MCTasks, Once),
      Pipe(Fork, TRUE, {1, 2}, SecondDefault),
      Pipe(Join, FALSE, {1, 3}, Once),
      Pipe(Cycle, FALSE, MCTasks, Once) }

SeqUpTo(S, n) == UNION {[1..k -> S] : k \in 0..n}

MCIds == 1..MaxId
MCTaskLists == SeqUpTo([id : MCIds, dependsOn : SeqUpTo(MCIds, MaxDeps)], MaxTasks)

MCInit ==
    /\ area \in {"sort", "run"}
    /\ Init /\ SortInit
    /\ area = "sort" => pipeline = CHOOSE p \in Pipelines : TRUE
    /\ area = "sort" => ~storeFlaky
    /\ area = "run" => tasks = <<>>

MCNext ==
    /\ UNCHANGED area
    /\ \/ area = "sort" /\ SortNext /\ UNCHANGED vars
       \/ area = "run" /\ Next /\ UNCHANGED sortVars

\* The fairness is the run's: what must happen is asked of behaviours about one.
MCFairSpec == MCInit /\ [][MCNext]_<<area, vars, sortVars>> /\ WF_vars(UNCHANGED storeFlaky /\ RunnerStep)

DependencyRelation ==
    [p \in TaskIds \X TaskIds |->
        \E k \in DOMAIN DependsOn(p[1]) : DependsOn(p[1])[k] = p[2]]

\* Reference definition: the sort succeeds exactly on the acyclic graphs, and
\* reports a cycle exactly when some task depends on itself transitively.
CycleExactly ==
    result \in {"sorted", "cycle"} =>
        (result = "sorted" <=> IsIrreflexive(TransitiveClosure(DependencyRelation, TaskIds), TaskIds))

\* The answer is the one TopologicalSort documents, for every task list: a cycle
\* is found exactly when there is one, and tasks are grouped by depth.
SortExact == CycleExactly /\ LevelsTight
=============================================================================
