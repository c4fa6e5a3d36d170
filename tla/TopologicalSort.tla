--------------------------- MODULE TopologicalSort ---------------------------
(***************************************************************************)
(* pipeline.TopologicalSort (internal/core/pipeline/dag.go): Kahn's        *)
(* algorithm over the task list of a pipeline, one iteration of the main   *)
(* loop per step.  A pipeline is accepted by the create and update         *)
(* handlers, and executed by the runner, in the order computed here.       *)
(*                                                                         *)
(* A task list is a sequence, as in the source: ids may repeat and a task  *)
(* may name a dependency twice or name one that does not exist.            *)
(***************************************************************************)
EXTENDS Integers, Sequences, FiniteSets

CONSTANTS Ids,        \* task identifiers
          TaskLists   \* the task lists the algorithm is run on

Task == [id : Ids, dependsOn : Seq(Ids)]

ASSUME TaskListsAssumption == TaskLists \subseteq Seq(Task)

VARIABLES tasks,      \* the argument
          indeg,      \* id -> dependencies not yet placed; ids leave it when placed
          levels,     \* the levels found so far
          remaining,  \* number of tasks not yet placed
          result      \* "check" and "loop" while running, then the outcome

sortVars == <<tasks, indeg, levels, remaining, result>>

-----------------------------------------------------------------------------

TaskIds == {tasks[i].id : i \in DOMAIN tasks}

\* idSet[id]: the (only) task with this id.
DependsOn(id) == tasks[CHOOSE i \in DOMAIN tasks : tasks[i].id = id].dependsOn

DuplicateId == \E i, j \in DOMAIN tasks : i # j /\ tasks[i].id = tasks[j].id

DanglingDependency ==
    \E i \in DOMAIN tasks : \E k \in DOMAIN tasks[i].dependsOn :
        tasks[i].dependsOn[k] \notin TaskIds

\* Positions of id's dependency list that name a member of S.  The code keeps
\* a successor list with one entry per position, so this is how often id
\* is decremented when the members of S are placed.
Positions(id, S) == {k \in DOMAIN DependsOn(id) : DependsOn(id)[k] \in S}

\* Mutant: a task with one dependency left counts as ready.
ReadyOneEarly == {id \in DOMAIN indeg : indeg[id] <= 1}

Ready == {id \in DOMAIN indeg : indeg[id] = 0}

Placed == UNION {levels[i] : i \in DOMAIN levels}

-----------------------------------------------------------------------------

SortInit ==
    /\ tasks \in TaskLists
    /\ indeg = [id \in {} |-> 0]
    /\ levels = <<>>
    /\ remaining = 0
    /\ result = "check"

RejectDuplicate ==
    /\ result = "check"
    /\ DuplicateId
    /\ result' = "duplicate id"
    /\ UNCHANGED <<tasks, indeg, levels, remaining>>

RejectDangling ==
    /\ result = "check"
    /\ ~DuplicateId
    /\ DanglingDependency
    /\ result' = "unknown id"
    /\ UNCHANGED <<tasks, indeg, levels, remaining>>

CountDependencies ==
    /\ result = "check"
    /\ ~DuplicateId
    /\ ~DanglingDependency
    /\ indeg' = [id \in TaskIds |-> Len(DependsOn(id))]
    /\ remaining' = Len(tasks)
    /\ result' = "loop"
    /\ UNCHANGED <<tasks, levels>>

\* Mutant: one ready task per level.
PlaceOneTask ==
    /\ result = "loop"
    /\ remaining > 0
    /\ \E t \in Ready :
        /\ levels' = Append(levels, {t})
        /\ indeg' = [id \in DOMAIN indeg \ {t} |->
                        indeg[id] - Cardinality(Positions(id, {t}))]
        /\ remaining' = remaining - 1
    /\ UNCHANGED <<tasks, result>>

PlaceLevel ==
    /\ result = "loop"
    /\ remaining > 0
    /\ Ready # {}
    /\ levels' = Append(levels, Ready)
    /\ indeg' = [id \in DOMAIN indeg \ Ready |->
                    indeg[id] - Cardinality(Positions(id, Ready))]
    /\ remaining' = remaining - Cardinality(Ready)
    /\ UNCHANGED <<tasks, result>>

ReportCycle ==
    /\ result = "loop"
    /\ remaining > 0
    /\ Ready = {}
    /\ result' = "cycle"
    /\ UNCHANGED <<tasks, indeg, levels, remaining>>

\* Mutant: the loop stops one task early.
ReturnEarly ==
    /\ result = "loop"
    /\ remaining <= 1
    /\ result' = "sorted"
    /\ UNCHANGED <<tasks, indeg, levels, remaining>>

ReturnLevels ==
    /\ result = "loop"
    /\ remaining = 0
    /\ result' = "sorted"
    /\ UNCHANGED <<tasks, indeg, levels, remaining>>

SortNext ==
    \/ RejectDuplicate
    \/ RejectDangling
    \/ CountDependencies
    \/ PlaceLevel
    \/ ReportCycle
    \/ ReturnLevels

SortSpec == SortInit /\ [][SortNext]_sortVars

-----------------------------------------------------------------------------

Outcomes == {"duplicate id", "unknown id", "cycle", "sorted"}

SortTypeOK ==
    /\ tasks \in Seq(Task)
    /\ DOMAIN indeg \subseteq TaskIds
    /\ \A id \in DOMAIN indeg : indeg[id] \in Nat
    /\ levels \in Seq(SUBSET TaskIds)
    /\ remaining \in Nat
    /\ result \in {"check", "loop"} \cup Outcomes

\* Everything a task depends on stands in an earlier level, whatever the
\* repetitions in its dependency list: the order the runner executes in.
LevelsRespectDependencies ==
    \A i \in DOMAIN levels : \A id \in levels[i] : \A k \in DOMAIN DependsOn(id) :
        \E j \in DOMAIN levels : j < i /\ DependsOn(id)[k] \in levels[j]

\* A task is placed as early as it can be: below the first level it
\* has a dependency in the level just before ("grouped by depth level").
LevelsTight ==
    \A i \in DOMAIN levels : i > 1 =>
        \A id \in levels[i] : Positions(id, levels[i - 1]) # {}

\* "sorted" places every task; ErrCycle is only reported for a non-empty set
\* of tasks in which each one waits for another one of the set.
OutcomeJustified ==
    /\ result = "sorted" => Placed = TaskIds
    /\ result = "cycle" => /\ DOMAIN indeg # {}
                           /\ \A id \in DOMAIN indeg : Positions(id, DOMAIN indeg) # {}

\* The in-degree counters count exactly the dependencies still to be placed,
\* and `remaining` the tasks still in the map.
CountersExact ==
    result \in {"loop", "cycle", "sorted"} =>
        /\ remaining = Cardinality(DOMAIN indeg)
        /\ DOMAIN indeg = TaskIds \ Placed
        /\ \A id \in DOMAIN indeg :
              indeg[id] = Cardinality(Positions(id, TaskIds \ Placed))
=============================================================================
