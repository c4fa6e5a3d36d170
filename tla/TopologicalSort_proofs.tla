----------------------- MODULE TopologicalSort_proofs -----------------------
(***************************************************************************)
(* TopologicalSort computes a correct layering for every task list, of any *)
(* length, with any repetitions.  The inductive invariant joins the        *)
(* algorithm's bookkeeping (CountersExact: every in-degree counter is the  *)
(* number of dependency entries still to be placed) to the property of the *)
(* levels, which is not inductive alone: a task is taken because its       *)
(* counter is zero, and only the bookkeeping says what zero means.         *)
(***************************************************************************)
EXTENDS TopologicalSort, FiniteSetTheorems, SequenceTheorems, TLAPS

\* No task stands in two levels.
LevelsDisjoint ==
    \A i, j \in DOMAIN levels : i # j => levels[i] \cap levels[j] = {}

Bookkeeping ==
    /\ result \notin {"loop", "cycle", "sorted"} => levels = <<>>
    /\ result \in {"loop", "cycle", "sorted"} => ~DuplicateId /\ ~DanglingDependency

IInv ==
    /\ SortTypeOK
    /\ Bookkeeping
    /\ CountersExact
    /\ LevelsRespectDependencies
    /\ LevelsDisjoint

-----------------------------------------------------------------------------
(* What the helpers return. *)

\* A task id has a dependency list over Ids.
LEMMA DependsOnType ==
    ASSUME tasks \in Seq(Task), NEW id \in TaskIds
    PROVE  DependsOn(id) \in Seq(Ids)
<1> DEFINE i == CHOOSE i \in DOMAIN tasks : tasks[i].id = id
<1>1. i \in DOMAIN tasks
  BY DEF TaskIds
<1>2. tasks[i] \in Task
  BY <1>1, ElementOfSeq
<1>. QED
  BY <1>2 DEF DependsOn, Task

\* When no dependency dangles, every entry of a dependency list is a task id.
LEMMA DependsOnClosed ==
    ASSUME ~DanglingDependency, NEW id \in TaskIds, NEW k \in DOMAIN DependsOn(id)
    PROVE  DependsOn(id)[k] \in TaskIds
BY DEF DanglingDependency, DependsOn, TaskIds

\* The entries naming a member of a set are finitely many, and leaving out
\* a part S of the set U leaves out exactly the entries naming a member of S.
LEMMA PositionsCount ==
    ASSUME tasks \in Seq(Task), NEW id \in TaskIds, NEW U, NEW S, S \subseteq U
    PROVE  /\ IsFiniteSet(Positions(id, U))
           /\ Cardinality(Positions(id, U)) \in Nat
           /\ Cardinality(Positions(id, U \ S)) =
                Cardinality(Positions(id, U)) - Cardinality(Positions(id, S))
<1>1. DependsOn(id) \in Seq(Ids)
  BY DependsOnType
<1>2. \A T : Positions(id, T) \subseteq 1..Len(DependsOn(id))
  BY <1>1 DEF Positions
<1>3. \A T : IsFiniteSet(Positions(id, T)) /\ Cardinality(Positions(id, T)) \in Nat
  <2>1. IsFiniteSet(1..Len(DependsOn(id)))
    BY <1>1, LenProperties, FS_Interval
  <2>2. \A T : IsFiniteSet(Positions(id, T))
    BY <1>2, <2>1, FS_Subset
  <2>. QED
    BY <2>2, FS_CardinalityType
<1>4. /\ Positions(id, U) = Positions(id, U \ S) \cup Positions(id, S)
      /\ Positions(id, U \ S) \cap Positions(id, S) = {}
  BY DEF Positions
<1>5. Cardinality(Positions(id, U)) =
        Cardinality(Positions(id, U \ S)) + Cardinality(Positions(id, S)) - 0
  <2>1. IsFiniteSet(Positions(id, U \ S)) /\ IsFiniteSet(Positions(id, S))
    BY <1>3
  <2>2. Cardinality(Positions(id, U \ S) \cup Positions(id, S)) =
          Cardinality(Positions(id, U \ S)) + Cardinality(Positions(id, S))
            - Cardinality(Positions(id, U \ S) \cap Positions(id, S))
    BY <2>1, FS_Union
  <2>3. Cardinality(Positions(id, U \ S) \cap Positions(id, S)) = 0
    BY <1>4, FS_EmptySet
  <2>. QED
    BY <1>4, <2>2, <2>3
<1>. QED
  BY <1>3, <1>5

\* Without repeated ids there are as many ids as list entries.
LEMMA IdsCount ==
    ASSUME tasks \in Seq(Task), ~DuplicateId
    PROVE  IsFiniteSet(TaskIds) /\ Cardinality(TaskIds) = Len(tasks)
<1> DEFINE f == [i \in 1..Len(tasks) |-> tasks[i].id]
<1>1. Len(tasks) \in Nat /\ DOMAIN tasks = 1..Len(tasks)
  BY LenProperties
<1>2. f \in Bijection(1..Len(tasks), TaskIds)
  BY <1>1 DEF TaskIds, DuplicateId, Bijection, Injection, Surjection, IsInjective
<1>3. IsFiniteSet(1..Len(tasks)) /\ Cardinality(1..Len(tasks)) = Len(tasks)
  <2>. DEFINE n == Len(tasks)
  <2>1. n - 1 + 1 = n /\ 1 \in Int /\ n \in Int
    BY <1>1
  <2>. QED
    BY <1>1, <2>1, FS_Interval
<1>4. ExistsBijection(1..Len(tasks), TaskIds)
  BY <1>2 DEF ExistsBijection
<1>. QED
  BY <1>3, <1>4, FS_Bijection

\* While the loop runs, the set of all task ids is finite.
LEMMA IdsFinite ==
    ASSUME tasks \in Seq(Task)
    PROVE  IsFiniteSet(TaskIds)
<1> DEFINE f == [i \in 1..Len(tasks) |-> tasks[i].id]
<1>1. Len(tasks) \in Nat /\ DOMAIN tasks = 1..Len(tasks)
  BY LenProperties
<1>2. f \in Surjection(1..Len(tasks), TaskIds)
  BY <1>1 DEF TaskIds, Surjection
<1>. QED
  BY <1>1, <1>2, FS_Interval, FS_Surjection

-----------------------------------------------------------------------------
(* The inductive step. *)

\* Before the first pass no task has a level or a counter.
LEMMA InitIInv == SortInit => IInv
<1> SUFFICES ASSUME SortInit PROVE IInv
  OBVIOUS
<1>1. SortTypeOK
  BY TaskListsAssumption DEF SortInit, SortTypeOK
<1>2. Bookkeeping /\ CountersExact /\ LevelsRespectDependencies /\ LevelsDisjoint
  BY DEF SortInit, Bookkeeping, CountersExact, LevelsRespectDependencies, LevelsDisjoint
<1>. QED
  BY <1>1, <1>2 DEF IInv

\* Steps that leave the task list, the levels and the counters alone.
LEMMA QuietStep ==
    ASSUME IInv, UNCHANGED <<tasks, indeg, levels, remaining>>,
           result' \in {"check", "loop"} \cup Outcomes,
           result' \in {"loop", "cycle", "sorted"} => result \in {"loop", "cycle", "sorted"},
           result \in {"loop", "cycle", "sorted"} => result' \in {"loop", "cycle", "sorted"}
    PROVE  IInv'
<1>1. SortTypeOK'
  BY DEF IInv, SortTypeOK, TaskIds
<1>2. Bookkeeping'
  BY DEF IInv, Bookkeeping, DuplicateId, DanglingDependency, TaskIds
<1>3. CountersExact'
  BY DEF IInv, CountersExact, TaskIds, Placed, Positions, DependsOn
<1>4. LevelsRespectDependencies' /\ LevelsDisjoint'
  BY DEF IInv, LevelsRespectDependencies, LevelsDisjoint, DependsOn
<1>. QED
  BY <1>1, <1>2, <1>3, <1>4 DEF IInv

\* The first pass sets the counter of each task to the number of its dependencies.
LEMMA CountStep == IInv /\ CountDependencies => IInv'
<1> SUFFICES ASSUME IInv, CountDependencies PROVE IInv'
  OBVIOUS
<1> USE DEF CountDependencies
<1>0. /\ tasks \in Seq(Task) /\ tasks' = tasks /\ levels = <<>> /\ levels' = <<>>
      /\ TaskIds' = TaskIds
  BY DEF IInv, SortTypeOK, Bookkeeping, TaskIds
<1>1. \A id \in TaskIds : Len(DependsOn(id)) \in Nat
  BY <1>0, DependsOnType, LenProperties
<1>2. SortTypeOK'
  BY <1>0, <1>1, LenProperties, EmptySeq DEF SortTypeOK
<1>3. Bookkeeping'
  BY <1>0 DEF Bookkeeping, DuplicateId, DanglingDependency, TaskIds
<1>4. Placed' = {}
  BY <1>0 DEF Placed
<1>5. \A id \in TaskIds : Len(DependsOn(id)) = Cardinality(Positions(id, TaskIds))
  <2> SUFFICES ASSUME NEW id \in TaskIds
               PROVE  Len(DependsOn(id)) = Cardinality(Positions(id, TaskIds))
    OBVIOUS
  <2>1. DependsOn(id) \in Seq(Ids)
    BY <1>0, DependsOnType
  <2>2. Positions(id, TaskIds) = 1..Len(DependsOn(id))
    BY <2>1, DependsOnClosed, LenProperties DEF Positions
  <2>3. Cardinality(1..Len(DependsOn(id))) = Len(DependsOn(id))
    <3> DEFINE m == Len(DependsOn(id))
    <3>1. m \in Nat
      BY <1>1
    <3> HIDE DEF m
    <3>2. Cardinality(1..m) = IF 1 > m THEN 0 ELSE m - 1 + 1
      BY <3>1, FS_Interval
    <3>3. Cardinality(1..m) = m
      BY <3>1, <3>2
    <3>. QED
      BY <3>3 DEF m
  <2>. QED
    BY <2>2, <2>3
<1>6. CountersExact'
  <2>1. remaining' = Cardinality(DOMAIN indeg')
    BY <1>0, IdsCount
  <2>2. \A id \in TaskIds : Positions(id, TaskIds)' = Positions(id, TaskIds)
    BY <1>0 DEF Positions, DependsOn
  <2>. QED
    BY <1>0, <1>4, <1>5, <2>1, <2>2 DEF CountersExact
<1>7. LevelsRespectDependencies' /\ LevelsDisjoint'
  BY <1>0 DEF LevelsRespectDependencies, LevelsDisjoint
<1>. QED
  BY <1>2, <1>3, <1>6, <1>7 DEF IInv

\* A level takes its tasks' counters away, and lowers those of the tasks that
\* depend on it by as many dependencies as it holds.
LEMMA PlaceStep == IInv /\ PlaceLevel => IInv'
<1> SUFFICES ASSUME IInv, PlaceLevel PROVE IInv'
  OBVIOUS
<1> DEFINE n == Len(levels)
<1>0. /\ tasks \in Seq(Task) /\ tasks' = tasks /\ TaskIds' = TaskIds
      /\ result = "loop" /\ result' = "loop"
      /\ ~DuplicateId /\ ~DanglingDependency
      /\ DOMAIN indeg = TaskIds \ Placed
      /\ Ready \subseteq TaskIds \ Placed
      /\ levels \in Seq(SUBSET TaskIds)
      /\ levels' = Append(levels, Ready)
  BY DEF IInv, SortTypeOK, Bookkeeping, CountersExact, PlaceLevel, TaskIds, Ready
<1>1. /\ n \in Nat /\ DOMAIN levels = 1..n /\ DOMAIN levels' = 1..(n + 1)
      /\ levels' \in Seq(SUBSET TaskIds)
      /\ \A i \in 1..n : levels'[i] = levels[i]
      /\ levels'[n + 1] = Ready
  BY <1>0, LenProperties, AppendProperties
<1>2. Placed' = Placed \cup Ready
  BY <1>1 DEF Placed
<1>3. \A id, S : Positions(id, S)' = Positions(id, S)
  BY <1>0 DEF Positions, DependsOn
<1>4. \A id \in TaskIds : DependsOn(id)' = DependsOn(id)
  BY <1>0 DEF DependsOn
<1>5. DOMAIN indeg' = TaskIds \ Placed'
  BY <1>0, <1>2 DEF PlaceLevel
<1>6. \A id \in DOMAIN indeg' : indeg'[id] = Cardinality(Positions(id, TaskIds \ Placed'))
  <2> SUFFICES ASSUME NEW id \in DOMAIN indeg'
               PROVE  indeg'[id] = Cardinality(Positions(id, TaskIds \ Placed'))
    OBVIOUS
  <2>1. id \in TaskIds /\ id \in DOMAIN indeg
    BY <1>0, <1>5, <1>2
  <2>2. indeg'[id] = indeg[id] - Cardinality(Positions(id, Ready))
    BY <1>0, <1>2, <1>5, <2>1 DEF PlaceLevel
  <2>3. indeg[id] = Cardinality(Positions(id, TaskIds \ Placed))
    BY <1>0, <2>1 DEF IInv, CountersExact
  <2>4. TaskIds \ Placed' = (TaskIds \ Placed) \ Ready
    BY <1>2
  <2>. QED
    BY <1>0, <2>1, <2>2, <2>3, <2>4, PositionsCount
<1>7. remaining' = Cardinality(DOMAIN indeg')
  <2>1. IsFiniteSet(DOMAIN indeg)
    BY <1>0, IdsFinite, FS_Subset
  <2>2. /\ IsFiniteSet(Ready) /\ IsFiniteSet(DOMAIN indeg \ Ready)
        /\ Cardinality(Ready) \in Nat /\ Cardinality(DOMAIN indeg \ Ready) \in Nat
    BY <2>1, FS_Subset, FS_CardinalityType, <1>0
  <2>3. /\ DOMAIN indeg = (DOMAIN indeg \ Ready) \cup Ready
        /\ (DOMAIN indeg \ Ready) \cap Ready = {}
    BY <1>0
  <2>4. Cardinality(DOMAIN indeg) =
            Cardinality(DOMAIN indeg \ Ready) + Cardinality(Ready) - 0
    BY <2>2, <2>3, FS_Union, FS_EmptySet
  <2>5. DOMAIN indeg' = DOMAIN indeg \ Ready
    BY <1>0, <1>2, <1>5
  <2>6. remaining = Cardinality(DOMAIN indeg) /\ remaining' = remaining - Cardinality(Ready)
    BY <1>0 DEF IInv, CountersExact, PlaceLevel
  <2>. QED
    BY <2>2, <2>4, <2>5, <2>6
<1>8. CountersExact'
  BY <1>0, <1>3, <1>5, <1>6, <1>7 DEF CountersExact
<1>9. SortTypeOK'
  <2>1. \A id \in DOMAIN indeg' : indeg'[id] \in Nat
    <3> SUFFICES ASSUME NEW id \in DOMAIN indeg' PROVE indeg'[id] \in Nat
      OBVIOUS
    <3>1. id \in TaskIds
      BY <1>5
    <3>2. Cardinality(Positions(id, TaskIds \ Placed')) \in Nat
      BY <1>0, <3>1, PositionsCount
    <3>. QED
      BY <1>6, <3>2
  <2>2. remaining' \in Nat
    BY <1>0, <1>5, <1>7, IdsFinite, FS_Subset, FS_CardinalityType
  <2>. QED
    BY <1>0, <1>1, <1>5, <2>1, <2>2 DEF SortTypeOK
<1>10. Bookkeeping'
  BY <1>0 DEF Bookkeeping, DuplicateId, DanglingDependency, TaskIds
<1>11. \A id \in Ready : \A k \in DOMAIN DependsOn(id) : DependsOn(id)[k] \in Placed
  <2> SUFFICES ASSUME NEW id \in Ready, NEW k \in DOMAIN DependsOn(id)
               PROVE  DependsOn(id)[k] \in Placed
    OBVIOUS
  <2>1. id \in TaskIds /\ indeg[id] = 0
    BY <1>0 DEF Ready
  <2>2. Cardinality(Positions(id, TaskIds \ Placed)) = 0
    BY <1>0, <2>1 DEF IInv, CountersExact, Ready
  <2>3. Positions(id, TaskIds \ Placed) = {}
    BY <1>0, <2>1, <2>2, PositionsCount, FS_EmptySet
  <2>. QED
    BY <1>0, <2>1, <2>3, DependsOnClosed DEF Positions
<1>12. LevelsRespectDependencies'
  <2> SUFFICES ASSUME NEW i \in 1..(n + 1), NEW id \in levels'[i],
                      NEW k \in DOMAIN DependsOn(id)'
               PROVE  \E j \in 1..(n + 1) : j < i /\ DependsOn(id)'[k] \in levels'[j]
    BY <1>1 DEF LevelsRespectDependencies
  <2>1. id \in TaskIds /\ DependsOn(id)' = DependsOn(id)
    BY <1>0, <1>1, <1>4
  <2>2. CASE i \in 1..n
    <3>1. id \in levels[i] /\ k \in DOMAIN DependsOn(id)
      BY <1>1, <2>1, <2>2
    <3>2. \E j \in DOMAIN levels : j < i /\ DependsOn(id)[k] \in levels[j]
      BY <1>1, <2>2, <3>1 DEF IInv, LevelsRespectDependencies
    <3>. QED
      BY <1>1, <2>1, <3>2
  <2>3. CASE i = n + 1
    <3>1. DependsOn(id)[k] \in Placed
      BY <1>1, <1>11, <2>1, <2>3
    <3>2. \E j \in 1..n : DependsOn(id)[k] \in levels[j]
      BY <1>1, <3>1 DEF Placed
    <3>. QED
      BY <1>1, <2>1, <2>3, <3>2
  <2>. QED
    BY <1>1, <2>2, <2>3
<1>13. LevelsDisjoint'
  <2>1. \A i \in 1..n : levels[i] \cap Ready = {}
    BY <1>0, <1>1 DEF Placed
  <2>2. \A i, j \in 1..n : i # j => levels[i] \cap levels[j] = {}
    BY <1>1 DEF IInv, LevelsDisjoint
  <2> SUFFICES ASSUME NEW i \in 1..(n + 1), NEW j \in 1..(n + 1), i # j
               PROVE  levels'[i] \cap levels'[j] = {}
    BY <1>1 DEF LevelsDisjoint
  <2>3. CASE i \in 1..n /\ j \in 1..n
    BY <1>1, <2>2, <2>3
  <2>4. CASE i = n + 1 /\ j \in 1..n
    BY <1>1, <2>1, <2>4
  <2>5. CASE i \in 1..n /\ j = n + 1
    BY <1>1, <2>1, <2>5
  <2>. QED
    BY <1>1, <2>3, <2>4, <2>5
<1>. QED
  BY <1>8, <1>9, <1>10, <1>12, <1>13 DEF IInv

\* Both passes keep the invariant.
LEMMA NextIInv == IInv /\ [SortNext]_sortVars => IInv'
<1> SUFFICES ASSUME IInv, [SortNext]_sortVars PROVE IInv'
  OBVIOUS
<1>1. CASE RejectDuplicate \/ RejectDangling
  BY <1>1, QuietStep DEF RejectDuplicate, RejectDangling, Outcomes
<1>2. CASE CountDependencies
  BY <1>2, CountStep
<1>3. CASE PlaceLevel
  BY <1>3, PlaceStep
<1>4. CASE ReportCycle \/ ReturnLevels
  BY <1>4, QuietStep DEF ReportCycle, ReturnLevels, Outcomes
<1>5. CASE UNCHANGED sortVars
  BY <1>5, QuietStep DEF sortVars, IInv, SortTypeOK
<1>. QED
  BY <1>1, <1>2, <1>3, <1>4, <1>5 DEF SortNext

-----------------------------------------------------------------------------

\* The bookkeeping of the algorithm is exact and its levels are disjoint and
\* in dependency order, for every task list.
THEOREM Correctness == SortSpec => []IInv
<1>1. SortSpec => [](IInv)
  BY InitIInv, NextIInv, PTL DEF SortSpec
<1>. QED
  BY <1>1

\* Type correctness of the layering algorithm.
THEOREM TypeCorrect == SortSpec => []SortTypeOK
<1>1. IInv => SortTypeOK
  BY DEF IInv
<1>. QED
  BY <1>1, Correctness, PTL

\* The runner never meets a task before the tasks it depends on.
THEOREM OrderCorrect == SortSpec => []LevelsRespectDependencies
<1>1. IInv => LevelsRespectDependencies
  BY DEF IInv
<1>. QED
  BY <1>1, Correctness, PTL

\* The end of the loop: which value of the counters it was left with, the
\* one fact OutcomeCorrect needs beyond IInv.
LoopExit ==
    /\ result = "sorted" => remaining = 0
    /\ result = "cycle" => remaining > 0 /\ Ready = {}

\* A successful sort has placed every task; a reported cycle is real: the
\* tasks left over form a non-empty set none of whose members can be first.
THEOREM OutcomeCorrect == SortSpec => []OutcomeJustified
<1>1. SortInit => LoopExit
  BY DEF SortInit, LoopExit
<1>2. IInv /\ LoopExit /\ [SortNext]_sortVars => LoopExit'
  BY DEF LoopExit, SortNext, sortVars, RejectDuplicate, RejectDangling, CountDependencies,
         PlaceLevel, ReportCycle, ReturnLevels, Ready
<1>3. IInv /\ LoopExit => OutcomeJustified
  <2> SUFFICES ASSUME IInv, LoopExit PROVE OutcomeJustified
    OBVIOUS
  <2>1. ASSUME result = "sorted" PROVE Placed = TaskIds
    <3>1. /\ Cardinality(DOMAIN indeg) = 0 /\ DOMAIN indeg = TaskIds \ Placed
          /\ tasks \in Seq(Task) /\ levels \in Seq(SUBSET TaskIds)
      BY <2>1 DEF IInv, LoopExit, CountersExact, SortTypeOK
    <3>2. IsFiniteSet(TaskIds \ Placed)
      BY <3>1, IdsFinite, FS_Subset
    <3>3. TaskIds \ Placed = {}
      BY <3>1, <3>2, FS_EmptySet
    <3>4. Placed \subseteq TaskIds
      BY <3>1, ElementOfSeq DEF Placed
    <3>. QED
      BY <3>3, <3>4
  <2>2. ASSUME result = "cycle"
        PROVE  /\ DOMAIN indeg # {}
               /\ \A id \in DOMAIN indeg : Positions(id, DOMAIN indeg) # {}
    <3>0. remaining # 0 /\ Ready = {}
      BY <2>2 DEF LoopExit, IInv, SortTypeOK
    <3>1. /\ remaining = Cardinality(DOMAIN indeg)
          /\ DOMAIN indeg = TaskIds \ Placed
          /\ \A id \in DOMAIN indeg : indeg[id] = Cardinality(Positions(id, DOMAIN indeg))
      BY <2>2 DEF IInv, CountersExact
    <3>2. DOMAIN indeg # {}
      <4>1. Cardinality({}) = 0
        BY FS_EmptySet
      <4>. QED
        BY <3>0, <3>1, <4>1
    <3>. QED
      BY <3>0, <3>1, <3>2, FS_EmptySet DEF Ready
  <2>. QED
    BY <2>1, <2>2 DEF OutcomeJustified
<1>. QED
  BY <1>1, <1>2, <1>3, Correctness, PTL DEF SortSpec
=============================================================================
