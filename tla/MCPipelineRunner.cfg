CONSTANTS
    Tasks <- MCTasks
    Pipelines <- MCPipelines
    NoPipeline = NoPipeline
    DefaultRetry = 2
    MaxRetry = 1
    MaxId = 3
    MaxTasks = 3
    MaxDeps = 2
    Ids <- MCIds
    TaskLists <- MCTaskLists
SPECIFICATION MCFairSpec
\* A settled job has nothing left to do, nor has a sort that returned.
CHECK_DEADLOCK FALSE
INVARIANTS
    LevelsRespectDependencies
    OutcomeJustified
    SortExact
    RecordFaithful
    EndReported
PROPERTIES
    JobSettles
    ImplementsDagExecution
