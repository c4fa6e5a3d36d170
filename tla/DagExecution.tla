---------------------------- MODULE DagExecution ----------------------------
(***************************************************************************)
(* What the documentation of Runner.RunOnce promises for one execution of  *)
(* a pipeline, with no order among independent tasks, no levels, no        *)
(* attempts and no storage: a task is executed only after everything it    *)
(* depends on has succeeded, the tasks downstream of a failure are         *)
(* skipped, and a fail-fast pipeline skips the rest after the first        *)
(* failure.  A task that is given no attempt (a negative MaxAttempts)      *)
(* stays "running", which the documentation does not foresee; for those    *)
(* that depend on it, it has not succeeded.  PipelineRunner is shown to    *)
(* implement this.                                                         *)
(***************************************************************************)
EXTENDS Integers

CONSTANTS Tasks,   \* task ids
          NoGraph  \* no execution under way

VARIABLES graph,   \* the pipeline being executed: dependsOn and failFast
          status   \* task -> "none", "succeeded", "failed", "skipped", "running"

vars == <<graph, status>>

Pending == [t \in Tasks |-> "none"]

Settle(t, s) ==
    /\ graph # NoGraph
    /\ status[t] = "none"
    /\ status' = [status EXCEPT ![t] = s]
    /\ UNCHANGED graph

Execute(t) ==
    /\ graph # NoGraph
    /\ \A d \in graph.dependsOn[t] : status[d] = "succeeded"
    /\ Settle(t, "succeeded") \/ Settle(t, "failed")

Starve(t) ==
    /\ graph # NoGraph
    /\ \A d \in graph.dependsOn[t] : status[d] = "succeeded"
    /\ graph.maxAttempts[t] < 0
    /\ Settle(t, "running")

Skip(t) ==
    /\ graph # NoGraph
    /\ \/ \E d \in graph.dependsOn[t] : status[d] \in {"failed", "skipped", "running"}
       \/ graph.failFast /\ \E u \in Tasks : status[u] = "failed"
    /\ Settle(t, "skipped")

\* An execution starts on some definition, and ends or is abandoned.
Begin ==
    /\ graph = NoGraph
    /\ graph' # NoGraph
    /\ UNCHANGED status

End ==
    /\ graph' = NoGraph
    /\ status' = Pending

Init == graph = NoGraph /\ status = Pending

Next == Begin \/ End \/ \E t \in Tasks : Execute(t) \/ Starve(t) \/ Skip(t)

Spec == Init /\ [][Next]_vars
=============================================================================
