---------------------------- MODULE HttpRequests ----------------------------
(***************************************************************************)
(* Handlers of internal/api/http as sequences of calls.  Requests run      *)
(* concurrently, one goroutine each; every call that reads or writes what  *)
(* is shared is one step, and calls nobody can tell apart are one step.    *)
(* req[r] is where request r stands: the call it makes next, and what it   *)
(* has read so far.  Every handler begins with a gate: a tenant and a verb *)
(* its principal may perform.                                              *)
(***************************************************************************)
EXTENDS Tables, Policy

CONSTANTS
    People,       \* principals who make requests, [id, tenant, roles, groups]
    Requests,     \* requests that may be under way at a time
    MaxRequests,  \* bound: requests in all
    MaxFaults     \* bound: statements that fail

VARIABLES
    db,       \* the tables
    req,      \* request -> [at, ...]
    started,  \* requests so far
    faults    \* statements that failed so far

Idle == [at |-> "idle"]
At(r, call) == req[r].at = call

InitRequests(seed) ==
    /\ db = seed
    /\ req = [r \in Requests |-> Idle]
    /\ started = 0
    /\ faults = 0

\* Request r arrives.
Begin(r) ==
    /\ req[r] = Idle
    /\ started < MaxRequests
    /\ started' = started + 1
    /\ UNCHANGED faults

\* Request r makes its next call.
Continue(r, call) ==
    /\ At(r, call)
    /\ UNCHANGED <<started, faults>>

Goto(r, state) == req' = [req EXCEPT ![r] = state]
Answer(r) == Goto(r, Idle)

\* The handler goes on when the call went well, and answers otherwise.
Then(r, answer, state) == db' = answer.db /\ Goto(r, IF answer.err = "ok" THEN state ELSE Idle)

\* The only, or the last, call of a request.
Finish(r, answer) == Then(r, answer, Idle)

\* A statement fails without effect and the handler answers with the error.
CallFails(r) ==
    /\ req[r] # Idle
    /\ faults < MaxFaults
    /\ faults' = faults + 1
    /\ Answer(r)
    /\ UNCHANGED <<db, started>>

(***************************************************************************)
(* The gate where no rule is about the resource: the roles decide.         *)
(***************************************************************************)
Gate(p, verb, type) ==
    Allow(p, verb, [type |-> type, id |-> Blank, tenant |-> p.tenant, tags |-> {}, owners |-> {}], {})

\* A request by p that the gate lets through.
Admitted(r, p, verb, type) == Begin(r) /\ Gate(p, verb, type)

\* The rows of a table that belong to nobody who makes requests.
Foreign(table) == Rows(table, LAMBDA row : \A p \in People : p.tenant # row.tenant)
=============================================================================
