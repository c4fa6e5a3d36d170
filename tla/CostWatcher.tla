---------------------------- MODULE CostWatcher -----------------------------
(***************************************************************************)
(* What tenants spend and the alerts about it (internal/core/cost,         *)
(* api/http/cost.go).  Each replica has a watcher that compares the spend  *)
(* of the last thirty days with the budget.  Money is in whole cents, the  *)
(* clock in hours.                                                         *)
(***************************************************************************)
EXTENDS HttpRequests, FiniteSetsExt

CONSTANTS
    Models,       \* models, each the set of price book entries its name begins with
    PriceBook,    \* entry -> [len, in, out]: length of the name, cents per 1000 tokens
    Warehouses,   \* warehouse type -> cents per second, 0 when it has no rate of its own
    Usages,       \* what is used at a time, [tokens, ms]
    Budgets,      \* bodies of requests, [monthly, warn, hard]
    Cooldown,     \* hours between two alerts
    MaxHours,     \* bound: time
    MaxCosts      \* bound: rows in cost_records

ASSUME CostAssumption == Cooldown \in Nat

VARIABLES
    hour,     \* the time
    alerts,   \* alerts published, [tenant, level, at, known]: known are those that
              \* the budget remembered when the watcher read it
    marked    \* alerts that the budget remembers, by their time or a later one

wvars == <<hour, alerts, marked>>

(***************************************************************************)
(* The store (storage/postgres/cost.go).  -1 is NULL.                      *)
(*   costs     [tenant, at, kind, provider, usd, feature]                  *)
(*   budgets   [tenant, monthly, warn, hard, warned, harded]               *)
(***************************************************************************)
Record(d, c) == Ok([d EXCEPT !.costs = Append(@, c)])

Recent(d, t, limit) == Newest(d.costs, LAMBDA c : c.tenant = t, Limit(limit, 500, 100))

\* from <= ts < to; rows of one group are told apart by their position.
Daily(d, t, from, to) == Where(d.costs, LAMBDA c : c.tenant = t /\ c.at >= from /\ c.at < to)

RollingTotal(d, t, since) ==
    MapThenSumSet(LAMBDA i : d.costs[i].usd, Where(d.costs, LAMBDA c : c.tenant = t /\ c.at >= since))

TenantsWithCost(d) == {d.costs[i].tenant : i \in DOMAIN d.costs}

\* A tenant without a row has no budget, and the defaults.
GetBudget(d, t) ==
    LET found == Rows(d.budgets, LAMBDA b : b.tenant = t)
    IN  IF found = {} THEN [tenant |-> t, monthly |-> -1, warn |-> 80, hard |-> 100, warned |-> -1, harded |-> -1]
        ELSE CHOOSE b \in found : TRUE

UpsertReset(d, t, monthly, warn, hard) ==  \* mutant: the whole row is replaced, the alerts it remembers too
    Ok([d EXCEPT !.budgets = Append(Without(@, LAMBDA b : b.tenant = t),
            [tenant |-> t, monthly |-> monthly, warn |-> warn, hard |-> hard, warned |-> -1, harded |-> -1])])

\* When the tenant was last alerted stays.
UpsertBudget(d, t, monthly, warn, hard) ==
    LET P(b) == b.tenant = t
        New(b) == [b EXCEPT !.monthly = monthly, !.warn = IF warn = 0 THEN 80 ELSE warn,
                            !.hard = IF hard = 0 THEN 100 ELSE hard]
    IN  Ok([d EXCEPT !.budgets = IF Where(@, P) = {} THEN Append(@, New(GetBudget(d, t))) ELSE Set(@, P, New)])

MarkWarned(d, t, at) == Ok([d EXCEPT !.budgets = Set(@, LAMBDA b : b.tenant = t, LAMBDA b : [b EXCEPT !.warned = at])])
MarkHard(d, t, at) == Ok([d EXCEPT !.budgets = Set(@, LAMBDA b : b.tenant = t, LAMBDA b : [b EXCEPT !.harded = at])])

(***************************************************************************)
(* Costs                                                                   *)
(***************************************************************************)
ZeroPrice == [len |-> 0, in |-> 0, out |-> 0]

\* The longest entry that the name begins with.
PriceFor(model) ==
    IF model = {} THEN ZeroPrice
    ELSE PriceBook[CHOOSE k \in model : \A j \in model : PriceBook[j].len <= PriceBook[k].len]

EstimateAICost(model, in, out) == (in * PriceFor(model).in + out * PriceFor(model).out) \div 1000

DefaultRate == 1

EstimateWarehouseCost(w, ms) ==
    IF ms <= 0 THEN 0 ELSE (ms * (IF Warehouses[w] = 0 THEN DefaultRate ELSE Warehouses[w])) \div 1000

\* A failed insert is ignored by every caller.
Spend(t, kind, usd) ==
    /\ Len(db.costs) < MaxCosts
    /\ \/ db' = Record(db, [tenant |-> t, at |-> hour, kind |-> kind, usd |-> usd]).db
          /\ UNCHANGED faults
       \/ faults < MaxFaults /\ faults' = faults + 1 /\ UNCHANGED db
    /\ UNCHANGED <<req, started, wvars>>

RecordAI(t) ==
    \E m \in Models, u \in Usages : Spend(t, "ai_completion", EstimateAICost(m, u.tokens, u.tokens))

RecordWarehouseQuery(t) ==
    \E w \in DOMAIN Warehouses, u \in Usages : Spend(t, "warehouse_query", EstimateWarehouseCost(w, u.ms))

(***************************************************************************)
(* Requests                                                                *)
(***************************************************************************)
UpsertBudgetRequest(r, p) ==
    /\ Admitted(r, p, "admin", "cost_budget")
    /\ \E b \in Budgets : Finish(r, UpsertBudget(db, p.tenant, b.monthly, b.warn, b.hard))
    /\ UNCHANGED wvars

GetBudgetRequest(p) == IF Gate(p, "read", "cost_budget") THEN {GetBudget(db, p.tenant)} ELSE {}
RecentCostRequest(p) == IF Gate(p, "read", "cost_budget") THEN Recent(db, p.tenant, 0) ELSE {}

\* The series by day, and by feature the hundred latest rows.
SummaryCostRequest(p) ==
    IF Gate(p, "read", "cost_budget")
    THEN {db.costs[i] : i \in Daily(db, p.tenant, 0, hour)} \cup Recent(db, p.tenant, 1000) ELSE {}

(***************************************************************************)
(* Watcher r                                                               *)
(***************************************************************************)
\* pct >= at.  A budget of zero makes it infinite, or not a number.
Reaches(total, monthly, at) == IF monthly = 0 THEN total > 0 ELSE monthly > 0 /\ total * 100 >= at * monthly

ShouldFire(last) == last = -1 \/ hour - last >= Cooldown

WatchOnce(r) ==
    /\ Begin(r)
    /\ Goto(r, [at |-> "check", tenants |-> TenantsWithCost(db)])
    /\ UNCHANGED <<db, wvars>>

\* The level at which the budget is, "" for none; a hard breach takes precedence.
Level(b, total) ==
    IF b.monthly = -1 THEN ""
    ELSE IF Reaches(total, b.monthly, b.hard) THEN "hard"
    ELSE IF Reaches(total, b.monthly, b.warn) THEN "warn" ELSE ""

LastAt(b, level) == IF level = "hard" THEN b.harded ELSE b.warned

\* The budget and the spend are read; what changes one does not change the other.
CheckOne(r) ==
    /\ Continue(r, "check")
    /\ \E t \in req[r].tenants :
           LET b == GetBudget(db, t)
               level == Level(b, RollingTotal(db, t, hour - 24 * 30))
               rest == req[r].tenants \ {t}
           IN  IF level # "" /\ ShouldFire(LastAt(b, level))
               THEN Goto(r, [at |-> "alert", tenants |-> rest, tenant |-> t, level |-> level, hour |-> hour, known |-> marked])
               ELSE Goto(r, [at |-> "check", tenants |-> rest])
    /\ UNCHANGED <<db, wvars>>

PublishAlert(r) ==
    /\ Continue(r, "alert")
    /\ alerts' = Append(alerts, [tenant |-> req[r].tenant, level |-> req[r].level, at |-> req[r].hour, known |-> req[r].known])
    /\ Goto(r, [at |-> "mark", tenants |-> req[r].tenants, tenant |-> req[r].tenant, level |-> req[r].level,
                hour |-> req[r].hour, alert |-> Len(alerts) + 1])
    /\ UNCHANGED <<db, hour, marked>>

Alike(a, b) == a.tenant = b.tenant /\ a.level = b.level

\* A late mark overwrites a newer one.
Mark(r) ==
    /\ Continue(r, "mark")
    /\ db' = IF req[r].level = "hard" THEN MarkHard(db, req[r].tenant, req[r].hour).db
             ELSE MarkWarned(db, req[r].tenant, req[r].hour).db
    /\ marked' = {i \in marked : Alike(alerts[i], alerts[req[r].alert]) => alerts[i].at <= req[r].hour} \cup {req[r].alert}
    /\ Goto(r, [at |-> "check", tenants |-> req[r].tenants])
    /\ UNCHANGED <<hour, alerts>>

\* The error is ignored.
MarkFails(r) ==
    /\ At(r, "mark") /\ faults < MaxFaults /\ faults' = faults + 1
    /\ Goto(r, [at |-> "check", tenants |-> req[r].tenants])
    /\ UNCHANGED <<db, started, wvars>>

WatchEnds(r) ==
    /\ Continue(r, "check") /\ req[r].tenants = {}
    /\ Answer(r)
    /\ UNCHANGED <<db, wvars>>

HourPasses ==
    /\ hour < MaxHours
    /\ hour' = hour + 1
    /\ UNCHANGED <<db, req, started, faults, alerts, marked>>

InitCost == hour = 0 /\ alerts = <<>> /\ marked = {}

CostNext ==
    \/ \E r \in Requests :
           \/ WatchOnce(r) \/ CheckOne(r) \/ PublishAlert(r) \/ Mark(r) \/ MarkFails(r) \/ WatchEnds(r)
           \/ \E p \in People : UpsertBudgetRequest(r, p)
    \/ \E p \in People : RecordAI(p.tenant) \/ RecordWarehouseQuery(p.tenant)
    \/ HourPasses

CostSpec(seed) == InitRequests(seed) /\ InitCost /\ [][CostNext]_<<db, req, started, faults, wvars>>

(***************************************************************************)
(* Properties                                                              *)
(***************************************************************************)
\* "The same tenant doesn't generate an alert every poll": two alerts of one
\* level are a day apart, unless the budget did not remember the first when the
\* second's watcher read it: another replica was between its alert and its
\* mark, the mark failed, or a late mark of an older alert overwrote it.
\* Saving the budget forgets nothing.
AlertsSpaced ==
    \A i, j \in DOMAIN alerts :
        (i < j /\ Alike(alerts[i], alerts[j]) /\ i \in alerts[j].known)
            => alerts[j].at - alerts[i].at >= Cooldown
=============================================================================
