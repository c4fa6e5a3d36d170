----------------------------- MODULE MCMonitors -----------------------------
(* Contracts, costs and checks share no tables: a behaviour is about one of *)
(* them.  Tenant 1 makes requests; tenant 2 has a contract, costs, a budget *)
(* and a check.                                                             *)
EXTENDS Contracts, CostWatcher, Quality

CONSTANTS r1, r2, w1

VARIABLE area

RequestSymmetry == Permutations(Requests)

MCPeople == {[id |-> 1, tenant |-> 1, roles |-> {"admin"}, groups |-> {}]}

Nothing == [n \in {} |-> 0]
Declare(asset, status, cols, fresh, nulls) == [asset |-> asset, status |-> status, cols |-> cols, fresh |-> fresh, nulls |-> nulls]
MCDeclarations ==
    {Declare(1, "", [a |-> "int", b |-> "", d |-> ""], 0, [a |-> 1]), Declare(1, "suspended", Nothing, 1, Nothing), Declare(0, "", Nothing, 0, Nothing)}
MCProfiles == {[cols |-> [a |-> "text", c |-> "int"], nulls |-> [a |-> 2]]}

Prices == [gpt4 |-> [len |-> 5, in |-> 30, out |-> 60], gpt4o |-> [len |-> 6, in |-> 2, out |-> 10]]
MCModels == {{}, {"gpt4", "gpt4o"}}
MCWarehouses == [postgres |-> 0]
MCUsages == {[tokens |-> 1000, ms |-> 9000]}
MCBudgets == {[monthly |-> 5, warn |-> 0, hard |-> 0], [monthly |-> -1, warn |-> 0, hard |-> 0]}

Config(table, column, bound) == [table |-> table, column |-> column, bound |-> bound, max |-> 0]
CheckOf(type, config) == [asset |-> 1, type |-> type, config |-> config, enabled |-> TRUE]
MCChecks == {CheckOf("uniqueness", Config(1, 1, 0)), CheckOf("", Config(0, 0, 0))}
MCMeasurements == {[rows |-> 0, nulls |-> 0, age |-> 0, dups |-> 0, failing |-> 0], [rows |-> 3, nulls |-> 1, age |-> 30, dups |-> 1, failing |-> 2]}

MCSeed ==
    [contracts |-> <<[id |-> 1, tenant |-> 1, version |-> 1] @@ Declare(1, "active", Nothing, 1, [a |-> 1]),
                     [id |-> 2, tenant |-> 1, version |-> 1] @@ Declare(2, "active", [a |-> "text"], 0, Nothing),
                     [id |-> 3, tenant |-> 2, version |-> 1] @@ Declare(3, "active", Nothing, 1, Nothing)>>,
     breaches |-> <<[id |-> 4, tenant |-> 2, contract |-> 3, version |-> 1, base |-> 3] @@ Breach("freshness", <<0, 2>>)>>,
     costs |-> <<[tenant |-> 1, at |-> 0, kind |-> "warehouse_query", usd |-> 9],
                 [tenant |-> 2, at |-> 0, kind |-> "ai_completion", usd |-> 9]>>,
     budgets |-> <<[tenant |-> 1, monthly |-> 10, warn |-> 80, hard |-> 100, warned |-> -1, harded |-> -1],
                   [tenant |-> 2, monthly |-> -1, warn |-> 80, hard |-> 100, warned |-> -1, harded |-> -1]>>,
     checks |-> <<[id |-> 1, tenant |-> 1] @@ CheckOf("row_count", Config(1, 0, 0)),
                  [id |-> 2, tenant |-> 1] @@ CheckOf("custom_sql", Config(1, 0, 0)),
                  [id |-> 3, tenant |-> 2] @@ CheckOf("not_null", Config(1, 0, 0))>>,
     runs |-> <<>>]

mvars == <<area, db, req, started, faults, cvars, wvars, qvars>>

MCInit ==
    /\ area \in {"contracts", "costs", "checks"}
    /\ InitRequests(MCSeed)
    /\ InitContracts({1, 2, 3}, MCSeed.contracts)
    /\ InitCost
    /\ InitQuality

\* bound: two requests where contracts are evaluated
TwoRequests == started' \in {n \in {started, started + 1} : n <= 2}

\* bound: one request less where something fails
FewerWithFailure == faults' = 0 \/ started' < MaxRequests

MCNext ==
    /\ UNCHANGED area
    /\ \/ area = "contracts" /\ TwoRequests /\ ContractNext /\ UNCHANGED <<wvars, qvars>>
       \/ area = "costs" /\ CostNext /\ UNCHANGED <<cvars, qvars>>
       \/ area = "checks" /\ QualityNext /\ FewerWithFailure /\ UNCHANGED <<cvars, wvars>>

MCSpec == MCInit /\ [][MCNext]_mvars

\* Requests see and change rows of their own tenant only: the contracts, the
\* budgets' limits and the checks of the other tenant stay as they were, and
\* nothing of it is in what a handler shows, where that can change.
MonitorsApart ==
    /\ Foreign(db.contracts) = Foreign(MCSeed.contracts) /\ Foreign(db.checks) = Foreign(MCSeed.checks) /\ Foreign(db.runs) = {}
    /\ {b.monthly : b \in Foreign(db.budgets)} = {b.monthly : b \in Foreign(MCSeed.budgets)}
    /\ \A p \in People :
           LET Own(rows) == \A x \in rows : x.tenant = p.tenant
           IN  /\ area = "contracts" =>
                      /\ Own(ListContractsRequest(p)) /\ Own(GetContractRequest(p)) /\ Own(AssetContractRequest(p))
                      /\ Own(ContractBreachesRequest(p)) /\ Own(TenantBreachesRequest(p))
               /\ area = "costs" => Own(GetBudgetRequest(p)) /\ Own(RecentCostRequest(p)) /\ Own(SummaryCostRequest(p))
               /\ area = "checks" => Own(GetCheckRequest(p)) /\ Own(ListChecksRequest(p)) /\ Own(ListCheckRunsRequest(p))
=============================================================================
