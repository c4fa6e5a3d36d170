----------------------------- MODULE Contracts ------------------------------
(***************************************************************************)
(* Data contracts (internal/core/contract, api/http/contracts.go): what a  *)
(* producer promises of an asset, and the evaluations that compare it with *)
(* the asset's profile and record and announce breaches.  Requests and the *)
(* periodic runners of the replicas evaluate concurrently.  A contract     *)
(* pins columns (cols, column -> type, "" for any), the age of the profile *)
(* (fresh, 0 for none) and shares of nulls (nulls, column -> tenths).  A   *)
(* profile is [cols, nulls, at], where nulls has no column without rows.   *)
(***************************************************************************)
EXTENDS HttpRequests, Functions

CONSTANTS
    Declarations,  \* bodies of requests, [asset, status, cols, fresh, nulls]
    Profiled,      \* assets that are profiled
    Profiles,      \* what profiling may find, [cols, nulls]
    Window,        \* recent breaches that an evaluation looks at
    MaxProfiles,   \* bound: times an asset is profiled
    MaxSeconds     \* bound: time

\* The store does not take a limit for what it is otherwise (Limit).
ASSUME WindowAssumption == Window \in 1..500

VARIABLES
    profile,   \* asset -> its latest profile, a set with at most one
    profiled,  \* profiles made so far
    second,    \* the time
    announced, \* breaches published on the bus
    lost,      \* breaches whose evaluation died before it could publish them
    declared,  \* <<contract, version>> -> what was declared
    minted     \* ids given to contracts and breaches so far

cvars == <<profile, profiled, second, announced, lost, declared, minted>>

(***************************************************************************)
(* The store (storage/postgres/contract.go).                               *)
(*   contracts [id, tenant, asset, status, version, cols, fresh, nulls]    *)
(*   breaches  [id, tenant, contract, version, kind, observed]             *)
(***************************************************************************)
ContractRow(id, version, t, body) ==
    [id |-> id, version |-> version, tenant |-> t, asset |-> body.asset, status |-> body.status,
     cols |-> body.cols, fresh |-> body.fresh, nulls |-> body.nulls]

\* ON CONFLICT (tenant_id, asset_id): the next version on the same row.
UpsertContract(d, t, body, id) ==
    LET P(c) == c.tenant = t /\ c.asset = body.asset
    IN  Ok([d EXCEPT !.contracts =
                IF Where(@, P) = {} THEN Append(@, ContractRow(id, 1, t, body))
                ELSE Set(@, P, LAMBDA c : ContractRow(c.id, c.version + 1, t, body))])

GetContract(d, t, id) == Rows(d.contracts, LAMBDA c : c.tenant = t /\ c.id = id)

\* No row is no error.
GetContractByAsset(d, t, asset) == Rows(d.contracts, LAMBDA c : c.tenant = t /\ c.asset = asset)

ListContracts(d, t) == Rows(d.contracts, LAMBDA c : c.tenant = t)

DeleteAnywhere(d, t, id) ==  \* mutant: the tenant is not looked at
    Ok([d EXCEPT !.contracts = Without(@, LAMBDA c : c.id = id), !.breaches = Without(@, LAMBDA b : b.contract = id)])

\* Its breaches go with it; a contract that is not there is no error.
DeleteContract(d, t, id) ==
    LET P(c) == c.tenant = t /\ c.id = id
    IN  IF Where(d.contracts, P) = {} THEN Ok(d)
        ELSE Ok([d EXCEPT !.contracts = Without(@, P), !.breaches = Without(@, LAMBDA b : b.contract = id)])

TenantsWithContracts(d) == {c.tenant : c \in Rows(d.contracts, LAMBDA x : x.status = "active")}

\* contract_id references a contract.
RecordBreach(d, b) ==
    IF Where(d.contracts, LAMBDA c : c.id = b.contract) = {} THEN Fails("foreign_key", d)
    ELSE Ok([d EXCEPT !.breaches = Append(@, b)])

ListBreaches(d, t, limit) == Newest(d.breaches, LAMBDA b : b.tenant = t, Limit(limit, 500, 100))

ListBreachesForContract(d, t, id, limit) ==
    Newest(d.breaches, LAMBDA b : b.tenant = t /\ b.contract = id, Limit(limit, 500, 100))

Ids == 1..minted

(***************************************************************************)
(* detectBreaches                                                          *)
(***************************************************************************)
Breach(kind, observed) == [kind |-> kind, observed |-> observed]

Orders(S) == {o \in [1..Cardinality(S) -> S] : \A i, j \in DOMAIN o : o[i] = o[j] => i = j}

\* The columns that have two types, neither of them unknown.
Changed(c, p) ==
    [n \in {n \in DOMAIN c.cols \cap DOMAIN p.cols : "" \notin {c.cols[n], p.cols[n]} /\ c.cols[n] # p.cols[n]} |->
        <<c.cols[n], p.cols[n]>>]

\* Missing and extra columns are listed in the order of a Go map: any order.
SchemaDriftBreaches(c, p) ==
    LET missing == DOMAIN c.cols \ DOMAIN p.cols
        extra == DOMAIN p.cols \ DOMAIN c.cols
    IN  IF DOMAIN c.cols = {} \/ missing \cup extra \cup DOMAIN Changed(c, p) = {} THEN {{}}
        ELSE {{Breach("schema_drift", <<m, e, Changed(c, p)>>)} : m \in Orders(missing), e \in Orders(extra)}

FreshnessBreach(c, p, now) ==
    IF c.fresh > 0 /\ now - p.at > c.fresh THEN {Breach("freshness", <<p.at, now - p.at>>)} ELSE {}

NullThresholdBreaches(c, p) ==
    {Breach("null_threshold", <<n, p.nulls[n]>>) :
         n \in {n \in DOMAIN c.nulls \cap DOMAIN p.nulls : p.nulls[n] > c.nulls[n]}}

\* Every set of breaches that the detection may come out with.
DetectBreaches(c, p, now) ==
    {drift \cup FreshnessBreach(c, p, now) \cup NullThresholdBreaches(c, p) : drift \in SchemaDriftBreaches(c, p)}

\* A hash of the kind and of the observation.
BreachSig(b) == <<b.kind, b.observed>>

(***************************************************************************)
(* Requests                                                                *)
(***************************************************************************)
Defaulted(body) ==
    [asset |-> body.asset, status |-> IF body.status = "" THEN "active" ELSE body.status,
     cols |-> body.cols, fresh |-> body.fresh, nulls |-> body.nulls]

UpsertChecked(t, body) ==  \* Service.Upsert
    IF body.asset = Blank THEN Fails("invalid", db)
    ELSE UpsertContract(db, t, Defaulted(body), minted + 1)

UpsertContractRequest(r, p) ==
    /\ Admitted(r, p, "edit", "contract")
    /\ \E body \in Declarations :
           LET answer == UpsertChecked(p.tenant, body)
               saved == Rows(answer.db.contracts, LAMBDA c : c.tenant = p.tenant /\ c.asset = body.asset)
               keys == {<<c.id, c.version>> : c \in saved}
           IN  /\ Finish(r, answer)
               /\ declared' = [key \in DOMAIN declared \cup keys |->
                                   IF key \in DOMAIN declared THEN declared[key]
                                   ELSE CHOOSE c \in saved : <<c.id, c.version>> = key]
    /\ minted' = minted + 1
    /\ UNCHANGED <<profile, profiled, second, announced, lost>>

DeleteContractRequest(r, p) ==
    /\ Admitted(r, p, "delete", "contract")
    /\ \E id \in Ids : Finish(r, DeleteContract(db, p.tenant, id))
    /\ UNCHANGED cvars

\* What the handlers that only read show p.
ListContractsRequest(p) == IF Gate(p, "read", "contract") THEN ListContracts(db, p.tenant) ELSE {}
GetContractRequest(p) == IF Gate(p, "read", "contract") THEN UNION {GetContract(db, p.tenant, id) : id \in Ids} ELSE {}
AssetContractRequest(p) ==
    IF Gate(p, "read", "contract") THEN UNION {GetContractByAsset(db, p.tenant, a) : a \in DOMAIN profile} ELSE {}
ContractBreachesRequest(p) ==
    IF Gate(p, "read", "contract") THEN UNION {ListBreachesForContract(db, p.tenant, id, 0) : id \in Ids} ELSE {}
TenantBreachesRequest(p) == IF Gate(p, "read", "contract") THEN ListBreaches(db, p.tenant, 0) ELSE {}

(***************************************************************************)
(* Evaluations.  The state of one is [at, tenants, tenant, todo, ...]: the *)
(* tenants and the contracts that it has still to look at.                 *)
(***************************************************************************)
Evaluation(tenants, t, todo) == [at |-> "evaluate", tenants |-> tenants, tenant |-> t, todo |-> todo]

EvaluateContractRequest(r, p) ==
    /\ Admitted(r, p, "run", "contract")
    /\ \E id \in Ids : Goto(r, Evaluation({}, p.tenant, {id}))
    /\ UNCHANGED <<db, cvars>>

EvaluateAllRequest(r, p) ==
    /\ Admitted(r, p, "run", "contract")
    /\ Goto(r, Evaluation({p.tenant}, Blank, {}))
    /\ UNCHANGED <<db, cvars>>

\* Runner.runOnce, at each tick of a replica.
RunOnce(r) ==
    /\ Begin(r)
    /\ Goto(r, Evaluation(TenantsWithContracts(db), Blank, {}))
    /\ UNCHANGED <<db, cvars>>

\* EvaluateAll lists a tenant's contracts.
EvaluateAll(r) ==
    /\ Continue(r, "evaluate") /\ req[r].todo = {}
    /\ \E t \in req[r].tenants :
           Goto(r, Evaluation(req[r].tenants \ {t}, t, {c.id : c \in {c \in ListContracts(db, t) : c.status = "active"}}))
    /\ UNCHANGED <<db, cvars>>

EvaluationEnds(r) ==
    /\ Continue(r, "evaluate") /\ req[r].todo = {} /\ req[r].tenants = {}
    /\ Answer(r)
    /\ UNCHANGED <<db, cvars>>

ListOfTenant(t, id) ==  \* mutant: the recent breaches of all contracts of the tenant
    {b \in ListBreaches(db, t, Window) : b.contract = id}

RecentBreaches(t, id) == ListBreachesForContract(db, t, id, Window)

Recording(e, c, base, found) ==
    [at |-> "record", tenants |-> e.tenants, tenant |-> e.tenant, todo |-> e.todo,
     contract |-> c, base |-> base, found |-> found]

\* Evaluate up to the loop, when it reads the history.  The contract and the
\* profile are read just before it: what changes them in between could as well
\* follow, since the loop goes on with the copies it has.  When the history
\* cannot be read it counts as empty.  base is what had been recorded by then,
\* -1 when it could not be read.
Load(r, base) ==
    /\ req[r].todo # {}
    /\ LET id == CHOOSE id \in req[r].todo : \A other \in req[r].todo : id <= other
           rest == Evaluation(req[r].tenants, req[r].tenant, req[r].todo \ {id})
           active == {c \in GetContract(db, req[r].tenant, id) : c.status = "active"}
           seen == IF base = -1 THEN {} ELSE {BreachSig(b) : b \in RecentBreaches(req[r].tenant, id)}
       IN  IF \E c \in active : profile[c.asset] # {}
           THEN \E c \in active : \E p \in profile[c.asset] : \E found \in DetectBreaches(c, p, second) :
                    Goto(r, Recording(rest, c, base, {b \in found : BreachSig(b) \notin seen}))
           ELSE Goto(r, rest)

Evaluate(r) ==
    /\ Continue(r, "evaluate")
    /\ Load(r, minted)
    /\ UNCHANGED <<db, cvars>>

EvaluateBlind(r) ==
    /\ At(r, "evaluate") /\ faults < MaxFaults /\ faults' = faults + 1
    /\ Load(r, -1)
    /\ UNCHANGED <<db, started, cvars>>

\* The version that was evaluated.
VersionOf(r) == {req[r].contract.version}

\* Drift, then age, then nulls.
First(found) ==
    LET rank(b) == CASE b.kind = "schema_drift" -> 1 [] b.kind = "freshness" -> 2 [] OTHER -> 3
    IN  {b \in found : \A other \in found : rank(b) <= rank(other)}

\* On to the next breach.
Goes(r, found) == Goto(r, Recording(req[r], req[r].contract, req[r].base, found))

\* A breach that was recorded is announced before the next one is.
Publishing(e, found, id) ==
    [at |-> "publish", tenants |-> e.tenants, tenant |-> e.tenant, todo |-> e.todo,
     contract |-> e.contract, base |-> e.base, found |-> found, breach |-> id]

BreachRow(id, c, version, base, b) ==
    [id |-> id, tenant |-> c.tenant, contract |-> c.id, version |-> version, base |-> base,
     kind |-> b.kind, observed |-> b.observed]

\* A breach that cannot be recorded is logged and not announced.
SaveBreach(r) ==
    /\ Continue(r, "record")
    /\ \E b \in First(req[r].found) : \E v \in VersionOf(r) :
           LET answer == RecordBreach(db, BreachRow(minted + 1, req[r].contract, v, req[r].base, b))
               rest == req[r].found \ {b}
           IN  /\ db' = answer.db
               /\ IF answer.err = "ok" THEN Goto(r, Publishing(req[r], rest, minted + 1)) ELSE Goes(r, rest)
    /\ minted' = minted + 1
    /\ UNCHANGED <<profile, profiled, second, announced, lost, declared>>

SaveBreachFails(r) ==
    /\ At(r, "record") /\ faults < MaxFaults /\ faults' = faults + 1
    /\ \E b \in First(req[r].found) : Goes(r, req[r].found \ {b})
    /\ UNCHANGED <<db, started, cvars>>

PublishBreach(r) ==
    /\ Continue(r, "publish")
    /\ announced' = announced \cup {req[r].breach}
    /\ Goes(r, req[r].found)
    /\ UNCHANGED <<db, profile, profiled, second, lost, declared, minted>>

\* The replica dies, or shuts down, in the middle of an evaluation.
EvaluationDies(r) ==
    /\ req[r].at \in {"evaluate", "record", "publish"}
    /\ faults < MaxFaults /\ faults' = faults + 1
    /\ lost' = IF At(r, "publish") THEN lost \cup {req[r].breach} ELSE lost
    /\ Answer(r)
    /\ UNCHANGED <<db, started, profile, profiled, second, announced, declared, minted>>

\* The loop of Evaluate is through.
Evaluated(r) ==
    /\ Continue(r, "record") /\ req[r].found = {}
    /\ Goto(r, Evaluation(req[r].tenants, req[r].tenant, req[r].todo))
    /\ UNCHANGED <<db, cvars>>

(***************************************************************************)
(* The rest of the system                                                  *)
(***************************************************************************)
\* An asset is profiled.
ProfileAsset ==
    /\ profiled < MaxProfiles
    /\ profiled' = profiled + 1
    /\ \E a \in Profiled, p \in Profiles :
           profile' = [profile EXCEPT ![a] = {[at |-> second, cols |-> p.cols, nulls |-> p.nulls]}]
    /\ UNCHANGED <<db, req, started, faults, second, announced, lost, declared, minted>>

SecondPasses ==
    /\ second < MaxSeconds
    /\ second' = second + 1
    /\ UNCHANGED <<db, req, started, faults, profile, profiled, announced, lost, declared, minted>>

InitContracts(assets, seed) ==
    /\ profile = [a \in assets |-> {}]
    /\ profiled = 0
    /\ second = 0
    /\ announced = {db.breaches[i].id : i \in DOMAIN db.breaches}
    /\ lost = {}
    /\ declared = [key \in {<<c.id, c.version>> : c \in Range(seed)} |-> CHOOSE c \in Range(seed) : <<c.id, c.version>> = key]
    /\ minted = Len(db.contracts) + Len(db.breaches)

ContractStep(r) ==
    \/ RunOnce(r) \/ EvaluateAll(r) \/ EvaluationEnds(r) \/ Evaluate(r) \/ EvaluateBlind(r)
    \/ SaveBreach(r) \/ SaveBreachFails(r) \/ PublishBreach(r) \/ EvaluationDies(r) \/ Evaluated(r)
    \/ \E p \in People :
           \/ UpsertContractRequest(r, p) \/ DeleteContractRequest(r, p)
           \/ EvaluateContractRequest(r, p) \/ EvaluateAllRequest(r, p)

ContractNext == (\E r \in Requests : ContractStep(r)) \/ ProfileAsset \/ SecondPasses

ContractSpec(assets, seed) ==
    InitRequests(seed) /\ InitContracts(assets, seed.contracts)
        /\ [][ContractNext]_<<db, req, started, faults, cvars>>

(***************************************************************************)
(* Properties                                                              *)
(***************************************************************************)
\* An evaluation that read the history when base breaches and contracts had
\* been made could not know of breach a: it was not recorded yet, or there were
\* as many newer ones of its contract as Evaluate looks at.
Excused(breaches, a, base) ==
    \/ a.id > base
    \/ Cardinality({x.id : x \in Rows(breaches, LAMBDA x : x.contract = a.contract /\ a.id < x.id /\ x.id <= base)}) >= Window

\* "Operators don't want a still broken alert every 5 minutes": a breach that
\* repeats an earlier one of its contract, observation for observation, was
\* found by an evaluation that could not know: the history could not be read,
\* the earlier breach was recorded after it had been read, or as many newer
\* breaches of the contract as Evaluate looks at came in between.
Once(breaches) ==
    \A i, j \in DOMAIN breaches :
        LET a == breaches[i]
            b == breaches[j]
        IN  (i < j /\ a.contract = b.contract /\ BreachSig(a) = BreachSig(b))
                => b.base = -1 \/ Excused(breaches, a, b.base)

BreachesOnce == Once(db.breaches)

\* b is a breach of what c, a version of a contract, says.
Breaks(b, c) ==
    /\ c.status = "active"
    /\ b.kind = "schema_drift" => /\ Range(b.observed[1]) \subseteq DOMAIN c.cols
                                  /\ Range(b.observed[2]) \cap DOMAIN c.cols = {}
                                  /\ \A n \in DOMAIN b.observed[3] : b.observed[3][n][1] = c.cols[n]
    /\ b.kind = "freshness" => c.fresh > 0 /\ b.observed[2] > c.fresh
    /\ b.kind = "null_threshold" => b.observed[1] \in DOMAIN c.nulls /\ b.observed[2] > c.nulls[b.observed[1]]

\* The audit trail "lives on breach records": a breach is one of what the
\* contract said in the version that the breach names, also when the contract
\* was changed while it was evaluated.
VersionHonest ==
    \A i \in DOMAIN db.breaches :
        LET b == db.breaches[i]
            c == declared[<<b.contract, b.version>>]
        IN  b.tenant = c.tenant /\ Breaks(b, c)

\* A breach that is recorded has been announced or is about to be, unless its
\* evaluation died between the two: then no later one announces it.
BreachesAnnounced ==
    /\ announced \cap lost = {}
    /\ \A i \in DOMAIN db.breaches :
           (db.breaches[i].id \notin announced \cup lost)
               <=> \E r \in Requests : At(r, "publish") /\ req[r].breach = db.breaches[i].id

\* Every breach is told once, rightly, and to those who listen.
BreachesReported == BreachesOnce /\ VersionHonest /\ BreachesAnnounced
=============================================================================
