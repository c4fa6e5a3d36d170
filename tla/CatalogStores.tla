---------------------------- MODULE CatalogStores ----------------------------
(***************************************************************************)
(* The catalog's stores.  In internal/storage/postgres: postgres.go,       *)
(* connections.go, classifications.go, classify_catalog.go, embeddings.go  *)
(* and jobs.go.                                                            *)
(*   connections     [id, tenant, name, type, urn, health]                 *)
(*   assets          [id, tenant, qn, type, desc, trust, tags, owners]     *)
(*   edges           [id, tenant, kind, from, to]                          *)
(*   classifications [tenant, asset, tag]                                  *)
(*   jobs            [id, tenant, type, status, pct, resource]             *)
(*   embeddings      [tenant, asset, text]                                 *)
(*   secrets         [urn, tenant, value]                                  *)
(* A qualified name is the sequence of its parts; a part is a number, and  *)
(* 10 more is the same word in capitals.                                   *)
(***************************************************************************)
EXTENDS Tables, TLC

(***************************************************************************)
(* The vault of core/secrets.  A value is what was sealed, and sealing it  *)
(* is left out: Open gives back what Seal took.                            *)
(***************************************************************************)
\* SecretURNFor: the urn names the tenant and what the secret is for.
SecretURNFor(tenant, kind, id) == <<tenant, kind, id>>
NoURN == <<>>

\* ON CONFLICT (urn) DO UPDATE ... WHERE the tenant is the same.
PutSealed(db, t, urn, value) ==
    LET P(s) == s.urn = urn
        Q(s) == s.urn = urn /\ s.tenant = t
    IN  IF Where(db.secrets, P) = {} THEN Ok([db EXCEPT !.secrets = Append(@, [urn |-> urn, tenant |-> t, value |-> value])])
        ELSE IF Where(db.secrets, Q) = {} THEN Fails("tenant_mismatch", db)
        ELSE Ok([db EXCEPT !.secrets = Set(@, Q, LAMBDA s : [s EXCEPT !.value = value])])

Put(db, t, urn, value) == IF urn = NoURN THEN Fails("required", db) ELSE PutSealed(db, t, urn, value)

GetSealed(db, t, urn) == Rows(db.secrets, LAMBDA s : s.urn = urn /\ s.tenant = t)

DeleteSealed(db, t, urn) ==
    LET P(s) == s.urn = urn /\ s.tenant = t
    IN  Affected(db, db.secrets, P, [db EXCEPT !.secrets = Without(@, P)])

PageLimit(n, max, default) == IF n <= 0 \/ n > max THEN default ELSE n

(***************************************************************************)
(* Connections                                                             *)
(***************************************************************************)
CreateConnection(db, c) ==
    IF Where(db.connections, LAMBDA x : x.tenant = c.tenant /\ x.name = c.name) # {} THEN Fails("name_taken", db)
    ELSE Ok([db EXCEPT !.connections = Append(@, [c EXCEPT !.health = "unknown"])])

\* The whole row but its health.
UpdateConnection(db, c) ==
    LET P(x) == x.tenant = c.tenant /\ x.id = c.id
    IN  IF Where(db.connections, P) = {} THEN Fails("not_found", db)
        ELSE IF Where(db.connections, LAMBDA x : x.tenant = c.tenant /\ x.name = c.name /\ x.id # c.id) # {}
        THEN Fails("name_taken", db)
        ELSE Ok([db EXCEPT !.connections = Set(@, P, LAMBDA x : [c EXCEPT !.health = x.health])])

GetConnection(db, t, id) == Rows(db.connections, LAMBDA x : x.tenant = t /\ x.id = id)
ListConnections(db, t) == Rows(db.connections, LAMBDA x : x.tenant = t)

DeleteConnection(db, t, id) ==
    LET P(x) == x.tenant = t /\ x.id = id
    IN  Affected(db, db.connections, P, [db EXCEPT !.connections = Without(@, P)])

\* No row is no error.
UpdateHealth(db, t, id, health) ==
    Ok([db EXCEPT !.connections = Set(@, LAMBDA x : x.tenant = t /\ x.id = id, LAMBDA x : [x EXCEPT !.health = health])])

(***************************************************************************)
(* Assets and edges                                                        *)
(***************************************************************************)
\* ORDER BY qualified_name
Before(a, b) ==
    \E i \in 1 .. Len(b) :
        /\ \A j \in 1 .. i - 1 : j <= Len(a) /\ a[j] = b[j]
        /\ i = Len(a) + 1 \/ (i <= Len(a) /\ a[i] < b[i])

\* LIKE parent || '.%'
Under(parent, qn) == Len(qn) > Len(parent) /\ SubSeq(qn, 1, Len(parent)) = parent

CreateAsset(db, a) ==
    IF Where(db.assets, LAMBDA x : x.tenant = a.tenant /\ x.qn = a.qn) # {} THEN Fails("conflict", db)
    ELSE Ok([db EXCEPT !.assets = Append(@, IF a.trust = "" THEN [a EXCEPT !.trust = "unverified"] ELSE a)])

GetAsset(db, t, id) == Rows(db.assets, LAMBDA x : x.tenant = t /\ x.id = id)
GetAssetByQualifiedName(db, t, qn) == Rows(db.assets, LAMBDA x : x.tenant = t /\ x.qn = qn)

\* The whole row.
UpdateAsset(db, a) ==
    LET P(x) == x.tenant = a.tenant /\ x.id = a.id
    IN  IF Where(db.assets, P) = {} THEN Fails("not_found", db)
        ELSE IF Where(db.assets, LAMBDA x : x.tenant = a.tenant /\ x.qn = a.qn /\ x.id # a.id) # {} THEN Fails("conflict", db)
        ELSE Ok([db EXCEPT !.assets = Set(@, P, LAMBDA x : a)])

\* ON DELETE CASCADE: what is about the asset goes with it.
DeleteAsset(db, t, id) ==
    LET P(x) == x.tenant = t /\ x.id = id
    IN  Affected(db, db.assets, P,
            [db EXCEPT !.assets = Without(@, P),
                       !.edges = Without(@, LAMBDA e : id \in {e.from, e.to}),
                       !.classifications = Without(@, LAMBDA c : c.asset = id),
                       !.embeddings = Without(@, LAMBDA e : e.asset = id),
                       !.assignments = Without(@, LAMBDA a : a.asset = id),
                       !.lineage = Without(@, LAMBDA l : id \in {l.from, l.to})])

TokenOfNextPage(db, t, type, size, token) ==  \* mutant: the token is the next page's first asset, which is then left out
    LET limit == PageLimit(size, 500, 50)
        after == Rows(db.assets, LAMBDA x : x.tenant = t /\ x.id = token)
        found == SelectSeq(db.assets, LAMBDA x : x.tenant = t /\ (token = 0 \/ \E y \in after : Before(y.qn, x.qn)))
        sorted == SortSeq(found, LAMBDA x, y : Before(x.qn, y.qn))
    IN  IF Len(sorted) > limit THEN [assets |-> SubSeq(sorted, 1, limit), next |-> sorted[limit + 1].id]
        ELSE [assets |-> sorted, next |-> 0]

\* One page: the assets after the one the token names, and the token of the
\* next page, 0 for none.  After a token nobody has, nothing comes.
ListAssets(db, t, type, size, token) ==
    LET limit == PageLimit(size, 500, 50)
        after == Rows(db.assets, LAMBDA x : x.tenant = t /\ x.id = token)
        found == SelectSeq(db.assets, LAMBDA x : /\ x.tenant = t
                                                 /\ type = "" \/ x.type = type
                                                 /\ token = 0 \/ \E y \in after : Before(y.qn, x.qn))
        sorted == SortSeq(found, LAMBDA x, y : Before(x.qn, y.qn))
    IN  IF Len(sorted) > limit THEN [assets |-> SubSeq(sorted, 1, limit), next |-> sorted[limit].id]
        ELSE [assets |-> sorted, next |-> 0]

CreateEdge(db, e) ==
    IF Where(db.edges, LAMBDA x : x.tenant = e.tenant /\ x.kind = e.kind /\ x.from = e.from /\ x.to = e.to) # {}
    THEN Fails("conflict", db)
    ELSE IF ~({e.from, e.to} \subseteq {db.assets[i].id : i \in DOMAIN db.assets}) THEN Fails("not_found", db)
    ELSE Ok([db EXCEPT !.edges = Append(@, e)])

Neighbors(db, t, asset, outgoing, kind) ==
    Rows(db.edges, LAMBDA e : /\ e.tenant = t
                              /\ asset = IF outgoing THEN e.from ELSE e.to
                              /\ kind = "" \/ e.kind = kind)

(***************************************************************************)
(* Classifications                                                         *)
(***************************************************************************)
\* ON CONFLICT (asset_id, classification): the row is there already.
Apply(db, t, asset, tag) ==
    IF Where(db.assets, LAMBDA x : x.id = asset) = {} THEN Fails("foreign_key", db)
    ELSE IF Where(db.classifications, LAMBDA c : c.asset = asset /\ c.tag = tag) # {} THEN Ok(db)
    ELSE Ok([db EXCEPT !.classifications = Append(@, [tenant |-> t, asset |-> asset, tag |-> tag])])

ListByAsset(db, t, asset) == Rows(db.classifications, LAMBDA c : c.tenant = t /\ c.asset = asset)

\* Views are not tables.
TablesForConnection(db, t, id) ==
    Rows(db.assets, LAMBDA x : /\ x.tenant = t /\ x.type = "table"
                               /\ \E c \in Rows(db.connections, LAMBDA c : c.id = id /\ c.tenant = t) : Under(<<c.name>>, x.qn))

ColumnsForTable(db, t, table) ==
    Rows(db.assets, LAMBDA x : /\ x.tenant = t /\ x.type = "column"
                               /\ \E y \in GetAsset(db, t, table) : Under(y.qn, x.qn))

\* The SELECT of MergeAssetTags, and its UPDATE.
TagsOf(db, t, asset) == {x.tags : x \in GetAsset(db, t, asset)}
SetTags(db, t, asset, tags) ==
    Ok([db EXCEPT !.assets = Set(@, LAMBDA x : x.tenant = t /\ x.id = asset, LAMBDA x : [x EXCEPT !.tags = tags])])

(***************************************************************************)
(* Embeddings: the vector of an asset is that of a text.                   *)
(***************************************************************************)
UpsertEmbedding(db, t, asset, text) ==
    LET P(e) == e.asset = asset
        row == [tenant |-> t, asset |-> asset, text |-> text]
    IN  IF Where(db.assets, LAMBDA x : x.id = asset) = {} THEN Fails("foreign_key", db)
        ELSE Ok([db EXCEPT !.embeddings = Append(Without(@, P), row)])

ListEmbeddings(db, t) == Rows(db.embeddings, LAMBDA e : e.tenant = t)

(***************************************************************************)
(* The ledger of jobs                                                      *)
(***************************************************************************)
CreateJob(db, j) == Ok([db EXCEPT !.jobs = Append(@, [status |-> "queued", pct |-> 0, id |-> j.id, tenant |-> j.tenant,
                                                      type |-> j.type, resource |-> j.resource])])
GetJob(db, t, id) == Rows(db.jobs, LAMBDA j : j.tenant = t /\ j.id = id)
ListJobs(db, t, limit) == Newest(db.jobs, LAMBDA j : j.tenant = t, PageLimit(limit, 500, 50))

StartAnyway(db, id) ==  \* mutant: whatever the job's status
    Ok([db EXCEPT !.jobs = Set(@, LAMBDA j : j.id = id, LAMBDA j : [j EXCEPT !.status = "running"])])

StartJob(db, id) ==
    Ok([db EXCEPT !.jobs = Set(@, LAMBDA j : j.id = id /\ j.status = "queued", LAMBDA j : [j EXCEPT !.status = "running"])])

Clamp(pct) == IF pct < 0 THEN 0 ELSE IF pct > 100 THEN 100 ELSE pct

Progress(db, id, pct) ==
    Ok([db EXCEPT !.jobs = Set(@, LAMBDA j : j.id = id /\ j.status \in {"queued", "running"},
                                  LAMBDA j : [j EXCEPT !.pct = Clamp(pct)])])

\* Whatever the job's status.
Succeed(db, id) ==
    Ok([db EXCEPT !.jobs = Set(@, LAMBDA j : j.id = id, LAMBDA j : [j EXCEPT !.status = "succeeded", !.pct = 100])])
Fail(db, id) == Ok([db EXCEPT !.jobs = Set(@, LAMBDA j : j.id = id, LAMBDA j : [j EXCEPT !.status = "failed"])])

(***************************************************************************)
(* storage/memory/memory.go, the catalog of a server without Postgres.     *)
(* db.byQN is the index, tuples of a tenant, a name in small letters and   *)
(* an id.  A mutex makes each method one step.                             *)
(***************************************************************************)
Lower(qn) == [i \in DOMAIN qn |-> qn[i] % 10]
QnKey(t, qn) == <<t, Lower(qn)>>
Indexed(db, key) == {x \in db.byQN : <<x[1], x[2]>> = key}

MemCreateAsset(db, a) ==
    IF Indexed(db, QnKey(a.tenant, a.qn)) # {} THEN Fails("conflict", db)
    ELSE IF Where(db.assets, LAMBDA x : x.tenant = a.tenant /\ x.id = a.id) # {} THEN Fails("conflict", db)
    ELSE Ok([db EXCEPT !.assets = Append(@, IF a.trust = "" THEN [a EXCEPT !.trust = "unverified"] ELSE a),
                       !.byQN = @ \cup {QnKey(a.tenant, a.qn) \o <<a.id>>}])

MemGetAsset(db, t, id) == Rows(db.assets, LAMBDA x : x.tenant = t /\ x.id = id)

MemGetAssetByQualifiedName(db, t, qn) == UNION {MemGetAsset(db, t, k[3]) : k \in Indexed(db, QnKey(t, qn))}

\* A new name that differs in capitals only is taken, by the asset itself.
MemUpdateAsset(db, a) ==
    LET P(x) == x.tenant = a.tenant /\ x.id = a.id
    IN  IF Where(db.assets, P) = {} THEN Fails("not_found", db)
        ELSE LET old == CHOOSE x \in Rows(db.assets, P) : TRUE
             IN  IF old.qn = a.qn THEN Ok([db EXCEPT !.assets = Set(@, P, LAMBDA x : a)])
                 ELSE IF Indexed(db, QnKey(a.tenant, a.qn)) # {} THEN Fails("conflict", db)
                 ELSE Ok([db EXCEPT !.assets = Set(@, P, LAMBDA x : a),
                                    !.byQN = (@ \ Indexed(db, QnKey(a.tenant, old.qn)))
                                             \cup {QnKey(a.tenant, a.qn) \o <<a.id>>}])

MemDeleteAsset(db, t, id) ==
    LET P(x) == x.tenant = t /\ x.id = id
    IN  IF Where(db.assets, P) = {} THEN Fails("not_found", db)
        ELSE LET old == CHOOSE x \in Rows(db.assets, P) : TRUE
             IN  Ok([db EXCEPT !.assets = Without(@, P),
                               !.byQN = @ \ Indexed(db, QnKey(t, old.qn)),
                               !.edges = Without(@, LAMBDA e : e.tenant = t /\ id \in {e.from, e.to})])

\* A token nobody has is the first page again.
MemListAssets(db, t, type, size, token) ==
    LET limit == PageLimit(size, 500, 50)
        found == SelectSeq(db.assets, LAMBDA x : x.tenant = t /\ (type = "" \/ x.type = type))
        sorted == SortSeq(found, LAMBDA x, y : Before(x.qn, y.qn))
        start == CHOOSE n \in 0 .. Len(sorted) :
                     IF \E i \in DOMAIN sorted : sorted[i].id = token THEN n > 0 /\ sorted[n].id = token ELSE n = 0
        end == IF start + limit > Len(sorted) THEN Len(sorted) ELSE start + limit
    IN  [assets |-> SubSeq(sorted, start + 1, end), next |-> IF end < Len(sorted) THEN sorted[end].id ELSE 0]

MemNeighbors(db, t, asset, outgoing, kind) ==
    Rows(db.edges, LAMBDA e : e.tenant = t /\ (kind = "" \/ e.kind = kind) /\ asset = IF outgoing THEN e.from ELSE e.to)
=============================================================================
