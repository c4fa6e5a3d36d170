------------------------------- MODULE Asker --------------------------------
(***************************************************************************)
(* What a tenant's AI is asked, and with what.                             *)
(*                                                                         *)
(* The AI providers and the vector stores a tenant brings along            *)
(* (internal/api/http/ai_providers.go and vectorstores.go, and their       *)
(* stores in internal/storage/postgres) are configurations                 *)
(*   [id, tenant, kind, name, slot, urn, primary, tested]                  *)
(* whose key is in the vault.  One configuration of a slot may be primary: *)
(* the slot of a provider is its capability, the vector stores of a tenant *)
(* share one.  What else is configured is left out.                        *)
(*                                                                         *)
(* Questions in words that a model answers with SQL (internal/core/asker,  *)
(* api/http/ask.go) and descriptions it suggests (internal/core/describer),*)
(* from facts about tables (internal/core/aictx).  A query is run only by  *)
(* a request of its own.                                                   *)
(*   executions   [id, tenant, conn, sql, by, status]                      *)
(*   descriptions [tenant, asset, by]                                      *)
(*   costs        [tenant, kind, of]                                       *)
(* SQL is the sequence of its statements, and a statement that of its      *)
(* words; how they are told from comments and literals is left out, and so *)
(* are the wording of prompts and the mirror in the object store.          *)
(***************************************************************************)
EXTENDS CatalogTasks, Knowledge

CONSTANTS
    ProviderKinds,   \* AllKinds, of which
    KeyOptional,     \* these need no key
    ProviderBodies,  \* bodies of requests, [kind, name, slot, key, primary]; key 0 is none
    VectorKinds,     \* kinds of vector stores, of which
    RemoteKinds,     \* these are asked when they are tested, and
    KeyedKinds,      \* these need a key
    VectorBodies     \* bodies of requests

ProviderURN(id) == <<0, "ai_provider", id>>
VectorURN(id) == <<0, "vectorstore", id>>

(***************************************************************************)
(* The stores.  tbl is "providers" or "vectors".                           *)
(***************************************************************************)
Same(x, c) == x.tenant = c.tenant /\ x.id = c.id

\* The unique index over the primary rows.
UniquePrimary(d, tbl) ==
    LET rows == d[tbl]
    IN  \A i, j \in DOMAIN rows : i # j /\ rows[i].primary /\ rows[j].primary =>
            rows[i].tenant # rows[j].tenant \/ rows[i].slot # rows[j].slot

\* A statement that would break the index fails.
IndexHolds(d, tbl, new) == IF UniquePrimary(new, tbl) THEN Ok(new) ELSE Fails("unique", d)

Insert(d, tbl, c) == IndexHolds(d, tbl, [d EXCEPT ![tbl] = Append(@, c)])
CreateProvider(d, c) == Insert(d, "providers", c)
CreateVectorStore(d, c) == Insert(d, "vectors", c)

GetConfig(d, tbl, t, id) == Rows(d[tbl], LAMBDA x : x.tenant = t /\ x.id = id)
GetProvider(d, t, id) == GetConfig(d, "providers", t, id)
GetVectorStore(d, t, id) == GetConfig(d, "vectors", t, id)

ListProviders(d, t) == Rows(d.providers, LAMBDA x : x.tenant = t)
ListVectorStores(d, t) == Rows(d.vectors, LAMBDA x : x.tenant = t)

\* Neither the urn nor whether it is primary.
Rewrite(d, tbl, c) ==
    LET new == [d EXCEPT ![tbl] = Set(@, LAMBDA x : Same(x, c), LAMBDA x : [x EXCEPT !.name = c.name, !.slot = c.slot])]
    IN  IF GetConfig(d, tbl, c.tenant, c.id) = {} THEN Fails("not_found", d) ELSE IndexHolds(d, tbl, new)
UpdateProvider(d, c) == Rewrite(d, "providers", c)
UpdateVectorStore(d, c) == Rewrite(d, "vectors", c)

Remove(d, tbl, t, id) ==
    LET P(x) == x.tenant = t /\ x.id = id
    IN  Affected(d, d[tbl], P, [d EXCEPT ![tbl] = Without(@, P)])
DeleteProvider(d, t, id) == Remove(d, "providers", t, id)
DeleteVectorStore(d, t, id) == Remove(d, "vectors", t, id)

SetURN(d, tbl, c, urn) ==
    Affected(d, d[tbl], LAMBDA x : Same(x, c), [d EXCEPT ![tbl] = Set(@, LAMBDA x : Same(x, c), LAMBDA x : [x EXCEPT !.urn = urn])])
SetProviderURN(d, c) == SetURN(d, "providers", c, ProviderURN(c.id))
SetVectorURN(d, c) == SetURN(d, "vectors", c, VectorURN(c.id))

\* No row is no error.
MarkTested(d, tbl, c, tested) ==
    [d EXCEPT ![tbl] = Set(@, LAMBDA x : Same(x, c), LAMBDA x : [x EXCEPT !.tested = tested])]
MarkProviderTested(d, c, tested) == MarkTested(d, "providers", c, tested)
MarkVectorTested(d, c, tested) == MarkTested(d, "vectors", c, tested)

\* A transaction, READ COMMITTED: the slot is read, and nothing locked.
SlotOf(d, t, id) == {c.slot : c \in GetProvider(d, t, id)}

\* Then the others in that slot are demoted, and the row promoted, wherever it
\* is by now, if it is.  The rows demoted are locked up to the commit; what is
\* committed between the two statements either might as well come before
\* both, or breaks the index, which rolls the transaction back.
Demoted(d, t, id, slot) ==
    [d EXCEPT !.providers = Set(@, LAMBDA x : x.tenant = t /\ x.slot = slot /\ x.id # id, LAMBDA x : [x EXCEPT !.primary = FALSE])]
SetPrimaryProvider(d, t, id, slot) ==
    LET alone == Demoted(d, t, id, slot)
        new == [alone EXCEPT !.providers = Set(@, LAMBDA x : x.tenant = t /\ x.id = id, LAMBDA x : [x EXCEPT !.primary = TRUE])]
    IN  IF UniquePrimary(new, "providers") THEN Ok(new) ELSE Fails("unique", d)

\* Vector stores have no slot to read, and without a row to promote the
\* transaction is rolled back.
SetPrimaryVectorStore(d, t, id) ==
    IF GetVectorStore(d, t, id) = {} THEN Fails("not_found", d)
    ELSE Ok([d EXCEPT !.vectors = Set(@, LAMBDA x : x.tenant = t, LAMBDA x : [x EXCEPT !.primary = x.id = id])])

(***************************************************************************)
(* Requests.  The steps after the first are alike for both tables; the     *)
(* store in use is w.tbl's.                                                *)
(***************************************************************************)
ValidProvider(body, requireKey) ==
    /\ body.name # 0
    /\ body.kind \in ProviderKinds
    /\ body.slot \in {"chat", "embed"}
    /\ requireKey /\ body.key = 0 => body.kind \in KeyOptional

ValidVectorStore(body, requireKey) ==
    /\ body.name # 0
    /\ body.kind \in VectorKinds
    /\ requireKey /\ body.key = 0 => body.kind \notin KeyedKinds

NewConfig(p, body) ==
    [id |-> 100 + started', tenant |-> p.tenant, kind |-> body.kind, name |-> body.name, slot |-> body.slot,
     urn |-> NoURN, primary |-> body.primary, tested |-> FALSE]

Work(tbl, at, c, body) == [at |-> at, tbl |-> tbl, cfg |-> c, key |-> body.key, primary |-> body.primary]

\* POST: the row is inserted as primary if asked, which fails while another
\* is; the key is stored even if there is none.
CreateAIProviderRequest(r, p) ==
    /\ Admitted(r, p, "admin", "ai_provider")
    /\ \E body \in ProviderBodies :
           IF ValidProvider(body, TRUE)
           THEN Then(r, CreateProvider(db, NewConfig(p, body)), Work("providers", "putkey", NewConfig(p, body), body))
           ELSE UNCHANGED db /\ Answer(r)

CreateVectorStoreRequest(r, p) ==
    /\ Admitted(r, p, "admin", "vector_store")
    /\ \E body \in VectorBodies :
           IF ValidVectorStore(body, TRUE)
           THEN Then(r, CreateVectorStore(db, NewConfig(p, body)),
                     Work("vectors", IF body.key # 0 THEN "putkey" ELSE "promote", NewConfig(p, body), body))
           ELSE UNCHANGED db /\ Answer(r)

URNFor(tbl, c) == IF tbl = "providers" THEN ProviderURN(c.id) ELSE VectorURN(c.id)

PutKey(r) ==
    /\ Continue(r, "putkey")
    /\ LET w == req[r]
       IN  Then(r, Put(db, w.cfg.tenant, URNFor(w.tbl, w.cfg), w.key),
                [w EXCEPT !.at = IF w.tbl = "providers" THEN "rewrite" ELSE "seturn"])

\* The vault fails: the row is deleted again, best effort.
PutKeyFails(r) ==
    /\ At(r, "putkey")
    /\ faults < MaxFaults /\ faults' = faults + 1
    /\ Goto(r, [req[r] EXCEPT !.at = "undo"])
    /\ UNCHANGED <<db, started>>

UndoConfig(r) ==
    /\ Continue(r, "undo")
    /\ db' = Remove(db, req[r].tbl, req[r].cfg.tenant, req[r].cfg.id).db
    /\ Answer(r)

\* A provider is written once more as it was sent.
RewriteProvider(r) ==
    /\ Continue(r, "rewrite")
    /\ Then(r, UpdateProvider(db, req[r].cfg), [req[r] EXCEPT !.at = "seturn"])

StampConfig(r) ==
    /\ Continue(r, "seturn")
    /\ LET w == req[r]
       IN  Then(r, IF w.tbl = "providers" THEN SetProviderURN(db, w.cfg) ELSE SetVectorURN(db, w.cfg), [w EXCEPT !.at = "promote"])

\* Having read a slot, or none, of the provider to make primary.
ToSwitch(r, t, id) ==
    IF SlotOf(db, t, id) = {} THEN Answer(r)
    ELSE \E slot \in SlotOf(db, t, id) : Goto(r, [at |-> "switch", tenant |-> t, id |-> id, slot |-> slot])

\* If asked; an error is ignored.
PromoteConfig(r) ==
    /\ Continue(r, "promote")
    /\ LET w == req[r]
       IN  IF w.primary /\ w.tbl = "providers" THEN ToSwitch(r, w.cfg.tenant, w.cfg.id) /\ UNCHANGED db
           ELSE /\ db' = IF w.primary THEN SetPrimaryVectorStore(db, w.cfg.tenant, w.cfg.id).db ELSE db
                /\ Answer(r)

SwitchPrimary(r) ==
    /\ Continue(r, "switch")
    /\ Finish(r, SetPrimaryProvider(db, req[r].tenant, req[r].id, req[r].slot))

\* PATCH: the row is read, overwritten but for its kind, and written.
Overwritten(c, body) == [c EXCEPT !.name = body.name, !.slot = body.slot]

UpdateAIProviderRequest(r, p) ==
    /\ Admitted(r, p, "admin", "ai_provider")
    /\ \E body \in ProviderBodies, i \in DOMAIN db.providers :
           LET found == GetProvider(db, p.tenant, db.providers[i].id)
           IN  IF ValidProvider(body, FALSE) /\ found # {}
               THEN \E c \in found : Goto(r, Work("providers", "save", Overwritten(c, body), body))
               ELSE Answer(r)
    /\ UNCHANGED db

UpdateVectorStoreRequest(r, p) ==
    /\ Admitted(r, p, "admin", "vector_store")
    /\ \E body \in VectorBodies, i \in DOMAIN db.vectors :
           LET found == GetVectorStore(db, p.tenant, db.vectors[i].id)
           IN  IF ValidVectorStore(body, FALSE) /\ found # {}
               THEN \E c \in found : Goto(r, Work("vectors", "save", Overwritten(c, body), body))
               ELSE Answer(r)
    /\ UNCHANGED db

SaveConfig(r) ==
    /\ Continue(r, "save")
    /\ LET w == req[r]
           next == [w EXCEPT !.at = IF w.key # 0 THEN "rekey" ELSE "promote", !.primary = @ /\ ~w.cfg.primary]
       IN  Then(r, IF w.tbl = "providers" THEN UpdateProvider(db, w.cfg) ELSE UpdateVectorStore(db, w.cfg), next)

\* Under the urn that was read, which may be none: then there is no key and
\* the request fails after the row was written.
Rekey(r) ==
    /\ Continue(r, "rekey")
    /\ LET w == req[r]
           put == Put(db, w.cfg.tenant, w.cfg.urn, w.key)
       IN  Then(r, IF put.err = "ok" /\ w.tbl = "providers" THEN Ok(MarkProviderTested(put.db, w.cfg, FALSE)) ELSE put,
                [w EXCEPT !.at = "promote"])

\* DELETE: the row is read for its urn and deleted; then its key, best effort.
DeleteAIProviderRequest(r, p) ==
    /\ Admitted(r, p, "admin", "ai_provider")
    /\ \E i \in DOMAIN db.providers :
           LET found == GetProvider(db, p.tenant, db.providers[i].id)
           IN  IF found = {} THEN Answer(r) ELSE \E c \in found : Goto(r, [at |-> "remove", tbl |-> "providers", cfg |-> c])
    /\ UNCHANGED db

DeleteVectorStoreRequest(r, p) ==
    /\ Admitted(r, p, "admin", "vector_store")
    /\ \E i \in DOMAIN db.vectors :
           LET found == GetVectorStore(db, p.tenant, db.vectors[i].id)
           IN  IF found = {} THEN Answer(r) ELSE \E c \in found : Goto(r, [at |-> "remove", tbl |-> "vectors", cfg |-> c])
    /\ UNCHANGED db

RemoveConfig(r) ==
    /\ Continue(r, "remove")
    /\ LET w == req[r]
       IN  Then(r, IF w.tbl = "providers" THEN DeleteProvider(db, w.cfg.tenant, w.cfg.id) ELSE DeleteVectorStore(db, w.cfg.tenant, w.cfg.id),
                IF w.cfg.urn = NoURN THEN Idle ELSE [w EXCEPT !.at = "dropkey"])

DropKey(r) ==
    /\ Continue(r, "dropkey")
    /\ db' = DeleteSealed(db, req[r].cfg.tenant, req[r].cfg.urn).db
    /\ Answer(r)

\* The test of a stored provider needs its key; what it found is stored
\* however late.
TestStoredAIProviderRequest(r, p) ==
    /\ Admitted(r, p, "admin", "ai_provider")
    /\ \E i \in DOMAIN db.providers :
           LET found == {c \in GetProvider(db, p.tenant, db.providers[i].id) : GetSealed(db, p.tenant, c.urn) # {}}
           IN  IF found = {} THEN Answer(r) ELSE \E c \in found : Goto(r, [at |-> "tested", tbl |-> "providers", cfg |-> c])
    /\ UNCHANGED db

TestStoredVectorStoreRequest(r, p) ==
    /\ Admitted(r, p, "admin", "vector_store")
    /\ \E i \in DOMAIN db.vectors :
           LET found == GetVectorStore(db, p.tenant, db.vectors[i].id)
           IN  IF found = {} THEN Answer(r) ELSE \E c \in found : Goto(r, [at |-> "tested", tbl |-> "vectors", cfg |-> c])
    /\ UNCHANGED db

\* What is local is not asked.
TestVectorStore(c) == IF c.kind \in RemoteKinds THEN BOOLEAN ELSE {TRUE}

StoreTest(r) ==
    /\ Continue(r, "tested")
    /\ LET w == req[r]
       IN  db' \in IF w.tbl = "providers" THEN {MarkProviderTested(db, w.cfg, ok) : ok \in BOOLEAN}
                   ELSE {MarkVectorTested(db, w.cfg, ok) : ok \in TestVectorStore(w.cfg)}
    /\ Answer(r)

PrimaryAIProviderRequest(r, p) ==
    /\ Admitted(r, p, "admin", "ai_provider")
    /\ \E id \in {0} \cup {db.providers[i].id : i \in DOMAIN db.providers} : ToSwitch(r, p.tenant, id)
    /\ UNCHANGED db

PrimaryVectorStoreRequest(r, p) ==
    /\ Admitted(r, p, "admin", "vector_store")
    /\ \E id \in {0} \cup {db.vectors[i].id : i \in DOMAIN db.vectors} : Finish(r, SetPrimaryVectorStore(db, p.tenant, id))

\* Nothing is stored.
TestInlineAIProviderRequest(r, p) == Admitted(r, p, "admin", "ai_provider") /\ Answer(r) /\ UNCHANGED db
TestInlineVectorStoreRequest(r, p) == Admitted(r, p, "admin", "vector_store") /\ Answer(r) /\ UNCHANGED db

(***************************************************************************)
(* What p is shown: no urn.                                                *)
(***************************************************************************)
Redact(c) == [id |-> c.id, tenant |-> c.tenant, kind |-> c.kind, name |-> c.name, slot |-> c.slot, primary |-> c.primary, tested |-> c.tested]

ListAIProvidersRequest(p) == IF Gate(p, "read", "ai_provider") THEN {Redact(c) : c \in ListProviders(db, p.tenant)} ELSE {}
ListVectorStoresRequest(p) == IF Gate(p, "read", "vector_store") THEN {Redact(c) : c \in ListVectorStores(db, p.tenant)} ELSE {}
GetVectorStoreRequest(p) ==
    IF Gate(p, "read", "vector_store")
    THEN {Redact(c) : c \in UNION {GetVectorStore(db, p.tenant, db.vectors[i].id) : i \in DOMAIN db.vectors}} ELSE {}

(***************************************************************************)
(* Resolver.Primary: the primary of a slot, or its newest configuration.   *)
(***************************************************************************)
Chosen(d, t, slot) ==
    LET P(x) == x.tenant = t /\ x.slot = slot
        primaries == {c \in Rows(d.providers, P) : c.primary}
    IN  IF primaries # {} THEN primaries ELSE Last(d.providers, P)

ConfigSteps(r) ==
    \/ PutKey(r) \/ PutKeyFails(r) \/ UndoConfig(r) \/ StampConfig(r) \/ PromoteConfig(r)
    \/ SaveConfig(r) \/ Rekey(r) \/ RemoveConfig(r) \/ DropKey(r) \/ StoreTest(r) \/ CallFails(r)

ProvidersNext ==
    \E r \in Requests :
        \/ ConfigSteps(r) \/ RewriteProvider(r) \/ SwitchPrimary(r)
        \/ \E p \in People : \/ CreateAIProviderRequest(r, p) \/ UpdateAIProviderRequest(r, p) \/ DeleteAIProviderRequest(r, p)
                             \/ TestStoredAIProviderRequest(r, p) \/ PrimaryAIProviderRequest(r, p) \/ TestInlineAIProviderRequest(r, p)

VectorsNext ==
    \E r \in Requests :
        \/ ConfigSteps(r)
        \/ \E p \in People : \/ CreateVectorStoreRequest(r, p) \/ UpdateVectorStoreRequest(r, p) \/ DeleteVectorStoreRequest(r, p)
                             \/ TestStoredVectorStoreRequest(r, p) \/ PrimaryVectorStoreRequest(r, p) \/ TestInlineVectorStoreRequest(r, p)

(***************************************************************************)
(* Properties                                                              *)
(***************************************************************************)
\* "a race between two admins can't leave the tenant with two defaults", and
\* whatever requests overlap or stop half-way, the urn on a configuration
\* leads to a key of its tenant.
ConfigsUsable ==
    \A tbl \in {"providers", "vectors"} :
        /\ UniquePrimary(db, tbl)
        /\ \A i \in DOMAIN db[tbl] : LET c == db[tbl][i] IN c.urn # NoURN => GetSealed(db, c.tenant, c.urn) # {}

\* Request r is about to promote a provider that left the slot of c, or is
\* gone, since r read where it was.
Overtaken(r, c) ==
    /\ At(r, "switch") /\ req[r].tenant = c.tenant /\ req[r].slot = c.slot
    /\ c.slot \notin SlotOf(db, req[r].tenant, req[r].id)

\* A slot that has a primary has one after every step, unless the step
\* deleted that configuration or moved it to another slot, or switched to a
\* provider that was deleted or moved since its slot was read: that demotes
\* the old primary, and promotes nobody in the slot.  An attempt to promote a
\* vector store that is gone demotes nobody.
PrimaryKept ==
    [][\A tbl \in {"providers", "vectors"} : \A i \in DOMAIN db[tbl] :
           LET c == db[tbl][i]
               still == \E j \in DOMAIN db'[tbl] : Same(db'[tbl][j], c) /\ db'[tbl][j].slot = c.slot
               overtaken == \E r \in Requests : Overtaken(r, c) /\ SwitchPrimary(r)
           IN  c.primary /\ still =>
                   \/ \E j \in DOMAIN db'[tbl] : LET x == db'[tbl][j] IN x.primary /\ x.tenant = c.tenant /\ x.slot = c.slot
                   \/ tbl = "providers" /\ overtaken]_<<db>>

(***************************************************************************)
(* Questions and descriptions.                                            *)
(***************************************************************************)
CONSTANTS
    Sqls,        \* what models answer
    SqlTypes,    \* types of connections with SQL, of which
    Warehouses,  \* these have a factory
    TopK,        \* bound: tables in a prompt
    MaxColumns   \* bound: columns of a table in a prompt

VARIABLES
    prompts,  \* what models were sent: [tenant, key, facts, under]
    queries   \* what warehouses were sent: [tenant, conn, sql, exec]

avars == <<prompts, queries>>

(***************************************************************************)
(* Which SQL is safe.                                                      *)
(***************************************************************************)
BlockedKeyword(word) ==
    word \in {"insert", "update", "delete", "merge", "drop", "truncate", "alter", "create", "grant", "revoke", "call",
              "exec", "execute", "copy", "load", "attach", "detach", "vacuum", "reindex", "cluster",
              "commit", "rollback", "begin", "start", "savepoint"}

\* One statement, but for semicolons at the end.
ValidateSelectOnly(sql) ==
    /\ sql # <<>> /\ sql[1] # <<>>
    /\ \A i \in 2 .. Len(sql) : sql[i] = <<>>
    /\ sql[1][1] \in {"select", "with"}
    /\ \A i \in DOMAIN sql[1] : ~BlockedKeyword(sql[1][i])

(***************************************************************************)
(* The log, ai_query_executions, and that of suggestions.                  *)
(***************************************************************************)
RecordGenerated(d, e) == Ok([d EXCEPT !.executions = Append(@, [status |-> "generated"] @@ e)])
GetExecution(d, t, id) == Rows(d.executions, LAMBDA e : e.tenant = t /\ e.id = id)
ListExecutions(d, t, limit) ==
    Newest(d.executions, LAMBDA e : e.tenant = t, IF limit <= 0 THEN 100 ELSE IF limit > 500 THEN 500 ELSE limit)
RecordExecuted(d, t, id, failed) ==
    Ok([d EXCEPT !.executions = Set(@, LAMBDA e : e.tenant = t /\ e.id = id,
                                       LAMBDA e : [e EXCEPT !.status = IF failed THEN "failed" ELSE "executed"])])

RecordSuggestion(d, t, asset, by) == Ok([d EXCEPT !.descriptions = Append(@, [tenant |-> t, asset |-> asset, by |-> by])])

Charge(d, t, kind, of) == Ok([d EXCEPT !.costs = Append(@, [tenant |-> t, kind |-> kind, of |-> of])])

(***************************************************************************)
(* The facts of a table: its columns, and what its profile, of whatever    *)
(* age, says about those of the same name.                                 *)
(***************************************************************************)
ColumnFacts(c, reports1) ==
    [name |-> c.name, stats |-> UNION {{x.stats : x \in {y \in Range1(p.report) : y.name % 10 = c.name % 10}} : p \in reports1}]

BuildForTable(d, t, id) ==
    LET cut(columns) == SubSeq(columns, 1, IF Len(columns) > MaxColumns THEN MaxColumns ELSE Len(columns))
    IN  {[asset |-> a, columns |-> [i \in DOMAIN cut(info.columns) |-> ColumnFacts(cut(info.columns)[i], GetProfile(d, t, id))]] :
            a \in GetAsset(d, t, id), info \in ReadTable(d, t, id)}

\* No column names its parent, so a column is described by itself.
BuildForColumn(d, t, id) ==
    {[asset |-> a, columns |-> <<ColumnFacts([name |-> a.qn[Len(a.qn)]], {})>>] : a \in GetAsset(d, t, id)}

\* The tables and views of the connection that the search may find: which of
\* them are near the question, the embeddings decide.
Found(d, t, id) ==
    LET hits == UNION {GetAsset(d, t, e.asset) : e \in ListEmbeddings(d, t)}
    IN  UNION {{a.id : a \in {x \in hits : x.type \in {"table", "view"} /\ Under(<<c.name>>, x.qn)}} : c \in GetConnection(d, t, id)}

\* Up to k of them.
TopTables(d, t, id) == {s \in SUBSET Found(d, t, id) : Cardinality(s) <= TopK}

(***************************************************************************)
(* POST /v1/ai:ask                                                         *)
(***************************************************************************)
Job(p, kind, conn, asset) == [at |-> "facts", kind |-> kind, tenant |-> p.tenant, by |-> p.id, conn |-> conn, asset |-> asset, id |-> 100 + started']

AskGenerateRequest(r, p) ==
    /\ Admitted(r, p, "run", "ai_query")
    /\ \E id \in ConnIds :
           IF \E c \in GetConnection(db, p.tenant, id) : c.type \in SqlTypes
           THEN Goto(r, Job(p, "ask", id, 0)) ELSE Answer(r)
    /\ UNCHANGED <<db, avars>>

\* The connection is read again for its name.  A table without facts is
\* skipped; views have none.
AskFacts(r) ==
    /\ Continue(r, "facts") /\ req[r].kind = "ask"
    /\ LET w == req[r]
       IN  \E s \in TopTables(db, w.tenant, w.conn) :
               LET facts == UNION {BuildForTable(db, w.tenant, id) : id \in s}
               IN  IF facts = {} THEN Answer(r)
                   ELSE Goto(r, [at |-> "resolve", job |-> w, facts |-> facts, under |-> {c.name : c \in GetConnection(db, w.tenant, w.conn)}])
    /\ UNCHANGED <<db, avars>>

\* POST /v1/assets/{id}/describe:ai
DescribeAssetRequest(r, p) ==
    /\ Admitted(r, p, "edit", "asset")
    /\ \E id \in AssetIds : Goto(r, Job(p, "describe", 0, id))
    /\ UNCHANGED <<db, avars>>

DescribeFacts(r) ==
    /\ Continue(r, "facts") /\ req[r].kind = "describe"
    /\ LET w == req[r]
           table == BuildForTable(db, w.tenant, w.asset)
           facts == IF table # {} THEN table ELSE BuildForColumn(db, w.tenant, w.asset)
       IN  IF facts = {} THEN Answer(r)
           ELSE Goto(r, [at |-> "resolve", job |-> w, facts |-> facts, under |-> {}])
    /\ UNCHANGED <<db, avars>>

\* Resolver.Primary: a configuration, and then its key.
Resolve(r) ==
    /\ Continue(r, "resolve")
    /\ LET chosen == Chosen(db, req[r].job.tenant, "chat")
       IN  IF chosen = {} THEN Answer(r)
           ELSE \E c \in chosen : Goto(r, [cfg |-> c] @@ [req[r] EXCEPT !.at = "key"])
    /\ UNCHANGED <<db, avars>>

ReadKey(r) ==
    /\ Continue(r, "key")
    /\ LET found == GetSealed(db, req[r].job.tenant, req[r].cfg.urn)
       IN  IF found = {} THEN Answer(r) ELSE \E s \in found : Goto(r, [key |-> s] @@ [req[r] EXCEPT !.at = "generate"])
    /\ UNCHANGED <<db, avars>>

\* The model answers, or fails.
Generate(r) ==
    /\ Continue(r, "generate")
    /\ LET w == req[r]
       IN  /\ prompts' = prompts \cup {[tenant |-> w.job.tenant, key |-> w.key, facts |-> w.facts, under |-> w.under]}
           /\ \/ Answer(r)
              \/ w.job.kind = "ask" /\ \E sql \in Sqls : Goto(r, [at |-> "log", job |-> w.job, sql |-> sql])
              \/ w.job.kind = "describe" /\ Goto(r, [at |-> "suggested", job |-> w.job])
    /\ UNCHANGED <<db, queries>>

\* Safe or not, what the model produced is kept, with the same status; only
\* the former is answered and charged.
LogGeneration(r) ==
    /\ Continue(r, "log")
    /\ LET w == req[r]
           row == [id |-> w.job.id, tenant |-> w.job.tenant, conn |-> w.job.conn, sql |-> w.sql, by |-> w.job.by]
       IN  Then(r, RecordGenerated(db, row), IF ValidateSelectOnly(w.sql) THEN [at |-> "charge", job |-> w.job] ELSE Idle)
    /\ UNCHANGED avars

\* A suggestion that is not logged is answered and charged as well.
LogSuggestion(r) ==
    /\ Continue(r, "suggested")
    /\ LET w == req[r].job
       IN  db' = RecordSuggestion(db, w.tenant, w.asset, w.by).db /\ Goto(r, [at |-> "charge", job |-> w])
    /\ UNCHANGED avars

LogSuggestionFails(r) ==
    /\ At(r, "suggested")
    /\ faults < MaxFaults /\ faults' = faults + 1
    /\ Goto(r, [at |-> "charge", job |-> req[r].job])
    /\ UNCHANGED <<db, started, avars>>

ChargeGeneration(r) ==
    /\ Continue(r, "charge")
    /\ db' = Charge(db, req[r].job.tenant, "ai_completion", req[r].job.id).db
    /\ Answer(r)
    /\ UNCHANGED avars

(***************************************************************************)
(* POST /v1/ai:ask/{id}/run                                                *)
(***************************************************************************)
TrustsLog(r, p) ==  \* mutant: what is in the log is not validated again
    /\ Admitted(r, p, "run", "ai_query")
    /\ \E i \in DOMAIN db.executions :
           LET found == GetExecution(db, p.tenant, db.executions[i].id)
           IN  IF found = {} THEN Answer(r) ELSE \E e \in found : Goto(r, [at |-> "open", exec |-> e])
    /\ UNCHANGED <<db, avars>>

\* "defence in depth": validated again before each execution.
AskRunRequest(r, p) ==
    /\ Admitted(r, p, "run", "ai_query")
    /\ \E i \in DOMAIN db.executions :
           LET found == {e \in GetExecution(db, p.tenant, db.executions[i].id) : ValidateSelectOnly(e.sql)}
           IN  IF found = {} THEN Answer(r) ELSE \E e \in found : Goto(r, [at |-> "open", exec |-> e])
    /\ UNCHANGED <<db, avars>>

\* MultiFactory.Open: by the type of the connection, if it has a factory.
OpenWarehouse(r) ==
    /\ Continue(r, "open")
    /\ LET e == req[r].exec
       IN  IF \E c \in GetConnection(db, e.tenant, e.conn) : c.type \in Warehouses
           THEN Goto(r, [req[r] EXCEPT !.at = "query"]) ELSE Answer(r)
    /\ UNCHANGED <<db, avars>>

\* The query fails, or gives rows; while they are read the source may fail
\* too, and then nothing is recorded.
RunQuery(r) ==
    /\ Continue(r, "query")
    /\ LET e == req[r].exec
       IN  queries' = queries \cup {[tenant |-> e.tenant, conn |-> e.conn, sql |-> e.sql, exec |-> e.id]}
    /\ \/ \E failed \in BOOLEAN : Goto(r, [req[r] EXCEPT !.at = IF failed THEN "failed" ELSE "executed"])
       \/ Answer(r)
    /\ UNCHANGED <<db, prompts>>

RecordFailed(r) ==
    /\ Continue(r, "failed")
    /\ db' = RecordExecuted(db, req[r].exec.tenant, req[r].exec.id, TRUE).db
    /\ Answer(r)
    /\ UNCHANGED avars

\* A failure to record is logged; the connection is looked up for the price.
RecordRun(r) ==
    /\ Continue(r, "executed")
    /\ LET e == req[r].exec
           done == RecordExecuted(db, e.tenant, e.id, FALSE).db
       IN  db' = IF GetConnection(db, e.tenant, e.conn) = {} THEN done ELSE Charge(done, e.tenant, "warehouse_query", e.id).db
    /\ Answer(r)
    /\ UNCHANGED avars

AskHistoryRequest(p, limit) == IF Gate(p, "read", "ai_query") THEN ListExecutions(db, p.tenant, limit) ELSE {}

InitAsker == prompts = {} /\ queries = {}

AskNext ==
    \/ \E r \in Requests :
           \/ AskFacts(r) \/ DescribeFacts(r) \/ Resolve(r) \/ ReadKey(r) \/ Generate(r)
           \/ LogGeneration(r) \/ LogSuggestion(r) \/ LogSuggestionFails(r) \/ ChargeGeneration(r)
           \/ OpenWarehouse(r) \/ RunQuery(r) \/ RecordFailed(r) \/ RecordRun(r)
           \/ \E p \in People : AskGenerateRequest(r, p) \/ DescribeAssetRequest(r, p) \/ AskRunRequest(r, p)
    \/ /\ \E r \in Requests :
              \/ CallFails(r) \/ RemoveConfig(r) \/ DropKey(r) \/ SwitchPrimary(r)
              \/ \E p \in People : DeleteAIProviderRequest(r, p) \/ PrimaryAIProviderRequest(r, p)
       /\ UNCHANGED avars

(***************************************************************************)
(* Properties                                                              *)
(***************************************************************************)
\* "The user must click Run": only a query of the log reaches a warehouse,
\* that of the connection it was asked about, and it is one SELECT, although
\* the log keeps what was refused just like what was not.
OnlySelects ==
    \A q \in queries :
        /\ ValidateSelectOnly(q.sql)
        /\ \E e \in GetExecution(db, q.tenant, q.exec) : e.conn = q.conn /\ e.sql = q.sql

\* What leaves for a model is about assets of the tenant that asked, under
\* the connection it asked about, and goes out with a key of its own.
PromptsOwn ==
    \A x \in prompts :
        /\ x.key.tenant = x.tenant
        /\ \A f \in x.facts : f.asset.tenant = x.tenant /\ (x.under # {} => \E name \in x.under : Under(<<name>>, f.asset.qn))
=============================================================================
