----------------------------- MODULE Knowledge -----------------------------
(***************************************************************************)
(* What people and the profiler say about assets: the glossary (api/http/  *)
(* glossary.go, storage/postgres/glossary.go), feedback (api/http/         *)
(* feedback.go on storage/postgres/feedback.go or core/feedback/memory.go),*)
(* profiles of tables (core/profile, storage/postgres/profile.go) and the  *)
(* lineage of columns (storage/postgres/column_lineage.go).                *)
(*   terms       [id, tenant, name, def, parent, status, owner]            *)
(*   assignments [tenant, term, asset, by]                                 *)
(*   items       [id, tenant, by, type, title, priority, status, assignee, *)
(*                votes]                                                   *)
(*   votes       [item, voter]                                             *)
(*   comments    [item, by, role]                                          *)
(*   profiles    [tenant, asset, at, report]                               *)
(*   lineage     [tenant, from, to, transform]                             *)
(* An id or a text that is 0 is empty.                                     *)
(***************************************************************************)
EXTENDS HttpRequests, CatalogStores, TLC

LOCAL Seqs == INSTANCE SequencesExt

CONSTANTS
    TermBodies,  \* bodies of requests, [name, def, parent, status, owner]
    Items,       \* bodies of submissions, [type, title, priority]
    Triages,     \* bodies of triages, [type, priority, status, assignee], "" or 0 for absent
    DataTypes,   \* last part of a column's name -> its type
    Dialects,    \* types of connections that PickDialect knows
    FreshFor,    \* hours a profile is served from the cache
    MaxNow,      \* bound: hours
    ColumnEdges  \* sets of edges that pipelines report, [from, to, transform], names of two parts

VARIABLES
    repo,     \* where feedback is kept, "postgres" or "memory"
    hour,     \* the time
    reports   \* what requests for profiles were answered: [asset, at, hour, failed]

kvars == <<repo, hour, reports>>

Ids(table) == {table[i].id : i \in DOMAIN table}

(***************************************************************************)
(* The glossary's store                                                    *)
(***************************************************************************)
Drafted(t) == IF t.status = "" THEN [t EXCEPT !.status = "draft"] ELSE t
NameTaken(d, t) == Where(d.terms, LAMBDA x : x.tenant = t.tenant /\ x.name = t.name /\ x.id # t.id) # {}
ParentMissing(d, t) == t.parent # 0 /\ t.parent \notin Ids(d.terms)

ListTerms(d, t) == Rows(d.terms, LAMBDA x : x.tenant = t)
GetTerm(d, t, id) == Rows(d.terms, LAMBDA x : x.tenant = t /\ x.id = id)

CreateTerm(d, t) ==
    IF NameTaken(d, t) THEN Fails("name_taken", d)
    ELSE IF ParentMissing(d, t) THEN Fails("foreign_key", d)
    ELSE Ok([d EXCEPT !.terms = Append(@, Drafted(t))])

UpdateTerm(d, t) ==
    LET P(x) == x.tenant = t.tenant /\ x.id = t.id
    IN  IF Where(d.terms, P) = {} THEN Fails("not_found", d)
        ELSE IF NameTaken(d, t) THEN Fails("name_taken", d)
        ELSE IF ParentMissing(d, t) THEN Fails("foreign_key", d)
        ELSE Ok([d EXCEPT !.terms = Set(@, P, LAMBDA x : Drafted(t))])

DeleteLeavesChildren(d, t, id) ==  \* mutant: children keep their parent
    LET P(x) == x.tenant = t /\ x.id = id
    IN  Affected(d, d.terms, P, [d EXCEPT !.terms = Without(@, P), !.assignments = Without(@, LAMBDA a : a.term = id)])

\* parent_id ... ON DELETE SET NULL, term_id ... ON DELETE CASCADE.
DeleteTerm(d, t, id) ==
    LET P(x) == x.tenant = t /\ x.id = id
    IN  Affected(d, d.terms, P,
            [d EXCEPT !.terms = Set(Without(@, P), LAMBDA x : x.parent = id, LAMBDA x : [x EXCEPT !.parent = 0]),
                       !.assignments = Without(@, LAMBDA a : a.term = id)])

\* ON CONFLICT (term_id, asset_id) DO UPDATE.
Assign(d, a) ==
    LET P(x) == x.term = a.term /\ x.asset = a.asset
    IN  IF a.term \notin Ids(d.terms) \/ a.asset \notin Ids(d.assets) THEN Fails("foreign_key", d)
        ELSE IF Where(d.assignments, P) = {} THEN Ok([d EXCEPT !.assignments = Append(@, a)])
        ELSE Ok([d EXCEPT !.assignments = Set(@, P, LAMBDA x : [x EXCEPT !.by = a.by])])

Unassign(d, t, term, asset) ==
    LET P(x) == x.tenant = t /\ x.term = term /\ x.asset = asset
    IN  Affected(d, d.assignments, P, [d EXCEPT !.assignments = Without(@, P)])

AssetsByTerm(d, t, term) == Rows(d.assignments, LAMBDA a : a.tenant = t /\ a.term = term)

\* Joined with the term by its id, whosever it is: tenant is that of the term.
AssignmentsByAsset(d, t, asset) ==
    UNION {{[asset |-> a.asset, term |-> x.id, name |-> x.name, def |-> x.def, status |-> x.status, tenant |-> x.tenant] :
               x \in Rows(d.terms, LAMBDA x : x.id = a.term)} :
           a \in Rows(d.assignments, LAMBDA a : a.tenant = t /\ a.asset = asset)}

(***************************************************************************)
(* The glossary's handlers                                                 *)
(***************************************************************************)
CreateTermRequest(r, p) ==
    /\ Admitted(r, p, "edit", "glossary_term")
    /\ \E body \in TermBodies :
           LET t == [id |-> 100 + started', tenant |-> p.tenant, name |-> body.name, def |-> body.def, parent |-> body.parent,
                     status |-> body.status, owner |-> IF body.owner = 0 THEN p.id ELSE body.owner]
           IN  IF body.name = 0 THEN UNCHANGED db /\ Answer(r) ELSE Finish(r, CreateTerm(db, t))
    /\ UNCHANGED kvars

\* The definition and the parent are what the body says, or nothing.
Patched(t, body) ==
    [t EXCEPT !.name = IF body.name = 0 THEN @ ELSE body.name, !.def = body.def, !.parent = body.parent,
              !.status = IF body.status = "" THEN @ ELSE body.status, !.owner = IF body.owner = 0 THEN @ ELSE body.owner]

\* The term is read, and then written as a whole.
UpdateTermRequest(r, p) ==
    /\ Admitted(r, p, "edit", "glossary_term")
    /\ \E id \in Ids(db.terms), body \in TermBodies :
           IF GetTerm(db, p.tenant, id) = {} THEN Answer(r)
           ELSE \E t \in GetTerm(db, p.tenant, id) : Goto(r, [at |-> "term", term |-> Patched(t, body)])
    /\ UNCHANGED <<db, kvars>>

SaveTerm(r) == Continue(r, "term") /\ Finish(r, UpdateTerm(db, req[r].term)) /\ UNCHANGED kvars

DeleteTermRequest(r, p) ==
    /\ Admitted(r, p, "delete", "glossary_term")
    /\ \E id \in Ids(db.terms) : Finish(r, DeleteTerm(db, p.tenant, id))
    /\ UNCHANGED kvars

AssignTermRequest(r, p) ==
    /\ Admitted(r, p, "edit", "glossary_term")
    /\ \E term \in Ids(db.terms), asset \in {a.id : a \in {db.assets[i] : i \in DOMAIN db.assets}} :
           Finish(r, Assign(db, [tenant |-> p.tenant, term |-> term, asset |-> asset, by |-> p.id]))
    /\ UNCHANGED kvars

UnassignTermRequest(r, p) ==
    /\ Admitted(r, p, "edit", "glossary_term")
    /\ \E a \in {db.assignments[i] : i \in DOMAIN db.assignments} : Finish(r, Unassign(db, p.tenant, a.term, a.asset))
    /\ UNCHANGED kvars

Shown(p, rows) == IF Gate(p, "read", "glossary_term") THEN rows ELSE {}
ListTermsRequest(p) == Shown(p, ListTerms(db, p.tenant))
GetTermRequest(p) == Shown(p, UNION {GetTerm(db, p.tenant, id) : id \in Ids(db.terms)})
AssetsForTermRequest(p) == Shown(p, UNION {AssetsByTerm(db, p.tenant, id) : id \in Ids(db.terms)})
TermsForAssetRequest(p) == Shown(p, UNION {AssignmentsByAsset(db, p.tenant, id) : id \in Ids(db.assets)})

(***************************************************************************)
(* Feedback: the store of Postgres, and the one in memory.  Votes and the  *)
(* count of them change in one transaction, or under one mutex.            *)
(***************************************************************************)
CreateItem(d, it) ==
    Ok([d EXCEPT !.items = Append(@, [it EXCEPT !.priority = IF @ = "" THEN "normal" ELSE @, !.status = IF @ = "" THEN "new" ELSE @])])
GetItem(d, id) == Rows(d.items, LAMBDA x : x.id = id)
ListItems(d, t, limit) ==
    Newest(d.items, LAMBDA x : t = 0 \/ x.tenant = t, IF limit <= 0 THEN 50 ELSE IF limit > 200 THEN 200 ELSE limit)

\* All but the count of votes, the tenant and who submitted it.
UpdateItem(d, it) ==
    LET P(x) == x.id = it.id
        New(x) == [x EXCEPT !.type = it.type, !.title = it.title, !.priority = it.priority, !.status = it.status,
                            !.assignee = it.assignee]
    IN  Affected(d, d.items, P, [d EXCEPT !.items = Set(@, P, New)])

\* ON DELETE CASCADE.
DeleteItem(d, id) ==
    LET P(x) == x.id = id
    IN  Affected(d, d.items, P, [d EXCEPT !.items = Without(@, P), !.votes = Without(@, LAMBDA v : v.item = id),
                                             !.comments = Without(@, LAMBDA c : c.item = id)])

Voted(d, id, voter) == Where(d.votes, LAMBDA v : v.item = id /\ v.voter = voter) # {}
AddTo(n, items, id) == Set(items, LAMBDA x : x.id = id, LAMBDA x : [x EXCEPT !.votes = IF @ + n < 0 THEN 0 ELSE @ + n])

\* A vote for an item that is gone breaks the foreign key, whoever has voted.
Vote(d, id, voter) ==
    IF id \notin Ids(d.items) THEN Fails("foreign_key", d)
    ELSE IF Voted(d, id, voter) THEN Ok(d)
    ELSE Ok([d EXCEPT !.votes = Append(@, [item |-> id, voter |-> voter]), !.items = AddTo(1, @, id)])

Unvote(d, id, voter) ==
    IF ~Voted(d, id, voter) THEN IF id \in Ids(d.items) THEN Ok(d) ELSE Fails("not_found", d)
    ELSE Ok([d EXCEPT !.votes = Without(@, LAMBDA v : v.item = id /\ v.voter = voter), !.items = AddTo(-1, @, id)])

VotedBy(d, voter, ids) == {id \in ids : Voted(d, id, voter)}

AddComment(d, c) ==
    IF c.item \notin Ids(d.items) THEN Fails("foreign_key", d) ELSE Ok([d EXCEPT !.comments = Append(@, c)])

\* The store in memory looks for the item first.
MemVote(d, id, voter) ==
    IF id \notin Ids(d.items) THEN Fails("not_found", d)
    ELSE IF Voted(d, id, voter) THEN Ok(d)
    ELSE Ok([d EXCEPT !.votes = Append(@, [item |-> id, voter |-> voter]), !.items = AddTo(1, @, id)])

MemUnvote(d, id, voter) ==
    IF id \notin Ids(d.items) THEN Fails("not_found", d)
    ELSE IF ~Voted(d, id, voter) THEN Ok(d)
    ELSE Ok([d EXCEPT !.votes = Without(@, LAMBDA v : v.item = id /\ v.voter = voter), !.items = AddTo(-1, @, id)])

MemAddComment(d, c) ==
    IF c.item \notin Ids(d.items) THEN Fails("not_found", d) ELSE Ok([d EXCEPT !.comments = Append(@, c)])

(***************************************************************************)
(* Feedback: the handlers                                                  *)
(***************************************************************************)
ValidType(t) == t \in {"bug", "enhancement", "question", "praise"}
ValidPriority(x) == x \in {"low", "normal", "high", "critical"}
ValidStatus(s) == s \in {"new", "triaged", "in_progress", "resolved", "wont_fix"}
Platform(p) == Gate(p, "platform", "feedback")

SubmitFeedbackRequest(r, p) ==
    /\ Admitted(r, p, "read", "feedback")
    /\ \E body \in Items :
           LET it == [id |-> 100 + started', tenant |-> p.tenant, by |-> p.id, type |-> body.type, title |-> body.title,
                      priority |-> IF ValidPriority(body.priority) THEN body.priority ELSE "normal",
                      status |-> "", assignee |-> 0, votes |-> 0]
           IN  IF body.title = 0 \/ ~ValidType(body.type) THEN UNCHANGED db /\ Answer(r) ELSE Finish(r, CreateItem(db, it))
    /\ UNCHANGED kvars

Triaged(it, body) ==
    [it EXCEPT !.type = IF body.type = "" THEN @ ELSE body.type, !.priority = IF body.priority = "" THEN @ ELSE body.priority,
               !.status = IF body.status = "" THEN @ ELSE body.status, !.assignee = IF body.assignee = 0 THEN @ ELSE body.assignee]

\* The item is read, and written later; votes come in between.
TriageFeedbackRequest(r, p) ==
    /\ Begin(r) /\ Platform(p)
    /\ \E id \in Ids(db.items), body \in Triages :
           LET bad == \/ body.type # "" /\ ~ValidType(body.type)
                      \/ body.priority # "" /\ ~ValidPriority(body.priority)
                      \/ body.status # "" /\ ~ValidStatus(body.status)
           IN  IF bad THEN Answer(r)
               ELSE \E it \in GetItem(db, id) : Goto(r, [at |-> "triage", item |-> Triaged(it, body)])
    /\ UNCHANGED <<db, kvars>>

SaveTriage(r) == Continue(r, "triage") /\ Finish(r, UpdateItem(db, req[r].item)) /\ UNCHANGED kvars

\* Who submitted it, or the platform.
DeleteFeedbackRequest(r, p) ==
    /\ Begin(r)
    /\ \E it \in {db.items[i] : i \in DOMAIN db.items} :
           IF it.by = p.id \/ Platform(p) THEN Finish(r, DeleteItem(db, it.id)) ELSE UNCHANGED db /\ Answer(r)
    /\ UNCHANGED kvars

\* An id the client has may be of an item that is gone.
VoteFeedbackRequest(r, p) ==
    /\ Admitted(r, p, "read", "feedback")
    /\ \E id \in Ids(db.items) \cup {99} : Finish(r, IF repo = "memory" THEN MemVote(db, id, p.id) ELSE Vote(db, id, p.id))
    /\ UNCHANGED kvars

UnvoteFeedbackRequest(r, p) ==
    /\ Admitted(r, p, "read", "feedback")
    /\ \E id \in Ids(db.items) \cup {99} : Finish(r, IF repo = "memory" THEN MemUnvote(db, id, p.id) ELSE Unvote(db, id, p.id))
    /\ UNCHANGED kvars

CommentFeedbackRequest(r, p) ==
    /\ Admitted(r, p, "read", "feedback")
    /\ \E id \in Ids(db.items) \cup {99} :
           LET c == [item |-> id, by |-> p.id, role |-> IF "platform_admin" \in p.roles THEN "platform_admin" ELSE "submitter"]
           IN  Finish(r, IF repo = "memory" THEN MemAddComment(db, c) ELSE AddComment(db, c))
    /\ UNCHANGED kvars

\* Items of every tenant for the platform, of p's otherwise.
ListFeedbackRequest(p, cross) ==
    LET items == IF cross THEN IF Platform(p) THEN ListItems(db, 0, 0) ELSE {}
                 ELSE IF Gate(p, "read", "feedback") THEN ListItems(db, p.tenant, 0) ELSE {}
        voted == VotedBy(db, p.id, {it.id : it \in items})
    IN  {[voted |-> it.id \in voted] @@ it : it \in items}
GetFeedbackRequest(p) ==
    {it \in UNION {GetItem(db, id) : id \in Ids(db.items)} :
        IF it.tenant # p.tenant THEN Platform(p) ELSE Gate(p, "read", "feedback")}

(***************************************************************************)
(* Profiles                                                                *)
(***************************************************************************)
GetProfile(d, t, asset) == Rows(d.profiles, LAMBDA x : x.tenant = t /\ x.asset = asset)

\* The tenant is the asset's.
PutProfile(d, report) ==
    LET owner == {d.assets[i].tenant : i \in Where(d.assets, LAMBDA x : x.id = report.asset)}
        P(x) == x.asset = report.asset /\ x.tenant \in owner
    IN  IF owner = {} THEN Fails("not_found", d)
        ELSE Ok([d EXCEPT !.profiles = Append(Without(@, P), [tenant |-> CHOOSE t \in owner : TRUE] @@ report)])

\* A table under the name of a connection of its tenant, with its columns.
ReadTable(d, t, asset) ==
    {[type |-> c.type, columns |-> Sorted({[name |-> x.qn[Len(x.qn)], type |-> DataTypes[x.qn[Len(x.qn)]]] :
                                                       x \in ColumnsForTable(d, t, asset)}, LAMBDA x, y : x.name < y.name)] :
        c \in {k \in ListConnections(d, t) : \E a \in TablesForConnection(d, t, k.id) : a.id = asset}}

\* By the words in the name of a type: json is not compared, and an interval
\* is taken for a number because it has "int" in it.
IsComparable(type) == type # "json"
IsNumeric(type) == type \in {"int", "interval"}

\* The aggregates of the one row, in the order of the SELECT.
BuildAggregateQuery(columns) ==
    <<<<0, "rows">>>> \o
    Seqs!FlattenSeq([i \in DOMAIN columns |->
        LET c == columns[i] IN
        <<<<c.name, "nulls">>, <<c.name, "distinct">>>>
        \o (IF IsComparable(c.type) THEN <<<<c.name, "min">>, <<c.name, "max">>>> ELSE <<>>)
        \o (IF IsNumeric(c.type) THEN <<<<c.name, "mean">>>> ELSE <<>>)])

\* AVG of what is no number is an error of the source.
QueryFails(columns) == \E i \in DOMAIN columns : columns[i].type = "interval"

\* How many aggregates decodeAggregate takes for a column.
Width(type) == 2 + (IF IsComparable(type) THEN 2 ELSE 0) + (IF IsNumeric(type) THEN 1 ELSE 0)

DecodeAggregate(row, columns) ==
    LET Start(i) == 2 + Seqs!FoldLeft(LAMBDA n, c : n + Width(c.type), 0, SubSeq(columns, 1, i - 1))
    IN  [i \in DOMAIN columns |->
            [name |-> columns[i].name, stats |-> [j \in 1 .. Width(columns[i].type) |-> row[Start(i) + j - 1]]]]

\* Top values are left out: they fail without consequence.
Compute(t, asset) ==
    {[asset |-> asset, at |-> hour, report |-> DecodeAggregate(BuildAggregateQuery(info.columns), info.columns)] :
        info \in {x \in ReadTable(db, t, asset) : x.columns # <<>> /\ x.type \in Dialects /\ ~QueryFails(x.columns)}}

TableIds == {db.assets[i].id : i \in Where(db.assets, LAMBDA x : x.type = "table")}

\* A fresh report is served; otherwise one is computed.  Refresh computes.
ProfileGetRequest(r, p) ==
    /\ Admitted(r, p, "read", "asset")
    /\ \E asset \in TableIds :
           LET cached == GetProfile(db, p.tenant, asset)
           IN  IF \E c \in cached : hour - c.at < FreshFor
               THEN Answer(r) /\ reports' = reports \cup {[asset |-> asset, at |-> c.at, hour |-> hour, failed |-> FALSE] : c \in cached}
               ELSE Goto(r, [at |-> "compute", tenant |-> p.tenant, asset |-> asset, cached |-> cached]) /\ UNCHANGED reports
    /\ UNCHANGED <<db, repo, hour>>

ProfileRefreshRequest(r, p) ==
    /\ Admitted(r, p, "run", "asset")
    /\ \E asset \in TableIds : Goto(r, [at |-> "compute", tenant |-> p.tenant, asset |-> asset, cached |-> {}])
    /\ UNCHANGED <<db, kvars>>

\* The scan takes its time, and the source may fail: then a stale report is
\* served, if there is one.
ComputeProfile(r) ==
    LET w == req[r]
        served(c, failed) == [asset |-> w.asset, at |-> c.at, hour |-> hour, failed |-> failed]
    IN  /\ Continue(r, "compute")
        /\ \/ /\ Compute(w.tenant, w.asset) # {}
              /\ \E report \in Compute(w.tenant, w.asset) :
                     Goto(r, [at |-> "cache", report |-> report]) /\ reports' = reports \cup {served(report, FALSE)}
           \/ Answer(r) /\ reports' = reports \cup {served(c, TRUE) : c \in w.cached}
        /\ UNCHANGED <<db, repo, hour>>

\* A failure is logged.
PutReport(r) ==
    /\ Continue(r, "cache")
    /\ db' = PutProfile(db, req[r].report).db
    /\ Answer(r)
    /\ UNCHANGED kvars

HourPasses == hour < MaxNow /\ hour' = hour + 1 /\ UNCHANGED <<db, req, started, faults, repo, reports>>

(***************************************************************************)
(* The lineage of columns                                                  *)
(***************************************************************************)
\* The shortest name that ends in the table and the column, in capitals or
\* not; of columns first, and then an exact name.
LookupColumnAsset(d, t, name) ==
    LET low(qn) == [i \in DOMAIN qn |-> qn[i] % 10]
        ends(a) == a.tenant = t /\ a.type = "column" /\ Len(a.qn) > 2 /\ SubSeq(low(a.qn), Len(a.qn) - 1, Len(a.qn)) = low(name)
        found == Rows(d.assets, ends)
        exact == Rows(d.assets, LAMBDA a : a.tenant = t /\ low(a.qn) = low(name))
    IN  IF found # {} THEN {CHOOSE a \in found : \A b \in found : Len(a.qn) <= Len(b.qn)}
        ELSE IF exact # {} THEN {CHOOSE a \in exact : TRUE} ELSE {}

\* One transaction; an edge whose ends are not both in the catalog is missed.
UpsertLineage(d, t, edges) ==
    LET Row(e, a, b) == [tenant |-> t, from |-> a.id, to |-> b.id, transform |-> e.transform]
        rows == UNION {{Row(e, a, b) : a \in LookupColumnAsset(d, t, e.from), b \in LookupColumnAsset(d, t, e.to)} : e \in edges}
        old(x) == \E row \in rows : x.from = row.from /\ x.to = row.to
    IN  Ok([d EXCEPT !.lineage = Without(@, old) \o Seqs!SetToSeq(rows)])

ListLineage(d, t, asset) ==
    LET below == {asset} \cup {a.id : a \in Rows(d.assets, LAMBDA x : \E y \in Rows(d.assets, LAMBDA z : z.id = asset) : Under(y.qn, x.qn))}
    IN  Rows(d.lineage, LAMBDA l : l.tenant = t /\ {l.from, l.to} \cap below # {})

RecordLineage(t) ==
    /\ \E edges \in ColumnEdges : db' = UpsertLineage(db, t, edges).db
    /\ UNCHANGED <<req, started, faults, kvars>>

ColumnLineageRequest(p) ==
    IF Gate(p, "read", "asset") THEN UNION {ListLineage(db, p.tenant, id) : id \in Ids(db.assets)} ELSE {}

InitKnowledge == repo \in {"postgres", "memory"} /\ hour = 0 /\ reports = {}

GlossaryNext ==
    \E r \in Requests :
        \/ SaveTerm(r)
        \/ \E p \in People : \/ CreateTermRequest(r, p) \/ UpdateTermRequest(r, p) \/ DeleteTermRequest(r, p)
                             \/ AssignTermRequest(r, p) \/ UnassignTermRequest(r, p)

FeedbackNext ==
    \E r \in Requests :
        \/ SaveTriage(r)
        \/ \E p \in People : \/ SubmitFeedbackRequest(r, p) \/ TriageFeedbackRequest(r, p) \/ DeleteFeedbackRequest(r, p)
                             \/ VoteFeedbackRequest(r, p) \/ UnvoteFeedbackRequest(r, p) \/ CommentFeedbackRequest(r, p)

ProfilesNext ==
    \/ HourPasses
    \/ \E p \in People : RecordLineage(p.tenant)
    \/ \E r \in Requests :
           \/ ComputeProfile(r) \/ PutReport(r)
           \/ \E p \in People : ProfileGetRequest(r, p) \/ ProfileRefreshRequest(r, p)

(***************************************************************************)
(* Properties                                                              *)
(***************************************************************************)
\* The terms and the assignments hang together after any overlap of edits
\* and deletions: a parent is there, an assignment has its term and its
\* asset, and a name is one term's within its tenant.
GlossaryConsistent ==
    /\ \A i \in DOMAIN db.terms : db.terms[i].parent \in {0} \cup Ids(db.terms)
    /\ \A i, j \in DOMAIN db.terms : i # j => db.terms[i].tenant # db.terms[j].tenant \/ db.terms[i].name # db.terms[j].name
    /\ \A i \in DOMAIN db.assignments : db.assignments[i].term \in Ids(db.terms) /\ db.assignments[i].asset \in Ids(db.assets)

\* "the table dedupes per voter": the count on an item is the number of
\* people who vote for it, whatever triage wrote the item back, and however
\* often votes were given and taken.
VotesCounted ==
    \A i \in DOMAIN db.items :
        db.items[i].votes = Cardinality({j \in DOMAIN db.votes : db.votes[j].item = db.items[i].id})

\* What a report says of a column was computed of that column: the decoder
\* cuts the row where the query put it together, whatever the types are.  A
\* report is older than FreshFor only when the source failed.
ReportsFaithful ==
    /\ \A i \in DOMAIN db.profiles :
           \A j \in DOMAIN db.profiles[i].report :
               LET c == db.profiles[i].report[j]
               IN  /\ \A k \in DOMAIN c.stats : c.stats[k][1] = c.name
                   /\ "mean" \in {c.stats[k][2] : k \in DOMAIN c.stats} <=> IsNumeric(DataTypes[c.name])
    /\ \A x \in reports : x.failed \/ x.hour - x.at < FreshFor
=============================================================================
