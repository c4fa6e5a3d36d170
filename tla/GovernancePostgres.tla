------------------------- MODULE GovernancePostgres -------------------------
(***************************************************************************)
(* DeletedStore, LegalHoldStore, DSRStore, PolicyStore, QualityStore,      *)
(* PipelineStore and CertificationStore of internal/storage/postgres.      *)
(* Every method is one statement; statements that fail are in module       *)
(* Governance.                                                             *)
(***************************************************************************)
EXTENDS GovernanceData

Capture(db, row) == Ok([db EXCEPT !.tombs = Append(@, [id |-> NextID(@), row |-> row, restored |-> FALSE, purged |-> FALSE])])

GetRecord(db, t, id) == Rows(db.tombs, LAMBDA r : r.row.tenant = t /\ r.id = id)

ListRecords(db, t, type, restored, purged, limit) ==
    Newest(db.tombs,
           LAMBDA r : /\ r.row.tenant = t
                      /\ type \in {"", r.row.kind}
                      /\ restored \/ ~r.restored
                      /\ purged \/ ~r.purged,
           IF limit <= 0 \/ limit > 1000 THEN 100 ELSE limit)

MarkRestored(db, t, id) ==
    LET P(r) == r.row.tenant = t /\ r.id = id /\ ~r.purged
    IN  Affected(db, db.tombs, P, [db EXCEPT !.tombs = Set(@, P, LAMBDA r : [r EXCEPT !.restored = TRUE])])

MarkPurged(db, t, id) ==
    LET P(r) == r.row.tenant = t /\ r.id = id
    IN  Affected(db, db.tombs, P, [db EXCEPT !.tombs = Set(@, P, LAMBDA r : [r EXCEPT !.purged = TRUE])])

ListHolds(db, t) == Rows(db.holds, LAMBDA h : h.tenant = t)

\* The INSERT names no released_at.
Issue(db, h) == Ok([db EXCEPT !.holds = Append(@, [h EXCEPT !.id = NextID(db.holds), !.released = FALSE])])

Release(db, t, id) ==
    LET P(h) == h.tenant = t /\ h.id = id /\ ~h.released
    IN  Affected(db, db.holds, P, [db EXCEPT !.holds = Set(@, P, LAMBDA h : [h EXCEPT !.released = TRUE])])

\* TRUE when the resource is held.
Check(db, t, type, id, tags) ==
    \E h \in Rows(db.holds, LAMBDA h : h.tenant = t /\ ~h.released) : Matches(h, type, id, tags)

CreateRequest(db, t) ==
    Ok([db EXCEPT !.dsrs = Append(@, [id |-> NextID(@), tenant |-> t, status |-> "received", completed |-> 0])])

GetRequest(db, t, id) == Rows(db.dsrs, LAMBDA d : d.tenant = t /\ d.id = id)

ListRequests(db, t) == Rows(db.dsrs, LAMBDA d : d.tenant = t)

\* A request that is completed again is dated again.
UpdateStatus(db, t, id, status, now) ==
    LET P(d) == d.tenant = t /\ d.id = id
        New(d) == [d EXCEPT !.status = status, !.completed = IF status = "completed" THEN now ELSE @]
    IN  Affected(db, db.dsrs, P, [db EXCEPT !.dsrs = Set(@, P, New)])

\* INSERT ... PRIMARY KEY (id).
Insert(db, row) ==
    IF Where(db.rows, LAMBDA r : r.kind = row.kind /\ r.id = row.id) = {}
    THEN Ok([db EXCEPT !.rows = Append(@, row)])
    ELSE Fails("duplicate", db)

\* The error of the INSERT is dropped, and the rule returned as if it were there.
AddRule(db, row) == Ok(Insert(db, row).db)

\* resource_type and resource_id are '' in every row that AddRule inserts.
ListRules(db, t) == Rows(db.rows, LAMBDA r : r.kind = "policy" /\ r.tenant = t)

Drop(db, kind, t, id) ==
    LET P(r) == r.kind = kind /\ r.tenant = t /\ r.id = id
    IN  Affected(db, db.rows, P, [db EXCEPT !.rows = Without(@, P)])

DeleteRule(db, t, id) == Drop(db, "policy", t, id)

CreatePipeline(db, row) == Insert(db, row)
CreateCheck(db, row) == Insert(db, row)

\* The tenant of the request's context: another tenant's row is not found.
GetPipeline(db, t, id) == Rows(db.rows, LAMBDA r : r.kind = "pipeline" /\ r.tenant = t /\ r.id = id)
GetCheck(db, t, id) == Rows(db.rows, LAMBDA r : r.kind = "check" /\ r.tenant = t /\ r.id = id)

DeletePipeline(db, t, id) == Drop(db, "pipeline", t, id)
DeleteCheck(db, t, id) == Drop(db, "check", t, id)

\* CertificationStore: rows are only ever added.
CreateCertification(db, t, asset, status) ==
    Ok([db EXCEPT !.certs = Append(@, [id |-> NextID(@), tenant |-> t, asset |-> asset, status |-> status])])

GetCertification(db, t, id) == Rows(db.certs, LAMBDA c : c.tenant = t /\ c.id = id)

Latest(db, t, asset) == Last(db.certs, LAMBDA c : c.tenant = t /\ c.asset = asset)

History(db, t, asset) == Rows(db.certs, LAMBDA c : c.tenant = t /\ c.asset = asset)

ListPending(db, t, limit) ==
    LET latest == UNION {Latest(db, t, db.certs[i].asset) : i \in DOMAIN db.certs}
    IN  {c \in latest : /\ c.status = "proposed"
                        /\ Cardinality({d \in latest : d.status = "proposed" /\ d.id > c.id})
                             < (IF limit <= 0 \/ limit > 500 THEN 100 ELSE limit)}
=============================================================================
