-------------------------- MODULE GovernanceMemory --------------------------
(***************************************************************************)
(* The in-process stores of core/deleted, core/legalhold, core/dsr,        *)
(* core/policy, core/quality and core/pipeline.  Every method runs under   *)
(* the store's mutex.                                                      *)
(***************************************************************************)
EXTENDS GovernanceData

Capture(db, row) == Ok([db EXCEPT !.tombs = Append(@, [id |-> NextID(@), row |-> row, restored |-> FALSE, purged |-> FALSE])])

GetRecord(db, t, id) == Rows(db.tombs, LAMBDA r : r.id = id /\ r.row.tenant = t)

ListRecords(db, t, type, restored, purged, limit) ==
    Newest(db.tombs,
           LAMBDA r : /\ r.row.tenant = t
                      /\ type \in {"", r.row.kind}
                      /\ r.restored => restored
                      /\ r.purged => purged,
           IF limit <= 0 \/ limit > 1000 THEN 100 ELSE limit)

MarkRestored(db, t, id) ==
    LET P(r) == r.id = id /\ r.row.tenant = t
    IN  IF \E r \in Rows(db.tombs, P) : ~r.purged
        THEN Ok([db EXCEPT !.tombs = Set(@, P, LAMBDA r : [r EXCEPT !.restored = TRUE])])
        ELSE Fails("not_found", db)

MarkPurged(db, t, id) ==
    LET P(r) == r.id = id /\ r.row.tenant = t
    IN  Affected(db, db.tombs, P, [db EXCEPT !.tombs = Set(@, P, LAMBDA r : [r EXCEPT !.purged = TRUE])])

ListHolds(db, t) == Rows(db.holds, LAMBDA h : h.tenant = t)

\* The hold is kept as the client sent it, its release included.
Issue(db, h) == Ok([db EXCEPT !.holds = Append(@, [h EXCEPT !.id = NextID(db.holds)])])

Release(db, t, id) ==
    LET P(h) == h.tenant = t /\ h.id = id /\ ~h.released
    IN  Affected(db, db.holds, P, [db EXCEPT !.holds = Set(@, P, LAMBDA h : [h EXCEPT !.released = TRUE])])

\* TRUE when the resource is held.
Check(db, t, type, id, tags) == \E h \in ListHolds(db, t) : Matches(h, type, id, tags)

CreateRequest(db, t) ==
    Ok([db EXCEPT !.dsrs = Append(@, [id |-> NextID(@), tenant |-> t, status |-> "received", completed |-> 0])])

GetRequest(db, t, id) == Rows(db.dsrs, LAMBDA d : d.tenant = t /\ d.id = id)

ListRequests(db, t) == Rows(db.dsrs, LAMBDA d : d.tenant = t)

\* The date of completion is set once.
UpdateStatus(db, t, id, status, now) ==
    LET P(d) == d.tenant = t /\ d.id = id
        New(d) == [d EXCEPT !.status = status,
                            !.completed = IF status = "completed" /\ @ = 0 THEN now ELSE @]
    IN  Affected(db, db.dsrs, P, [db EXCEPT !.dsrs = Set(@, P, New)])

\* The rule is appended, whatever its id.
AddRule(db, row) == Ok([db EXCEPT !.rows = Append(@, row)])

ListRules(db, t) == Rows(db.rows, LAMBDA r : r.kind = "policy" /\ r.tenant \in {Blank, t})

RemoveAt(s, i) == SubSeq(s, 1, i - 1) \o SubSeq(s, i + 1, Len(s))

\* The first rule with the id goes.
DeleteRule(db, t, id) ==
    LET hits == Where(db.rows, LAMBDA r : r.kind = "policy" /\ r.id = id /\ r.tenant \in {Blank, t})
        first == CHOOSE i \in hits : \A j \in hits : i <= j
    IN  IF hits = {} THEN Fails("not_found", db) ELSE Ok([db EXCEPT !.rows = RemoveAt(@, first)])

\* Pipelines and checks are maps: a row with the same id is overwritten.
Put(db, row) ==
    LET P(r) == r.kind = row.kind /\ r.id = row.id
    IN  Ok([db EXCEPT !.rows = IF Where(@, P) = {} THEN Append(@, row) ELSE Set(@, P, LAMBDA r : row)])

CreatePipeline(db, row) == Put(db, row)
CreateCheck(db, row) == Put(db, row)

GetPipeline(db, id) == Rows(db.rows, LAMBDA r : r.kind = "pipeline" /\ r.id = id)
GetCheck(db, id) == Rows(db.rows, LAMBDA r : r.kind = "check" /\ r.id = id)

Drop(db, kind, t, id) ==
    LET P(r) == r.kind = kind /\ r.tenant = t /\ r.id = id
    IN  Affected(db, db.rows, P, [db EXCEPT !.rows = Without(@, P)])

DeletePipeline(db, t, id) == Drop(db, "pipeline", t, id)
DeleteCheck(db, t, id) == Drop(db, "check", t, id)
=============================================================================
