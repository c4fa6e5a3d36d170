----------------------------- MODULE Governance -----------------------------
(***************************************************************************)
(* Deleting, restoring and purging, legal holds, data subject requests,    *)
(* policy rules and certifications: the handlers of internal/api/http      *)
(* (deleted.go, legalholds.go, dsr.go, policies.go, certifications.go, and *)
(* the deleting halves of orchestration.go and checks.go) over either set  *)
(* of stores.  Policy rules are both a resource that can be deleted and    *)
(* what every handler's gate is decided by.                                *)
(***************************************************************************)
EXTENDS HttpRequests, GovernanceData

CONSTANTS
    Backends,   \* sets of stores to consider
    Bodies,     \* what policy rules say: a sequence of [effect, verbs, conds]
    Scopes,     \* scopes of holds, [types, ids, tags]
    Assets,     \* assets that may be certified
    Seed        \* the tables at the start

ASSUME GovernanceAssumption ==
    /\ Backends \subseteq {"memory", "postgres"}
    /\ IsFiniteSet(Requests)
    /\ {MaxRequests, MaxFaults} \subseteq Nat
    /\ \A p \in People : p.id # Blank /\ p.tenant \in Tenants
    /\ DOMAIN Bodies \subseteq Nat
    /\ Scopes \subseteq [types : SUBSET STRING, ids : SUBSET Nat, tags : SUBSET STRING]
    /\ Assets \subseteq Nat

\* The certification at i follows the row that it is a decision on.
Follows(certs, i) ==
    LET c == certs[i]
        before == Last(SubSeq(certs, 1, i - 1), LAMBDA d : d.tenant = c.tenant /\ d.asset = c.asset)
    IN  /\ c.status \in {"certified", "rejected"} => \E d \in before : d.status = "proposed"
        /\ c.status = "revoked" => \E d \in before : d.status = "certified"

KeyOf(row) == <<row.kind, row.id>>

\* The seed is what earlier requests may have left: ids are primary keys, those
\* of pipelines and checks never used again, and what was restored is there or
\* was deleted again.
ASSUME SeedAssumption ==
    /\ Seed \in Databases
    /\ \A i \in DOMAIN Seed.tombs : Seed.tombs[i].id = i
    /\ \A i \in DOMAIN Seed.certs : Seed.certs[i].id = i /\ Follows(Seed.certs, i)
    /\ \A x, y \in Recorded(Seed) : x.kind # "policy" /\ KeyOf(x) = KeyOf(y) => x = y
    /\ \A i, j \in DOMAIN Seed.rows : KeyOf(Seed.rows[i]) = KeyOf(Seed.rows[j]) => i = j
    /\ \A x \in Recorded(Seed) :
          \/ \E i \in DOMAIN Seed.rows : KeyOf(Seed.rows[i]) = KeyOf(x)
          \/ \E i \in DOMAIN Seed.tombs : KeyOf(Seed.tombs[i].row) = KeyOf(x) /\ ~Seed.tombs[i].restored

VARIABLES
    backend,  \* the stores the server was built with
    made,     \* history: <<kind, id>> of every row there ever was
    hollow,   \* history: rows whose restore went well and added nothing
    raced     \* history: certifications decided on what was no longer the latest

history == <<made, hollow, raced>>
vars == <<backend, db, req, started, faults, history>>

Mem == INSTANCE GovernanceMemory
Pg == INSTANCE GovernancePostgres

Store(inMemory, inPostgres) == IF backend = "memory" THEN inMemory ELSE inPostgres

Capture(row) == Store(Mem!Capture(db, row), Pg!Capture(db, row))
GetRecord(t, id) == Store(Mem!GetRecord(db, t, id), Pg!GetRecord(db, t, id))
MarkRestored(t, id) == Store(Mem!MarkRestored(db, t, id), Pg!MarkRestored(db, t, id))
MarkPurged(t, id) == Store(Mem!MarkPurged(db, t, id), Pg!MarkPurged(db, t, id))
Issue(h) == Store(Mem!Issue(db, h), Pg!Issue(db, h))
Release(t, id) == Store(Mem!Release(db, t, id), Pg!Release(db, t, id))
CheckAssets(t, type, id) ==  \* mutant: the wrong type of resource
    Store(Mem!Check(db, t, "asset", id, {}), Pg!Check(db, t, "asset", id, {}))
Check(t, type, id) == Store(Mem!Check(db, t, type, id, {}), Pg!Check(db, t, type, id, {}))
CreateRequest(t) == Store(Mem!CreateRequest(db, t), Pg!CreateRequest(db, t))
UpdateStatus(t, id, s) == Store(Mem!UpdateStatus(db, t, id, s, started'), Pg!UpdateStatus(db, t, id, s, started'))
AddRule(row) == Store(Mem!AddRule(db, row), Pg!AddRule(db, row))
ListRules(t) == Store(Mem!ListRules(db, t), Pg!ListRules(db, t))

\* GetPipeline, GetCheck, or the search of the rules; the handlers compare
\* the tenant of what they find.
Existing(kind, t, id) ==
    LET found == CASE kind = "pipeline" -> Store(Mem!GetPipeline(db, id), Pg!GetPipeline(db, t, id))
                   [] kind = "check"    -> Store(Mem!GetCheck(db, id), Pg!GetCheck(db, t, id))
                   [] kind = "policy"   -> {r \in ListRules(t) : r.id = id}
    IN  {row \in found : row.tenant = t}

PipelineRestorer(row) == Store(Mem!CreatePipeline(db, row), Pg!CreatePipeline(db, row))
CheckRestorer(row) == Store(Mem!CreateCheck(db, row), Pg!CreateCheck(db, row))
PolicyRestorer(row) == AddRule(row)

\* The restorer registered for the kind puts the row back.
Restorer(row) ==
    CASE row.kind = "pipeline" -> PipelineRestorer(row)
      [] row.kind = "check"    -> CheckRestorer(row)
      [] row.kind = "policy"   -> PolicyRestorer(row)

Delete(kind, t, id) ==
    CASE kind = "pipeline" -> Store(Mem!DeletePipeline(db, t, id), Pg!DeletePipeline(db, t, id))
      [] kind = "check"    -> Store(Mem!DeleteCheck(db, t, id), Pg!DeleteCheck(db, t, id))
      [] kind = "policy"   -> Store(Mem!DeleteRule(db, t, id), Pg!DeleteRule(db, t, id))

(***************************************************************************)
(* Who may do what                                                         *)
(***************************************************************************)
\* The rows of policy_rules as the engine reads them.
Rules(p) == {[tenant |-> row.tenant, type |-> "", resource |-> Blank, effect |-> Bodies[row.body].effect,
              verbs |-> Bodies[row.body].verbs, conds |-> Bodies[row.body].conds] : row \in ListRules(p.tenant)}

\* gateTenantAndVerb and gateTenantActorAndVerb: mustTenant, then the engine.
RulesGate(p, verb, type) ==
    LET res == [type |-> type, id |-> Blank, tenant |-> p.tenant, tags |-> {}, owners |-> {}]
    IN  Allow(p, verb, res, Store(RulesForResourceMemory(Rules(p), res), RulesForResourcePostgres(Rules(p), res)))

\* A request by p that the gate lets through.
Allowed(r, p, verb, type) == Begin(r) /\ UNCHANGED backend /\ RulesGate(p, verb, type)

Proceed(r, call) == Continue(r, call) /\ UNCHANGED backend

Live == {KeyOf(db.rows[i]) : i \in DOMAIN db.rows}

Init ==
    /\ InitRequests(Seed)
    /\ backend \in Backends
    /\ made = {KeyOf(row) : row \in Recorded(Seed)}
    /\ hollow = {}
    /\ raced = {}

(***************************************************************************)
(* Deleting and the recycle bin                                            *)
(***************************************************************************)
\* The row is found, and no hold that is active covers it; tags are not
\* passed.  held remembers how many holds there were.
StartDelete(r, p, kind, verb) ==
    /\ Allowed(r, p, verb, kind)
    /\ \E id \in {row.id : row \in {db.rows[i] : i \in DOMAIN db.rows}} :
           \E row \in Existing(kind, p.tenant, id) :
               /\ ~Check(p.tenant, kind, id)
               /\ Goto(r, [at |-> "capture", p |-> p, row |-> row, held |-> Len(db.holds)])
    /\ UNCHANGED <<db, history>>

DeletePipeline(r, p) == StartDelete(r, p, "pipeline", "delete")
DeleteCheck(r, p) == StartDelete(r, p, "check", "delete")
DeletePolicy(r, p) == StartDelete(r, p, "policy", "admin")

CaptureTombstone(r) ==
    /\ Proceed(r, "capture")
    /\ Then(r, Capture(req[r].row), [req[r] EXCEPT !.at = "remove"])
    /\ UNCHANGED history

Remove(r) ==
    /\ Proceed(r, "remove")
    /\ Finish(r, Delete(req[r].row.kind, req[r].p.tenant, req[r].row.id))
    /\ UNCHANGED history

Restore(r, p) ==
    /\ Allowed(r, p, "admin", "recycle_bin_entry")
    /\ \E i \in DOMAIN db.tombs : \E tomb \in GetRecord(p.tenant, db.tombs[i].id) :
           /\ IsActive(tomb)
           /\ Goto(r, [at |-> "recreate", p |-> p, tomb |-> tomb])
    /\ UNCHANGED <<db, history>>

Recreate(r) ==
    LET row == req[r].tomb.row
    IN  /\ Proceed(r, "recreate")
        /\ Then(r, Restorer(row), [req[r] EXCEPT !.at = "mark"])
        /\ hollow' = IF Restorer(row).err = "ok" /\ Len(db'.rows) = Len(db.rows)
                     THEN hollow \cup {KeyOf(row)}
                     ELSE hollow
        /\ UNCHANGED <<made, raced>>

\* A rule whose INSERT fails counts as restored.
RuleNotRestored(r) ==
    /\ At(r, "recreate")
    /\ req[r].tomb.row.kind = "policy"
    /\ backend = "postgres"
    /\ faults < MaxFaults
    /\ faults' = faults + 1
    /\ hollow' = hollow \cup {KeyOf(req[r].tomb.row)}
    /\ Goto(r, [req[r] EXCEPT !.at = "mark"])
    /\ UNCHANGED <<backend, db, started, made, raced>>

Mark(r) ==
    /\ Proceed(r, "mark")
    /\ Finish(r, MarkRestored(req[r].p.tenant, req[r].tomb.id))
    /\ UNCHANGED history

PurgeAnywhere(r, p) ==  \* mutant: the tenant is taken from the tombstone
    /\ Allowed(r, p, "purge", "recycle_bin_entry")
    /\ \E i \in DOMAIN db.tombs : Finish(r, MarkPurged(db.tombs[i].row.tenant, db.tombs[i].id))
    /\ UNCHANGED history

Purge(r, p) ==
    /\ Allowed(r, p, "purge", "recycle_bin_entry")
    /\ \E i \in DOMAIN db.tombs : Finish(r, MarkPurged(p.tenant, db.tombs[i].id))
    /\ UNCHANGED history

(***************************************************************************)
(* Holds, data subject requests and rules                                  *)
(***************************************************************************)
\* The body of the request is the hold itself.
IssueHold(r, p) ==
    /\ Allowed(r, p, "admin", "legal_hold")
    /\ \E s \in Scopes, released \in BOOLEAN :
           Finish(r, Issue([id |-> 0, tenant |-> p.tenant, types |-> s.types, ids |-> s.ids, tags |-> s.tags,
                            released |-> released]))
    /\ UNCHANGED history

ReleaseHold(r, p) ==
    /\ Allowed(r, p, "admin", "legal_hold")
    /\ \E i \in DOMAIN db.holds : Finish(r, Release(p.tenant, db.holds[i].id))
    /\ UNCHANGED history

CreateDSR(r, p) ==
    /\ Allowed(r, p, "admin", "dsr_request")
    /\ Finish(r, CreateRequest(p.tenant))
    /\ UNCHANGED history

\* Any status may follow any other.
UpdateDSRStatus(r, p) ==
    /\ Allowed(r, p, "admin", "dsr_request")
    /\ \E i \in DOMAIN db.dsrs, status \in DSRStatuses : Finish(r, UpdateStatus(p.tenant, db.dsrs[i].id, status))
    /\ UNCHANGED history

\* The body may name an id; without one the rule gets a new one.
CreatePolicy(r, p) ==
    /\ Allowed(r, p, "admin", "policy_rule")
    /\ \E body \in DOMAIN Bodies, id \in {1 + Cardinality(made)} \cup {k[2] : k \in {k \in made : k[1] = "policy"}} :
           /\ Finish(r, AddRule([kind |-> "policy", tenant |-> p.tenant, id |-> id, body |-> body]))
           /\ made' = made \cup {<<"policy", id>>}
    /\ UNCHANGED <<hollow, raced>>

(***************************************************************************)
(* Certifications                                                          *)
(***************************************************************************)
Propose(t, asset) == Pg!CreateCertification(db, t, asset, "proposed")

ProposeCert(r, p) ==
    /\ Allowed(r, p, "propose", "certification")
    /\ \E a \in Assets : Finish(r, Propose(p.tenant, a))
    /\ UNCHANGED history

RequireProposal(t, id) ==  \* mutant: whatever came after the proposal
    {c \in Pg!GetCertification(db, t, id) : c.status = "proposed"}

\* The proposal is the latest row of its asset.
RequireActiveProposal(t, id) ==
    {c \in Pg!GetCertification(db, t, id) : c.status = "proposed" /\ Pg!Latest(db, t, c.asset) = {c}}

\* on is the row that is decided upon, seen the number of rows at the time;
\* the decision is a row of its own.
Approve(r, p, id) ==
    \E c \in RequireActiveProposal(p.tenant, id) :
        Goto(r, [at |-> "decide", p |-> p, on |-> c, seen |-> Len(db.certs), status |-> "certified"])

Reject(r, p, id) ==
    \E c \in RequireActiveProposal(p.tenant, id) :
        Goto(r, [at |-> "decide", p |-> p, on |-> c, seen |-> Len(db.certs), status |-> "rejected"])

Revoke(r, p, asset) ==
    \E c \in Pg!Latest(db, p.tenant, asset) :
        /\ c.status = "certified"
        /\ Goto(r, [at |-> "decide", p |-> p, on |-> c, seen |-> Len(db.certs), status |-> "revoked"])

ApproveCert(r, p) ==
    /\ Allowed(r, p, "certify", "certification")
    /\ \E i \in DOMAIN db.certs : Approve(r, p, db.certs[i].id)
    /\ UNCHANGED <<db, history>>

RejectCert(r, p) ==
    /\ Allowed(r, p, "certify", "certification")
    /\ \E i \in DOMAIN db.certs : Reject(r, p, db.certs[i].id)
    /\ UNCHANGED <<db, history>>

RevokeCert(r, p) ==
    /\ Allowed(r, p, "certify", "certification")
    /\ \E a \in Assets : Revoke(r, p, a)
    /\ UNCHANGED <<db, history>>

Decide(r) ==
    LET t == req[r].p.tenant
        on == req[r].on
    IN  /\ Proceed(r, "decide")
        /\ Finish(r, Pg!CreateCertification(db, t, on.asset, req[r].status))
        /\ raced' = IF \E c \in Pg!History(db, t, on.asset) : c.id > req[r].seen THEN raced \cup {Len(db'.certs)} ELSE raced
        /\ UNCHANGED <<made, hollow>>

StatementFails(r) == CallFails(r) /\ UNCHANGED <<backend, history>>

Next ==
    \E r \in Requests :
        \/ \E p \in People :
              \/ DeletePipeline(r, p) \/ DeleteCheck(r, p) \/ DeletePolicy(r, p)
              \/ Restore(r, p) \/ Purge(r, p)
              \/ IssueHold(r, p) \/ ReleaseHold(r, p)
              \/ CreateDSR(r, p) \/ UpdateDSRStatus(r, p) \/ CreatePolicy(r, p)
              \/ ProposeCert(r, p) \/ ApproveCert(r, p) \/ RejectCert(r, p) \/ RevokeCert(r, p)
        \/ CaptureTombstone(r) \/ Remove(r)
        \/ Recreate(r) \/ RuleNotRestored(r) \/ Mark(r)
        \/ Decide(r)
        \/ StatementFails(r)

Spec == Init /\ [][Next]_vars

(***************************************************************************)
(* Properties                                                              *)
(***************************************************************************)
\* captureTombstone: "a resource caught by an active legal hold cannot be
\* removed even transiently".  A row that goes is under no hold but one
\* issued after the handler had looked for holds.
HeldRowsStay ==
    \A i \in DOMAIN db.rows :
        LET row == db.rows[i]
            gone == Where(db'.rows, LAMBDA x : x = row) = {}
        IN  gone => \A h \in DOMAIN db.holds :
                        db.holds[h].tenant = row.tenant /\ Matches(db.holds[h], row.kind, row.id, {})
                            => \E r \in Requests : /\ At(r, "remove") /\ h > req[r].held
                                                   /\ KeyOf(req[r].row) = KeyOf(row)

HoldBinds == [][HeldRowsStay]_vars

\* The recycle bin keeps what is deleted: a row there ever was is still
\* there, or in a tombstone nobody has restored, or was "restored" by a
\* restore that added nothing.  For pipelines and checks in Postgres no
\* restore is like that.
NothingLost ==
    /\ \A k \in made :
          \/ k \in Live \cup hollow
          \/ \E i \in DOMAIN db.tombs : KeyOf(db.tombs[i].row) = k /\ ~db.tombs[i].restored
    /\ backend = "postgres" => \A k \in hollow : k[1] = "policy"

\* requireActiveProposal "prevents double-resolve against an already-handled
\* proposal": a decision follows the row it is a decision on, unless another
\* row was added between the reviewer's check and the decision.
DecisionsFollow == \A i \in DOMAIN db.certs \ raced : Follows(db.certs, i)

\* The recycle bin keeps what is deleted, and a hold keeps it from being so.
DeletionsSafe == []NothingLost /\ HoldBinds

\* What the reading handlers show p: the recycle bin, holds, requests, rules,
\* the history of an asset and the queue of reviewers.
ListDeleted(p) == Store(Mem!ListRecords(db, p.tenant, "", TRUE, TRUE, 0), Pg!ListRecords(db, p.tenant, "", TRUE, TRUE, 0))
GetDeleted(p, id) == GetRecord(p.tenant, id)
ListLegalHolds(p) == Store(Mem!ListHolds(db, p.tenant), Pg!ListHolds(db, p.tenant))
ListDSR(p) == Store(Mem!ListRequests(db, p.tenant), Pg!ListRequests(db, p.tenant))
GetDSR(p, id) == Store(Mem!GetRequest(db, p.tenant, id), Pg!GetRequest(db, p.tenant, id))
ListPolicies(p) == ListRules(p.tenant)
ListAssetCerts(p, a) == Pg!History(db, p.tenant, a) \cup Pg!Latest(db, p.tenant, a)
PendingCerts(p) == Pg!ListPending(db, p.tenant, 100)

\* The rows of the tenants nobody works for.
OfOthers(d) ==
    LET away(row) == \A p \in People : p.tenant # row.tenant
    IN  [rows  |-> Rows(d.rows, away),
         tombs |-> Rows(d.tombs, LAMBDA tomb : away(tomb.row)),
         holds |-> Rows(d.holds, away),
         dsrs  |-> Rows(d.dsrs, away),
         certs |-> Rows(d.certs, away)]

\* Tenants are apart: requests leave the rows of a tenant nobody works for as
\* they were, and no list shows a caller a row of another tenant.
TenantsApart ==
    /\ OfOthers(db) = OfOthers(Seed)
    /\ \A p \in People :
          /\ \A tomb \in ListDeleted(p) \cup (UNION {GetDeleted(p, i) : i \in DOMAIN db.tombs}) : tomb.row.tenant = p.tenant
          /\ \A row \in ListLegalHolds(p) \cup ListDSR(p) \cup ListPolicies(p) \cup PendingCerts(p)
                        \cup (UNION {ListAssetCerts(p, a) : a \in Assets})
                        \cup (UNION {GetDSR(p, i) : i \in DOMAIN db.dsrs}) : row.tenant = p.tenant
=============================================================================
