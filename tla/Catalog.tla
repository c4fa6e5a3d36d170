------------------------------ MODULE Catalog ------------------------------
(***************************************************************************)
(* The assets over HTTP (internal/api/http/catalog.go and lineage.go), on  *)
(* the store of Postgres or the one in memory, and the connections to the  *)
(* data sources they come from (connections.go), with the secrets these    *)
(* keep in the vault.  A client may read the whole list of assets page by  *)
(* page; assets change between two pages.  What a connection is configured *)
(* with, but for its name and type, is left out.                           *)
(***************************************************************************)
EXTENDS HttpRequests, CatalogStores, TLC

CONSTANTS
    Stores,       \* the stores a deployment may have, a subset of {"postgres", "memory"}
    AssetBodies,  \* bodies of requests, [qn, type, desc, trust, tags, owners]
    OwnerLists,   \* owners a request may set
    PageSize,     \* the page_size of a client
    Clients,      \* clients that read all pages
    ConnNames,    \* names of connections requests may give
    Types,        \* types of connections requests may give, "" for none
    Testers,      \* the types of Registry
    Passwords     \* passwords requests may give, 0 for none

VARIABLES
    store,    \* the store of this deployment
    walks,    \* client -> its walk through the pages, [token, mark, seen, all, broken], or NoWalk
    finished, \* walks that came to their last page
    orphaned  \* connections whose secret a race or a fault may have left behind

catvars == <<store, walks, finished>>

NoWalk == [token |-> -1]

\* Every method of storage.Store, on the store there is.
SCreateAsset(d, a) == IF store = "memory" THEN MemCreateAsset(d, a) ELSE CreateAsset(d, a)
SGetAsset(d, t, id) == IF store = "memory" THEN MemGetAsset(d, t, id) ELSE GetAsset(d, t, id)
SGetByQN(d, t, qn) ==
    IF store = "memory" THEN MemGetAssetByQualifiedName(d, t, qn) ELSE GetAssetByQualifiedName(d, t, qn)
SUpdateAsset(d, a) == IF store = "memory" THEN MemUpdateAsset(d, a) ELSE UpdateAsset(d, a)
SDeleteAsset(d, t, id) == IF store = "memory" THEN MemDeleteAsset(d, t, id) ELSE DeleteAsset(d, t, id)
SListAssets(d, t, type, size, token) ==
    IF store = "memory" THEN MemListAssets(d, t, type, size, token) ELSE ListAssets(d, t, type, size, token)
SNeighbors(d, t, id, outgoing, kind) ==
    IF store = "memory" THEN MemNeighbors(d, t, id, outgoing, kind) ELSE Neighbors(d, t, id, outgoing, kind)

MaxTags == 64
MaxOwners == 64

\* Lengths of texts are left out, but for the empty ones.
ValidateAsset(a) ==
    /\ a.qn # <<>>
    /\ a.type # ""
    /\ Cardinality(a.tags) <= MaxTags
    /\ Cardinality(a.owners) <= MaxOwners

Checked(a, answer) == IF ValidateAsset(a) THEN answer ELSE Fails("invalid", db)

AssetIds == {db.assets[i].id : i \in DOMAIN db.assets}

CreateAssetRequest(r, p) ==
    /\ Admitted(r, p, "edit", "asset")
    /\ \E body \in AssetBodies :
           LET a == [id |-> 100 + started', tenant |-> p.tenant] @@ body
           IN  Finish(r, Checked(a, SCreateAsset(db, a)))

\* A full replace.
UpdateAssetRequest(r, p) ==
    /\ Admitted(r, p, "edit", "asset")
    /\ \E id \in AssetIds, body \in AssetBodies :
           LET a == [id |-> id, tenant |-> p.tenant] @@ body
           IN  Finish(r, Checked(a, SUpdateAsset(db, a)))

\* The asset is read, its owners swapped, and all of it written.
UpdateAssetOwnersRequest(r, p) ==
    /\ Admitted(r, p, "edit", "asset")
    /\ \E id \in AssetIds, owners \in OwnerLists :
           IF SGetAsset(db, p.tenant, id) = {} THEN Answer(r)
           ELSE \E a \in SGetAsset(db, p.tenant, id) :
                    Goto(r, [at |-> "owners", read |-> a, asset |-> [a EXCEPT !.owners = owners]])
    /\ UNCHANGED db

SaveOwners(r) ==
    /\ Continue(r, "owners")
    /\ Finish(r, Checked(req[r].asset, SUpdateAsset(db, req[r].asset)))

DeleteAssetRequest(r, p) ==
    /\ Admitted(r, p, "delete", "asset")
    /\ \E id \in AssetIds : Finish(r, SDeleteAsset(db, p.tenant, id))

(***************************************************************************)
(* What p is shown                                                         *)
(***************************************************************************)
Range1(seq) == {seq[i] : i \in DOMAIN seq}
CanRead(p) == Gate(p, "read", "asset")

GetAssetRequest(p) == IF CanRead(p) THEN UNION {SGetAsset(db, p.tenant, id) : id \in AssetIds} ELSE {}
GetByQNRequest(p) == IF CanRead(p) THEN UNION {SGetByQN(db, p.tenant, a.qn) : a \in Range1(db.assets)} ELSE {}
ListAssetsRequest(p, type, size, token) ==
    IF CanRead(p) THEN SListAssets(db, p.tenant, type, size, token) ELSE [assets |-> <<>>, next |-> 0]

\* The first page of at most 500 is searched, and a limit of hits is shown;
\* an asset matches by its name, its qualified name or its description.
MatchScore(a, needle) ==
    CASE a.qn[Len(a.qn)] % 10 = needle                 -> 10
      [] needle \in {part % 10 : part \in Range1(a.qn)} -> 7
      [] a.desc = needle                               -> 3
      [] OTHER                                         -> 0

SearchAssetsRequest(p, needle) ==
    {a \in Range1(ListAssetsRequest(p, "", 500, 0).assets) : MatchScore(a, needle) > 0}

\* The asset and, across edges in either direction, its neighbours.
LineageRequest(p, id) ==
    IF ~CanRead(p) \/ SGetAsset(db, p.tenant, id) = {} THEN {}
    ELSE LET edges == SNeighbors(db, p.tenant, id, TRUE, "") \cup SNeighbors(db, p.tenant, id, FALSE, "")
         IN  SGetAsset(db, p.tenant, id) \cup UNION {SGetAsset(db, p.tenant, e.from) \cup SGetAsset(db, p.tenant, e.to) : e \in edges}

(***************************************************************************)
(* A client that reads page after page                                     *)
(***************************************************************************)
InTenant(t) == {[id |-> a.id, qn |-> a.qn] : a \in Rows(db.assets, LAMBDA x : x.tenant = t)}

FirstPage(c, p) ==
    /\ walks[c] = NoWalk
    /\ CanRead(p)
    /\ walks' = [walks EXCEPT ![c] = [token |-> 0, mark |-> {}, tenant |-> p.tenant, seen |-> <<>>,
                                      all |-> InTenant(p.tenant), broken |-> FALSE]]
    /\ UNCHANGED <<db, req, started, faults, store, finished>>

\* all: the assets that have been there, under one name, since the first page.
\* broken: the asset a page ended on is gone, or has another name, when the
\* next one is asked for.
NextPage(c, p) ==
    LET w == walks[c]
        page == ListAssetsRequest(p, "", PageSize, w.token)
        walk == [w EXCEPT !.token = page.next,
                          !.mark = {a \in InTenant(w.tenant) : a.id = page.next},
                          !.seen = @ \o [i \in DOMAIN page.assets |-> page.assets[i].id],
                          !.all = @ \cap InTenant(w.tenant),
                          !.broken = @ \/ ~(w.mark \subseteq InTenant(w.tenant))]
    IN  /\ w # NoWalk /\ w.tenant = p.tenant
        /\ Len(w.seen) < 10
        /\ IF page.next = 0
           THEN walks' = [walks EXCEPT ![c] = NoWalk] /\ finished' = finished \cup {walk}
           ELSE walks' = [walks EXCEPT ![c] = walk] /\ UNCHANGED finished
        /\ UNCHANGED <<db, req, started, faults, store>>

InitCatalog == store \in Stores /\ walks = [c \in Clients |-> NoWalk] /\ finished = {}

CatalogNext ==
    \/ /\ \E r \in Requests :
              \/ SaveOwners(r)
              \/ \E p \in People : \/ CreateAssetRequest(r, p) \/ UpdateAssetRequest(r, p)
                                   \/ UpdateAssetOwnersRequest(r, p) \/ DeleteAssetRequest(r, p)
       /\ UNCHANGED catvars
    \/ \E c \in Clients, p \in People : FirstPage(c, p) \/ NextPage(c, p)

(***************************************************************************)
(* A connection's secret                                                   *)
(***************************************************************************)
\* The urn of a connection's secret.
URN(t, id) == SecretURNFor(t, "connection", id)

ConnIds == {db.connections[i].id : i \in DOMAIN db.connections}

(***************************************************************************)
(* POST: the row, the secret, and then the row again with the urn.         *)
(***************************************************************************)
CreateConnectionRequest(r, p) ==
    /\ Admitted(r, p, "admin", "connection")
    /\ \E name \in ConnNames, type \in Types, pw \in Passwords :
           LET c == [id |-> 100 + started', tenant |-> p.tenant, name |-> name, type |-> type, urn |-> NoURN, health |-> ""]
           IN  IF 0 \in {name} \/ type = "" THEN UNCHANGED db /\ Answer(r)
               ELSE Then(r, CreateConnection(db, c),
                         IF pw = 0 THEN Idle ELSE [at |-> "put", conn |-> [c EXCEPT !.health = "unknown"], pw |-> pw])
    /\ UNCHANGED orphaned

PutNewSecret(r) ==
    /\ Continue(r, "put")
    /\ LET c == req[r].conn
       IN  Then(r, Put(db, c.tenant, URN(c.tenant, c.id), req[r].pw),
                [at |-> "stamp", conn |-> [c EXCEPT !.urn = URN(c.tenant, c.id)]])
    /\ UNCHANGED orphaned

\* The vault fails: the row is rolled back.
PutNewSecretFails(r) ==
    /\ At(r, "put")
    /\ faults < MaxFaults /\ faults' = faults + 1
    /\ Goto(r, [at |-> "rollback", conn |-> req[r].conn])
    /\ UNCHANGED <<db, started, orphaned>>

RollBack(r) ==
    /\ Continue(r, "rollback")
    /\ db' = DeleteConnection(db, req[r].conn.tenant, req[r].conn.id).db
    /\ Answer(r)
    /\ UNCHANGED orphaned

\* The row may be gone by now: the secret stays, and nothing points to it.
StampURN(r) ==
    /\ Continue(r, "stamp")
    /\ LET answer == UpdateConnection(db, req[r].conn)
       IN  /\ Finish(r, answer)
           /\ orphaned' = IF answer.err = "ok" THEN orphaned ELSE orphaned \cup {req[r].conn.id}

(***************************************************************************)
(* PATCH: the row is read and written as a whole, urn included; then the   *)
(* secret, under the connection's urn whether the row has it or not.       *)
(***************************************************************************)
UpdateConnectionRequest(r, p) ==
    /\ Admitted(r, p, "admin", "connection")
    /\ \E id \in ConnIds, name \in ConnNames, pw \in Passwords :
           IF GetConnection(db, p.tenant, id) = {} THEN Answer(r)
           ELSE \E c \in GetConnection(db, p.tenant, id) :
                    Goto(r, [at |-> "patch", conn |-> IF name = 0 THEN c ELSE [c EXCEPT !.name = name], pw |-> pw])
    /\ UNCHANGED <<db, orphaned>>

PatchRow(r) ==
    /\ Continue(r, "patch")
    /\ Then(r, UpdateConnection(db, req[r].conn),
            IF req[r].pw = 0 THEN Idle ELSE [at |-> "reseal", conn |-> req[r].conn, pw |-> req[r].pw])
    /\ orphaned' = IF \E x \in GetConnection(db, req[r].conn.tenant, req[r].conn.id) : x.urn # req[r].conn.urn
                   THEN orphaned \cup {req[r].conn.id} ELSE orphaned

PutSecretAgain(r) ==
    /\ Continue(r, "reseal")
    /\ LET c == req[r].conn
           live == GetConnection(db, c.tenant, c.id)
       IN  /\ Finish(r, Put(db, c.tenant, URN(c.tenant, c.id), req[r].pw))
           /\ orphaned' = IF \E x \in live : x.urn # NoURN THEN orphaned ELSE orphaned \cup {c.id}

(***************************************************************************)
(* DELETE: the row is read for its urn, deleted, and then its secret.      *)
(***************************************************************************)
SecretFirst(r) ==  \* mutant: the secret goes before the row
    /\ Continue(r, "delete")
    /\ LET gone == DeleteSealed(db, req[r].tenant, req[r].urn)
       IN  IF req[r].urn # NoURN /\ gone.err = "ok" THEN db' = gone.db /\ Goto(r, [req[r] EXCEPT !.urn = NoURN])
           ELSE Finish(r, DeleteConnection(db, req[r].tenant, req[r].id))
    /\ UNCHANGED orphaned

DeleteConnectionRequest(r, p) ==
    /\ Admitted(r, p, "delete", "connection")
    /\ \E id \in ConnIds : Goto(r, [at |-> "find", tenant |-> p.tenant, id |-> id])
    /\ UNCHANGED <<db, orphaned>>

ToDelete(r, urn) == Goto(r, [at |-> "delete", tenant |-> req[r].tenant, id |-> req[r].id, urn |-> urn])

FindURN(r) ==
    /\ Continue(r, "find")
    /\ LET c == GetConnection(db, req[r].tenant, req[r].id)
       IN  ToDelete(r, IF c = {} THEN NoURN ELSE (CHOOSE x \in c : TRUE).urn)
    /\ UNCHANGED <<db, orphaned>>

\* An error is dropped: the row is deleted all the same, and its secret not.
FindURNFails(r) ==
    /\ At(r, "find")
    /\ faults < MaxFaults /\ faults' = faults + 1
    /\ ToDelete(r, NoURN)
    /\ UNCHANGED <<db, started, orphaned>>

DeleteRow(r) ==
    /\ Continue(r, "delete")
    /\ LET w == req[r]
           answer == DeleteConnection(db, w.tenant, w.id)
       IN  /\ Then(r, answer, IF w.urn = NoURN THEN Idle ELSE [w EXCEPT !.at = "scrub"])
           /\ orphaned' = IF answer.err = "ok" /\ w.urn = NoURN THEN orphaned \cup {w.id} ELSE orphaned

\* Best effort.
Scrub(r) ==
    /\ Continue(r, "scrub")
    /\ db' = DeleteSealed(db, req[r].tenant, req[r].urn).db
    /\ Answer(r)
    /\ UNCHANGED orphaned

(***************************************************************************)
(* Tests of a connection                                                   *)
(***************************************************************************)
\* A draft: nothing is stored.
TestDraftConnectionRequest(r, p) ==
    /\ Admitted(r, p, "admin", "connection")
    /\ Answer(r)
    /\ UNCHANGED <<db, orphaned>>

\* Without a tester of its type, or without the secret, there is no test.
TestConnectionRequest(r, p) ==
    /\ Admitted(r, p, "admin", "connection")
    /\ \E id \in ConnIds :
           IF GetConnection(db, p.tenant, id) = {} THEN Answer(r)
           ELSE \E c \in GetConnection(db, p.tenant, id) :
                    IF c.type \notin Testers THEN Answer(r) ELSE Goto(r, [at |-> "secret", conn |-> c])
    /\ UNCHANGED <<db, orphaned>>

ReadSecret(r) ==
    /\ Continue(r, "secret")
    /\ LET c == req[r].conn
       IN  IF c.urn # NoURN /\ GetSealed(db, c.tenant, c.urn) = {} THEN Answer(r)
           ELSE Goto(r, [at |-> "health", conn |-> c])
    /\ UNCHANGED <<db, orphaned>>

\* What the source answered, stored however late.
StoreHealth(r) ==
    /\ Continue(r, "health")
    /\ \E health \in {"healthy", "unreachable"} :
           db' = UpdateHealth(db, req[r].conn.tenant, req[r].conn.id, health).db
    /\ Answer(r)
    /\ UNCHANGED orphaned

\* The request's process dies, or its client goes away and a call fails: the
\* handler stops where it is.
HandlerStops(r) ==
    /\ req[r] # Idle
    /\ req[r].at \in {"put", "stamp", "rollback", "patch", "reseal", "delete", "scrub", "secret", "health"}
    /\ faults < MaxFaults /\ faults' = faults + 1
    /\ orphaned' = IF req[r].at \in {"stamp", "scrub"}
                   THEN orphaned \cup {IF req[r].at = "scrub" THEN req[r].id ELSE req[r].conn.id} ELSE orphaned
    /\ Answer(r)
    /\ UNCHANGED <<db, started>>

(***************************************************************************)
(* Connections p is shown: never the urn's secret.                         *)
(***************************************************************************)
ToView(c) == [id |-> c.id, tenant |-> c.tenant, name |-> c.name, type |-> c.type, health |-> c.health]

GetConnectionRequest(p) ==
    IF Gate(p, "read", "connection") THEN {ToView(c) : c \in UNION {GetConnection(db, p.tenant, id) : id \in ConnIds}} ELSE {}
ListConnectionsRequest(p) ==
    IF Gate(p, "read", "connection") THEN {ToView(c) : c \in ListConnections(db, p.tenant)} ELSE {}

ConnectionsNext ==
    \E r \in Requests :
        \/ PutNewSecret(r) \/ PutNewSecretFails(r) \/ RollBack(r) \/ StampURN(r)
        \/ PatchRow(r) \/ PutSecretAgain(r) \/ FindURN(r) \/ FindURNFails(r) \/ DeleteRow(r) \/ Scrub(r)
        \/ ReadSecret(r) \/ StoreHealth(r) \/ HandlerStops(r)
        \/ \E p \in People : \/ CreateConnectionRequest(r, p) \/ UpdateConnectionRequest(r, p) \/ DeleteConnectionRequest(r, p)
                             \/ TestDraftConnectionRequest(r, p) \/ TestConnectionRequest(r, p)

(***************************************************************************)
(* Properties                                                              *)
(***************************************************************************)
\* A client that follows next_page_token to the last page has been shown
\* every asset that was there all the while, whatever was created, renamed or
\* deleted between its pages, and no asset twice that kept its name; unless
\* the asset that a token names was deleted or renamed.
PagesComplete ==
    \A w \in finished :
        w.broken \/ \A a \in w.all : Cardinality({i \in DOMAIN w.seen : w.seen[i] = a.id}) = 1

\* The index of the store in memory has each asset once, under its name, and
\* nothing else, after any sequence of renames and deletions: so a qualified
\* name leads to the asset that has it, and a name that was given up is free.
\* In Postgres a name is one asset's.
NamesExact ==
    /\ store = "memory" => db.byQN = {QnKey(a.tenant, a.qn) \o <<a.id>> : a \in Range1(db.assets)}
    /\ \A i, j \in DOMAIN db.assets :
           i # j => db.assets[i].tenant # db.assets[j].tenant \/ db.assets[i].qn # db.assets[j].qn

\* "leaving a connection with a known URN but no actual secret is worse than
\* failing": whatever creates, edits and deletions overlap or stop half-way,
\* the urn on a connection leads to a secret of its tenant.
SecretsReachable ==
    \A i \in DOMAIN db.connections :
        LET c == db.connections[i] IN c.urn # NoURN => GetSealed(db, c.tenant, c.urn) # {}

\* A secret whose connection is gone, or does not name it, was left by a
\* request that overlapped a deletion or an edit, stopped half-way, or gave a
\* password to a connection made without one, or by a deletion that could not
\* read the urn: deletions otherwise clean up.
OrphansExplained ==
    \A i \in DOMAIN db.secrets :
        LET s == db.secrets[i]
            busy == \E r \in Requests : \/ At(r, "stamp") /\ req[r].conn.id = s.urn[3]
                                        \/ At(r, "scrub") /\ req[r].id = s.urn[3]
        IN  \/ s.urn[2] # "connection"
            \/ \E c \in GetConnection(db, s.tenant, s.urn[3]) : c.urn = s.urn
            \/ busy
            \/ s.urn[3] \in orphaned
=============================================================================
