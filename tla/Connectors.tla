----------------------------- MODULE Connectors -----------------------------
(***************************************************************************)
(* The connectors (internal/connectors): a crawl reads a source and emits  *)
(* assets and edges into a sink, which writes them to the catalog in       *)
(* batches (shared/sink.go).  Edges name their ends, and the sink looks    *)
(* the names up.  Crawls overlap each other and the requests of people.    *)
(*                                                                         *)
(* An emission is [op |-> "asset", qn, type, desc, tags] or                *)
(* [op |-> "edge", kind, from, to] with qualified names for its ends.      *)
(***************************************************************************)
EXTENDS Catalog

LOCAL Seqs == INSTANCE SequencesExt

CONSTANTS
    Crawls,    \* crawls that may run, numbers
    Configs,   \* what may be crawled, [connector, ...] as below
    SinkBatch, \* BatchSize of the sink
    MaxEdits   \* bound: requests of people

VARIABLES
    crawls,  \* crawl -> where it stands, [at, ...]
    lost     \* crawl -> names it emits that an asset had and no asset has since

cvars == <<crawls, lost>>

\* The first part of the names of each connector, and the schema of a name without one.
Scheme == [relational |-> 7, warehouse |-> 8, transform |-> 9]
Public == 5

AssetOf(qn, type, desc, tags) == [op |-> "asset", qn |-> qn, type |-> type, desc |-> desc, tags |-> tags]
EdgeOf(kind, from, to) == [op |-> "edge", kind |-> kind, from |-> from, to |-> to]
Plainly(qn, type) == AssetOf(qn, type, 0, {})

(***************************************************************************)
(* relational.go and warehouse.go.  A source has tables [schema, name,     *)
(* view, columns] in the order of their names.                             *)
(***************************************************************************)
ListTables(c) == SelectSeq(c.tables, LAMBDA t : (c.include = {} \/ t.schema \in c.include) /\ t.schema \notin c.exclude)
ListColumns(t) == t.columns

TableQN(c, schema, name) == <<Scheme[c.connector], c.name, schema, name>>

\* The database; then each table, after its schema if that is new, and before its columns.
CrawlStructure(c) ==
    LET tables == ListTables(c)
        Root == <<Scheme[c.connector], c.name>>
        OfSchema(i) == IF \E j \in 1 .. i - 1 : tables[j].schema = tables[i].schema THEN <<>>
                       ELSE <<Plainly(Root \o <<tables[i].schema>>, "schema")>>
        OfTable(t) == <<Plainly(TableQN(c, t.schema, t.name), IF t.view THEN "view" ELSE "table")>>
        OfColumns(t) == [n \in DOMAIN ListColumns(t) |-> Plainly(TableQN(c, t.schema, t.name) \o <<ListColumns(t)[n]>>, "column")]
    IN  <<Plainly(Root, "database")>>
        \o Seqs!FlattenSeq([i \in DOMAIN tables |-> OfSchema(i) \o OfTable(tables[i]) \o OfColumns(tables[i])])

\* Foreign keys of every schema, the ones left out as well.
EmitFKEdges(c) == [i \in DOMAIN c.keys |-> EdgeOf("depends_on", <<Scheme.relational, c.name>> \o c.keys[i].from,
                                                                <<Scheme.relational, c.name>> \o c.keys[i].to)]

RelationalCrawl(c) == CrawlStructure(c) \o (IF c.lineage THEN EmitFKEdges(c) ELSE <<>>)

\* A name as a query has it: a table, with its schema, with its database.
NormalizeQN(c, raw) ==
    CASE Len(raw) = 1 -> TableQN(c, Public, raw[1])
      [] Len(raw) = 2 -> TableQN(c, raw[1], raw[2])
      [] OTHER        -> <<Scheme.warehouse>> \o SubSeq(raw, Len(raw) - 2, Len(raw))

\* One edge for every source of every statement.
Extract(stmts) ==
    Seqs!FlattenSeq([i \in DOMAIN stmts |-> [j \in DOMAIN stmts[i].sources |-> [from |-> stmts[i].sources[j], to |-> stmts[i].target]]])

HarvestQueryHistory(c) ==
    LET proposals == Extract(c.history)
    IN  [i \in DOMAIN proposals |-> EdgeOf("lineage", NormalizeQN(c, proposals[i].from), NormalizeQN(c, proposals[i].to))]

\* Everything with statistics is a table.
HarvestStats(c) == [i \in DOMAIN c.stats |-> Plainly(NormalizeQN(c, c.stats[i]), "table")]

WarehouseCrawl(c) == CrawlStructure(c) \o HarvestQueryHistory(c) \o HarvestStats(c)

(***************************************************************************)
(* transform.go: a manifest has nodes, id -> [name, test, desc, tags,      *)
(* upstream], in a map, whose order is another one each time.              *)
(***************************************************************************)
NodeQN(c, n) == <<Scheme.transform, c.name>> \o n.name
NodeToAsset(c, n) == AssetOf(NodeQN(c, n), IF n.test THEN "glossary_term" ELSE "table", n.desc, n.tags)

Kept(c, id) == id \in DOMAIN c.nodes /\ (c.tests \/ ~c.nodes[id].test)

NodeAssets(c, order) ==
    LET ids == SelectSeq(order, LAMBDA id : Kept(c, id))
    IN  [i \in DOMAIN ids |-> NodeToAsset(c, c.nodes[ids[i]])]

\* A reference to no node, or to a test that is left out, is no edge.
NodeEdges(c, order) ==
    LET ids == SelectSeq(order, LAMBDA id : Kept(c, id))
        Upstream(id) == SelectSeq(c.nodes[id].upstream, LAMBDA u : Kept(c, u))
    IN  Seqs!FlattenSeq([i \in DOMAIN ids |->
            [j \in DOMAIN Upstream(ids[i]) |->
                EdgeOf("lineage", NodeQN(c, c.nodes[Upstream(ids[i])[j]]), NodeQN(c, c.nodes[ids[i]]))]])

\* The nodes that ran, tests among them, once more.
ApplyRunResults(c) ==
    LET ids == SelectSeq(c.results, LAMBDA id : id \in DOMAIN c.nodes)
    IN  [i \in DOMAIN ids |-> NodeToAsset(c, c.nodes[ids[i]])]

TransformCrawls(c) ==
    {NodeAssets(c, first) \o NodeEdges(c, second) \o ApplyRunResults(c) :
        first \in Seqs!SetToSeqs(DOMAIN c.nodes), second \in Seqs!SetToSeqs(DOMAIN c.nodes)}

\* What a crawl emits, if nothing fails.  (A manifest without nodes is an error.)
Emissions ==
    [c \in Configs |->
        CASE c.connector = "relational" -> {RelationalCrawl(c)}
          [] c.connector = "warehouse"  -> {WarehouseCrawl(c)}
          [] c.connector = "transform"  -> IF DOMAIN c.nodes = {} THEN {} ELSE TransformCrawls(c)]

(***************************************************************************)
(* The sink.  todo: what the crawl has yet to emit; assets and edges: the  *)
(* buffers; the counts are those of SinkStats.                             *)
(***************************************************************************)
NoCrawl == [at |-> "none", tenant |-> 0, all |-> <<>>]
Running(k) == crawls[k].at \notin {"none", "succeeded", "failed"}

\* A connector that lacks a key of its configuration, or its manifest's nodes, fails at once.
NewRun(k) ==
    /\ crawls[k] = NoCrawl
    /\ \E c \in Configs :
           LET run == [at |-> "emit", tenant |-> c.tenant, all |-> <<>>, todo |-> <<>>, assets |-> <<>>, edges |-> <<>>, found |-> 0, source |-> 0,
                       stored |-> 0, linked |-> 0, unresolved |-> 0, quiet |-> started = 0 /\ \A j \in Crawls : crawls[j] = NoCrawl]
           IN  IF ~c.configured \/ Emissions[c] = {} THEN crawls' = [crawls EXCEPT ![k] = [run EXCEPT !.at = "failed"]]
               ELSE \E all \in Emissions[c] : crawls' = [crawls EXCEPT ![k] = [run EXCEPT !.all = all, !.todo = all]]
    /\ UNCHANGED <<db, faults>>

Moves(k, run) == crawls' = [crawls EXCEPT ![k] = run]
Failed(run) == [run EXCEPT !.at = "failed"]

\* The crawl emits until a buffer is full, or to its end; nobody else sees that.
Emit(k) ==
    LET run == crawls[k]
        Buffered(n, op) == SelectSeq(SubSeq(run.todo, 1, n), LAMBDA e : e.op = op)
        Full(n) == SinkBatch \in {Len(Buffered(n, "asset")), Len(Buffered(n, "edge"))}
        n == CHOOSE i \in 0 .. Len(run.todo) : (Full(i) \/ i = Len(run.todo)) /\ \A j \in 0 .. i - 1 : ~Full(j)
    IN  /\ run.at = "emit"
        /\ Moves(k, [run EXCEPT !.at = "flush", !.assets = Buffered(n, "asset"), !.edges = Buffered(n, "edge"),
                                !.todo = SubSeq(@, n + 1, Len(@))])
        /\ UNCHANGED <<db, faults>>

\* upsertAssetOnce: the asset is created; or else looked up by its name, and written over.
AssetRow(k, id) == [id |-> id, tenant |-> crawls[k].tenant, trust |-> "", owners |-> {}, qn |-> crawls[k].assets[1].qn,
                    type |-> crawls[k].assets[1].type, desc |-> crawls[k].assets[1].desc, tags |-> crawls[k].assets[1].tags]
Stored(run) == [run EXCEPT !.at = "flush", !.assets = Tail(@), !.stored = @ + 1]

CreateOnce(k) ==
    LET run == crawls[k]
        answer == SCreateAsset(db, AssetRow(k, 1000 * k + run.stored))
    IN  /\ run.at = "flush" /\ run.assets # <<>>
        /\ db' = answer.db
        /\ Moves(k, CASE answer.err = "ok" -> Stored(run)
                      [] answer.err = "conflict" -> [run EXCEPT !.at = "lookup"]
                      [] OTHER -> Failed(run))
        /\ UNCHANGED faults

LookupOnce(k) ==
    LET run == crawls[k]
        existing == SGetByQN(db, run.tenant, run.assets[1].qn)
    IN  /\ run.at = "lookup"
        /\ IF existing = {} THEN Moves(k, Failed(run))
           ELSE \E a \in existing : Moves(k, [run EXCEPT !.at = "update", !.found = a.id])
        /\ UNCHANGED <<db, faults>>

\* The whole row: its description, tags and owners too.
UpdateOnce(k) ==
    LET run == crawls[k]
        answer == SUpdateAsset(db, AssetRow(k, run.found))
    IN  /\ run.at = "update"
        /\ db' = answer.db
        /\ Moves(k, IF answer.err = "ok" THEN Stored(run) ELSE Failed(run))
        /\ UNCHANGED faults

\* resolveEdgeByQN, when all assets of the batch are stored: first the source,
\* then the target.  An edge with an end that nobody has is dropped.
ResolveEdge(k, at, next, field, end) ==
    LET run == crawls[k]
        found == SGetByQN(db, run.tenant, run.edges[1][end])
    IN  /\ run.at = at /\ run.assets = <<>> /\ run.edges # <<>>
        /\ IF found = {} THEN Moves(k, [run EXCEPT !.at = "flush", !.edges = Tail(@), !.unresolved = @ + 1])
           ELSE \E a \in found : Moves(k, [run EXCEPT !.at = next, ![field] = a.id])
        /\ UNCHANGED <<db, faults>>

\* CreateEdge of either store; the one in memory takes an edge twice.
MemCreateEdge(d, e) ==
    IF ~({e.from, e.to} \subseteq {a.id : a \in Rows(d.assets, LAMBDA x : x.tenant = e.tenant)}) THEN Fails("not_found", d)
    ELSE Ok([d EXCEPT !.edges = Append(@, e)])
SCreateEdge(d, e) == IF store = "memory" THEN MemCreateEdge(d, e) ELSE CreateEdge(d, e)

\* An edge that is there already counts as well.
LinkEdge(k) ==
    LET run == crawls[k]
        answer == SCreateEdge(db, [id |-> 1000 * k + run.linked, tenant |-> run.tenant, kind |-> run.edges[1].kind,
                                   from |-> run.source, to |-> run.found])
    IN  /\ run.at = "link"
        /\ db' = answer.db
        /\ Moves(k, IF answer.err \in {"ok", "conflict"} THEN [run EXCEPT !.at = "flush", !.edges = Tail(@), !.linked = @ + 1]
                    ELSE Failed(run))
        /\ UNCHANGED faults

FlushDone(k) ==
    /\ crawls[k].at = "flush" /\ crawls[k].assets = <<>> /\ crawls[k].edges = <<>>
    /\ Moves(k, [crawls[k] EXCEPT !.at = IF crawls[k].todo = <<>> THEN "succeeded" ELSE "emit"])
    /\ UNCHANGED <<db, faults>>

\* The source or the store answers with an error, and the crawl ends.
CrawlFails(k) ==
    /\ Running(k)
    /\ faults < MaxFaults
    /\ faults' = faults + 1
    /\ Moves(k, Failed(crawls[k]))
    /\ UNCHANGED db

InitConnectors ==
    /\ crawls = [k \in Crawls |-> NoCrawl]
    /\ lost = [k \in Crawls |-> {}]

CrawlStep(k) ==
    /\ \/ NewRun(k) \/ Emit(k) \/ CreateOnce(k) \/ LookupOnce(k) \/ UpdateOnce(k)
       \/ ResolveEdge(k, "flush", "target", "source", "from") \/ ResolveEdge(k, "target", "link", "found", "to")
       \/ LinkEdge(k) \/ FlushDone(k) \/ CrawlFails(k)
    /\ UNCHANGED <<req, started>>

NamesOf(run) == {e.qn : e \in {x \in Range1(run.all) : x.op = "asset"}}
Named(d, run, qn) == SGetByQN(d, run.tenant, qn)

\* While crawls run, people rename, replace and delete assets.
ConnectorsNext ==
    /\ \/ \E k \in Crawls : CrawlStep(k)
       \/ /\ started < MaxEdits
          /\ \E r \in Requests, p \in People : UpdateAssetRequest(r, p) \/ DeleteAssetRequest(r, p)
          /\ UNCHANGED crawls
    /\ lost' = IF db' = db THEN lost
               ELSE [k \in Crawls |-> lost[k] \cup
                        {qn \in NamesOf(crawls'[k]) : Named(db', crawls'[k], qn) = {} /\ Named(db, crawls'[k], qn) # {}}]
    /\ UNCHANGED catvars

(***************************************************************************)
(* Properties                                                              *)
(***************************************************************************)
\* A crawl that succeeded has counted every asset and every edge it emitted;
\* every name it emitted has an asset, and every edge that came after both of
\* its ends is there, whatever was in which batch, whatever other crawls wrote
\* and whatever people renamed, unless they took the name away.
SinkFaithful ==
    \A k \in Crawls : crawls[k].at = "succeeded" =>
        LET run == crawls[k]
            Emitted(op) == {i \in DOMAIN run.all : run.all[i].op = op}
            Before1(qn, j) == \E i \in Emitted("asset") : i < j /\ run.all[i].qn = qn
            IdOfName(qn) == (CHOOSE a \in Named(db, run, qn) : TRUE).id
        IN  /\ run.stored = Cardinality(Emitted("asset"))
            /\ run.linked + run.unresolved = Cardinality(Emitted("edge"))
            /\ \A i \in Emitted("asset") : run.all[i].qn \in lost[k] \/ Named(db, run, run.all[i].qn) # {}
            /\ \A j \in Emitted("edge") :
                   LET e == run.all[j] IN
                   Before1(e.from, j) /\ Before1(e.to, j) /\ lost[k] \cap {e.from, e.to} = {} =>
                       \E x \in SNeighbors(db, run.tenant, IdOfName(e.from), TRUE, e.kind) : x.to = IdOfName(e.to)

\* What a crawl that nothing disturbed leaves under a name is what it emitted
\* last for that name: later passes replace the rows of earlier ones.
LastEmissionStands ==
    \A k \in Crawls : crawls[k].at = "succeeded" /\ crawls[k].quiet /\ started = 0 /\ (\A j \in Crawls \ {k} : crawls[j] = NoCrawl) =>
        \A i \in DOMAIN crawls[k].all :
            LET e == crawls[k].all[i] IN
            e.op = "asset" /\ (\A j \in DOMAIN crawls[k].all : j > i /\ crawls[k].all[j].op = "asset" => crawls[k].all[j].qn # e.qn) =>
                \A a \in Named(db, crawls[k], e.qn) : a.type = e.type /\ a.desc = e.desc /\ a.tags = e.tags
=============================================================================
