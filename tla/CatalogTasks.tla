---------------------------- MODULE CatalogTasks ----------------------------
(***************************************************************************)
(* What the workers do to the catalog: crawls (worker.HandleCrawl-         *)
(* Connection, core/crawler), classifications (core/classifier) and        *)
(* indexing for search (core/search), asked for over HTTP, queued, and     *)
(* executed while people edit the same assets.  A worker may die with a    *)
(* task, which is then delivered again if it has retries left.             *)
(***************************************************************************)
EXTENDS Catalog

LOCAL Seqs == INSTANCE SequencesExt

CONSTANTS
    Workers,    \* goroutines of the workers
    Crawlers,   \* the types of SourceRegistry
    Samplers,   \* the types MultiSampler has a sampler for
    Tree,       \* what a source holds: its nodes in the order of the walk, [path, kind, desc, name]
    Sensitive,  \* name of a column -> the tags its name suggests
    Samples,    \* name of a column -> the values sampled in it, sets of the detectors they match
    Decisions,  \* what a reviewer may decide: a column's id, or 0, and tags
    IndexPage   \* the page size of IndexAll

VARIABLES
    tasks,    \* the queue: [kind, tenant, conn, job, tries]
    work,     \* worker -> [at, task, ...]
    edits,    \* assets whose tags a full replace, or a write that had read the asset before, took away
    unmerged, \* pairs of an asset and a tag that could not be merged into its tags, or that a
              \* worker died with before it merged them
    crawled   \* finished crawls: the ids of their nodes, and those of them deleted since they began

tvars == <<tasks, work, edits, unmerged, crawled>>

Resting == [at |-> "idle"]
Busy(w, call) == work[w].at = call
Do(w, state) == work' = [work EXCEPT ![w] = state]

\* asynq.MaxRetry of the Enqueue methods.
Retries(kind) == CASE kind = "crawl" -> 2 [] kind = "classify" -> 0 [] kind = "reindex" -> 1

Task(kind, tenant, conn, job) == [kind |-> kind, tenant |-> tenant, conn |-> conn, job |-> job, tries |-> 0]

\* The task of w is delivered again, or has been tried too often.
Again(w) ==
    LET task == work[w].task
    IN  tasks' = IF task.tries < Retries(task.kind) THEN tasks \cup {[task EXCEPT !.tries = @ + 1]} ELSE tasks

GiveUp(w) == Again(w) /\ Do(w, Resting)

TakeTask(w) ==
    /\ work[w] = Resting
    /\ \E task \in tasks : tasks' = tasks \ {task} /\ Do(w, [at |-> task.kind, task |-> task])
    /\ UNCHANGED <<db, req, started, faults, edits, unmerged, crawled>>

\* Of what is to be merged into the tags of an asset.
Pairs(merge) == UNION {{<<m.asset, tag>> : tag \in m.tags} : m \in merge}

WorkerDies(w) ==
    /\ work[w] # Resting
    /\ faults < MaxFaults /\ faults' = faults + 1
    /\ GiveUp(w)
    /\ unmerged' = unmerged \cup IF Busy(w, "merge") THEN Pairs(work[w].merge) ELSE {}
    /\ UNCHANGED <<db, req, started, edits, crawled>>

(***************************************************************************)
(* Requests that queue                                                     *)
(***************************************************************************)
CrawlConnectionRequest(r, p) ==
    /\ Admitted(r, p, "admin", "connection")
    /\ \E id \in ConnIds :
           tasks' = IF GetConnection(db, p.tenant, id) = {} THEN tasks ELSE tasks \cup {Task("crawl", p.tenant, id, 0)}
    /\ Answer(r)
    /\ UNCHANGED <<db, work, edits, unmerged, crawled>>

\* A job, then its task.
ClassifyConnectionRequest(r, p) ==
    /\ Admitted(r, p, "admin", "connection")
    /\ \E id \in ConnIds :
           LET j == [id |-> 100 + started', tenant |-> p.tenant, type |-> "classify", resource |-> id]
           IN  Then(r, CreateJob(db, j), [at |-> "queue", task |-> Task("classify", p.tenant, id, j.id)])
    /\ UNCHANGED tvars

ReindexRequest(r, p) ==
    /\ Admitted(r, p, "admin", "asset")
    /\ LET j == [id |-> 100 + started', tenant |-> p.tenant, type |-> "reindex", resource |-> 0]
       IN  Then(r, CreateJob(db, j), [at |-> "queue", task |-> Task("reindex", p.tenant, 0, j.id)])
    /\ UNCHANGED tvars

Enqueue(r) ==
    /\ Continue(r, "queue")
    /\ tasks' = tasks \cup {req[r].task}
    /\ Answer(r)
    /\ UNCHANGED <<db, work, edits, unmerged, crawled>>

EnqueueFails(r) ==
    /\ At(r, "queue")
    /\ faults < MaxFaults /\ faults' = faults + 1
    /\ db' = Fail(db, req[r].task.job).db
    /\ Answer(r)
    /\ UNCHANGED <<started, tvars>>

(***************************************************************************)
(* A crawl                                                                 *)
(***************************************************************************)
\* The connection, its crawler and its secret; then the source itself.
HandleCrawlConnection(w) ==
    LET task == work[w].task
        found == GetConnection(db, task.tenant, task.conn)
        Ready(c) == c.type \in Crawlers /\ (c.urn = NoURN \/ GetSealed(db, c.tenant, c.urn) # {})
    IN  /\ Busy(w, "crawl")
        /\ IF \E c \in found : Ready(c)
           THEN \E c \in found : Do(w, [at |-> "source", task |-> task, conn |-> c]) /\ UNCHANGED tasks
           ELSE GiveUp(w)
        /\ UNCHANGED <<db, req, started, faults, edits, unmerged, crawled>>

\* Of a node, only what the crawler writes.
NodeAsset(conn, node) ==
    [qn |-> <<conn.name>> \o node.path, type |-> node.kind, desc |-> node.desc, trust |-> "", owners |-> {},
     tags |-> IF node.kind = "column" /\ node.name \in DOMAIN Sensitive THEN Sensitive[node.name] ELSE {}]

Crawled(w, conn) == [at |-> "node", task |-> work[w].task, conn |-> conn, ids |-> <<>>, gone |-> {}, created |-> FALSE]

CrawlSource(w) ==
    LET c == work[w].conn
    IN  /\ Busy(w, "source")
        /\ \/ Do(w, Crawled(w, c)) /\ UNCHANGED <<db, tasks>>
           \/ /\ db' = UpdateHealth(db, c.tenant, c.id, "unreachable").db
              /\ GiveUp(w)
        /\ UNCHANGED <<req, started, faults, edits, unmerged, crawled>>

Parent(node) == IF Len(node.path) = 1 THEN <<>> ELSE SubSeq(node.path, 1, Len(node.path) - 1)
IdOf(ids, path) == ids[CHOOSE i \in DOMAIN ids : Tree[i].path = path]

\* upsertAsset reads the asset of the next node ...
ReadNode(w) ==
    LET s == work[w]
        a == NodeAsset(s.conn, Tree[Len(s.ids) + 1])
    IN  /\ Busy(w, "node") /\ Len(s.ids) < Len(Tree)
        /\ Do(w, [s EXCEPT !.at = "upsert"] @@ [asset |-> a, existing |-> GetAssetByQualifiedName(db, s.conn.tenant, a.qn)])
        /\ UNCHANGED <<db, req, started, faults, tasks, edits, unmerged, crawled>>

PickNonEmpty(a, b) == IF a # 0 THEN a ELSE b
UnionTags(a, b) == a \cup b

\* ... and what is there keeps its owners, its trust and its type ...
Merged(old, new) == [old EXCEPT !.desc = PickNonEmpty(new.desc, old.desc), !.tags = UnionTags(old.tags, new.tags)]

\* An id nothing has had.
Known == AssetIds \cup UNION {Range1(c.ids) : c \in crawled} \cup UNION {Range1(work[w].ids) : w \in {x \in Workers : "ids" \in DOMAIN work[x]}}
FreshId == CHOOSE n \in 1000 .. 1000 + Cardinality(Known) : n \notin Known

UpsertAsset(w) ==
    LET s == work[w]
    IN  IF s.existing = {} THEN CreateAsset(db, [id |-> FreshId, tenant |-> s.conn.tenant] @@ s.asset)
        ELSE UpdateAsset(db, Merged(CHOOSE a \in s.existing : TRUE, s.asset))

\* ... and then writes it.
WriteNode(w) ==
    LET s == work[w]
        answer == UpsertAsset(w)
        ids == {a.id : a \in GetAssetByQualifiedName(answer.db, s.conn.tenant, s.asset.qn)}
        id == IF s.existing = {} THEN CHOOSE i \in ids : TRUE ELSE (CHOOSE a \in s.existing : TRUE).id
    IN  /\ Busy(w, "upsert")
        /\ db' = answer.db
        /\ edits' = edits \cup {a.id : a \in {x \in s.existing : ~(TagsOf(db, x.tenant, x.id) \subseteq {x.tags})}}
        /\ IF answer.err = "ok"
           THEN Do(w, [at |-> IF Len(s.asset.qn) > 2 THEN "edge" ELSE "node", task |-> s.task, conn |-> s.conn,
                       ids |-> Append(s.ids, id), gone |-> s.gone, created |-> s.existing = {}]) /\ UNCHANGED tasks
           ELSE GiveUp(w)
        /\ UNCHANGED <<req, started, faults, unmerged, crawled>>

\* upsertEdge: an edge that is there is fine.
UpsertEdge(w) ==
    LET s == work[w]
        id == s.ids[Len(s.ids)]
        e == [id |-> id, tenant |-> s.conn.tenant, kind |-> "defines",
              from |-> IdOf(s.ids, Parent(Tree[Len(s.ids)])), to |-> id]
        answer == CreateEdge(db, e)
    IN  /\ Busy(w, "edge")
        /\ db' = answer.db
        /\ IF answer.err \in {"ok", "conflict"} THEN Do(w, [s EXCEPT !.at = "node"]) /\ UNCHANGED tasks ELSE GiveUp(w)
        /\ UNCHANGED <<req, started, faults, edits, unmerged, crawled>>

CrawlEnds(w) ==
    LET s == work[w]
    IN  /\ Busy(w, "node") /\ Len(s.ids) = Len(Tree)
        /\ db' = UpdateHealth(db, s.conn.tenant, s.conn.id, "healthy").db
        /\ crawled' = crawled \cup {[ids |-> s.ids, gone |-> s.gone]}
        /\ Do(w, Resting)
        /\ UNCHANGED <<req, started, faults, tasks, edits, unmerged>>

(***************************************************************************)
(* A classification                                                        *)
(***************************************************************************)
\* A detector kind is [kind, umbrella, threshold in tenths]; values are the
\* sets of kinds they match.
Detectors == {[kind |-> "email", umbrella |-> "pii", threshold |-> 8], [kind |-> "uuid", umbrella |-> "uuid", threshold |-> 9]}

ClassifySamplesWith(values) ==
    LET Hits(det) == Cardinality({i \in DOMAIN values : det.kind \in values[i]})
    IN  UNION {{det.kind, det.umbrella} : det \in {d \in Detectors : Hits(d) > 0 /\ 10 * Hits(d) >= d.threshold * Len(values)}}

\* Nothing of a connection that is gone or has no sampler.
SamplerFor(d, t, conn) == \E c \in GetConnection(d, t, conn) : c.type \in Samplers

SampleTable(d, t, conn, table) ==
    IF ~SamplerFor(d, t, conn) THEN {}
    ELSE {[asset |-> a.id, tags |-> ClassifySamplesWith(Samples[a.qn[Len(a.qn)]])] :
              a \in {x \in ColumnsForTable(d, t, table) : x.qn[Len(x.qn)] \in DOMAIN Samples}}

SampleTables(d, t, conn, tables) == UNION {SampleTable(d, t, conn, x.id) : x \in tables}

\* PreviewConnection writes nothing; its result is what ClassifyConnection
\* would write, or less.
PreviewConnection(d, t, conn) == SampleTables(d, t, conn, TablesForConnection(d, t, conn))

HandleClassifyConnection(w) ==
    LET task == work[w].task
    IN  /\ Busy(w, "classify")
        /\ db' = Progress(StartJob(db, task.job).db, task.job, 5).db
        /\ Do(w, [at |-> "sample", task |-> task])
        /\ UNCHANGED <<req, started, faults, tasks, edits, unmerged, crawled>>

\* Nothing of a set fails, or one of it.
OneMayFail(set) == {{}} \cup {{x} : x \in set}
MayFail(failed) == IF failed = {} THEN UNCHANGED faults ELSE faults < MaxFaults /\ faults' = faults + 1

\* Tables and columns are read, and sampled, one table after the other; a
\* table that fails is skipped.  What is to be applied is what the reads found.
ClassifyConnection(w) ==
    LET task == work[w].task
        tables == TablesForConnection(db, task.tenant, task.conn)
    IN  /\ Busy(w, "sample")
        /\ \E skipped \in OneMayFail(tables) :
               /\ MayFail(skipped)
               /\ Do(w, [at |-> "apply", task |-> task,
                         todo |-> {c \in SampleTables(db, task.tenant, task.conn, tables \ skipped) : c.tags # {}}])
        /\ UNCHANGED <<db, req, started, tasks, edits, unmerged, crawled>>

\* The tables could not be listed.
ClassifyFails(w) ==
    /\ Busy(w, "sample")
    /\ faults < MaxFaults /\ faults' = faults + 1
    /\ db' = Fail(db, work[w].task.job).db
    /\ GiveUp(w)
    /\ UNCHANGED <<req, started, edits, unmerged, crawled>>

\* One of several, in their order.
First(todo) == CHOOSE c \in todo : \A d \in todo : c.asset <= d.asset

\* Apply, for each tag: a failure is logged, and its tag merged all the same.
ApplyAll(d, t, c, failed) ==
    IF Where(d.assets, LAMBDA x : x.id = c.asset) = {} THEN d
    ELSE LET new == {tag \in c.tags \ failed : Apply(d, t, c.asset, tag).db # d}
         IN  [d EXCEPT !.classifications = @ \o Seqs!SetToSeq({[tenant |-> t, asset |-> c.asset, tag |-> tag] : tag \in new})]

\* MergeAssetTags reads the tags; an asset that is not there is an error, and
\* logged.
Merging(d, t, c) == {[asset |-> c.asset, tags |-> c.tags, prev |-> prev] : prev \in TagsOf(d, t, c.asset)}

MergeReplaces(prev, tags) == tags  \* mutant: the tags from before are lost
MergedTags(prev, tags) == prev \cup tags

ApplyColumn(w) ==
    LET s == work[w]
        c == First(s.todo)
    IN  /\ Busy(w, "apply") /\ s.todo # {}
        /\ \E failed \in OneMayFail(c.tags) : MayFail(failed) /\ db' = ApplyAll(db, s.task.tenant, c, failed)
        /\ Do(w, [at |-> "merge", task |-> s.task, todo |-> s.todo \ {c}, merge |-> Merging(db, s.task.tenant, c)])
        /\ UNCHANGED <<req, started, tasks, edits, unmerged, crawled>>

\* The UPDATE of MergeAssetTags for a column whose tags were prev.
WriteTags(t, merge) ==
    /\ db' = IF merge = {} THEN db
             ELSE LET m == CHOOSE x \in merge : TRUE IN SetTags(db, t, m.asset, MergedTags(m.prev, m.tags)).db
    /\ edits' = edits \cup {m.asset : m \in {x \in merge : ~(TagsOf(db, t, x.asset) \subseteq {x.prev})}}

MergeAssetTags(w) ==
    LET s == work[w]
    IN  /\ Busy(w, "merge")
        /\ WriteTags(s.task.tenant, s.merge)
        /\ Do(w, [at |-> "apply", task |-> s.task, todo |-> s.todo])
        /\ UNCHANGED <<req, started, faults, tasks, unmerged, crawled>>

\* A failure is logged, and the job goes on and succeeds.
MergeFails(w) ==
    LET s == work[w]
    IN  /\ Busy(w, "merge")
        /\ faults < MaxFaults /\ faults' = faults + 1
        /\ unmerged' = unmerged \cup Pairs(s.merge)
        /\ Do(w, [at |-> "apply", task |-> s.task, todo |-> s.todo])
        /\ UNCHANGED <<db, req, started, tasks, edits, crawled>>

ClassifyEnds(w) ==
    /\ Busy(w, "apply") /\ work[w].todo = {}
    /\ db' = Succeed(db, work[w].task.job).db
    /\ Do(w, Resting)
    /\ UNCHANGED <<req, started, faults, tasks, edits, unmerged, crawled>>

\* The same by hand: what a reviewer accepted of a preview, one decision.
ClassifyApplyRequest(r, p) ==
    /\ Admitted(r, p, "certify", "classification")
    /\ \E d \in Decisions :
           IF d.asset = 0 \/ d.tags = {} THEN Answer(r)
           ELSE Goto(r, [at |-> "decided", tenant |-> p.tenant, decision |-> d])
    /\ UNCHANGED <<db, tvars>>

ApplyDecision(r) ==
    LET w == req[r]
    IN  /\ At(r, "decided")
        /\ \E failed \in OneMayFail(w.decision.tags) : MayFail(failed) /\ db' = ApplyAll(db, w.tenant, w.decision, failed)
        /\ Goto(r, [at |-> "tags", tenant |-> w.tenant, merge |-> Merging(db, w.tenant, w.decision)])
        /\ UNCHANGED <<started, tvars>>

MergeDecision(r) ==
    /\ Continue(r, "tags")
    /\ WriteTags(req[r].tenant, req[r].merge)
    /\ Answer(r)
    /\ UNCHANGED <<tasks, work, unmerged, crawled>>

MergeDecisionFails(r) ==
    /\ At(r, "tags")
    /\ faults < MaxFaults /\ faults' = faults + 1
    /\ unmerged' = unmerged \cup Pairs(req[r].merge)
    /\ Answer(r)
    /\ UNCHANGED <<db, started, tasks, work, edits, crawled>>

(***************************************************************************)
(* Indexing and search                                                     *)
(***************************************************************************)
TextForAsset(a) == [qn |-> a.qn, type |-> a.type, desc |-> a.desc, tags |-> a.tags, owners |-> a.owners]

HandleSearchReindex(w) ==
    LET task == work[w].task
    IN  /\ Busy(w, "reindex")
        /\ db' = Progress(StartJob(db, task.job).db, task.job, 5).db
        /\ Do(w, [at |-> "page", task |-> task, token |-> 0])
        /\ UNCHANGED <<req, started, faults, tasks, edits, unmerged, crawled>>

\* A page is listed and embedded, and its vectors are stored, until one
\* cannot be: its asset is gone.
IndexPageRead(w) ==
    LET s == work[w]
        page == ListAssets(db, s.task.tenant, "", IndexPage, s.token)
    IN  /\ Busy(w, "page")
        /\ Do(w, [at |-> "embed", task |-> s.task, assets |-> page.assets, token |-> page.next])
        /\ UNCHANGED <<db, req, started, faults, tasks, edits, unmerged, crawled>>

IndexFails(w) == db' = Fail(db, work[w].task.job).db /\ GiveUp(w)

IndexAll(w) ==
    LET s == work[w]
        a == Head(s.assets)
        answer == UpsertEmbedding(db, s.task.tenant, a.id, TextForAsset(a))
    IN  /\ Busy(w, "embed")
        /\ IF s.assets # <<>>
           THEN IF answer.err = "ok" THEN db' = answer.db /\ Do(w, [s EXCEPT !.assets = Tail(@)]) /\ UNCHANGED tasks ELSE IndexFails(w)
           ELSE /\ UNCHANGED tasks
                /\ IF s.token # 0 THEN UNCHANGED db /\ Do(w, [at |-> "page", task |-> s.task, token |-> s.token])
                   ELSE db' = Succeed(db, s.task.job).db /\ Do(w, Resting)
        /\ UNCHANGED <<req, started, faults, edits, unmerged, crawled>>

\* The provider fails.
EmbedFails(w) ==
    /\ Busy(w, "embed")
    /\ faults < MaxFaults /\ faults' = faults + 1
    /\ IndexFails(w)
    /\ UNCHANGED <<req, started, edits, unmerged, crawled>>

\* policyFilter: what the engine says about the asset as it is now.
SeesEverything(p, a, rules) == TRUE  \* mutant: no filter
PolicyFilter(p, a, rules) ==
    Allow(p, "read", [type |-> "asset", id |-> a.id, tenant |-> a.tenant, tags |-> a.tags, owners |-> a.owners], rules)

\* The k best of three times as many, whatever their text was when it was
\* embedded: every text is as near to the query.
SemanticSearchRequest(p, rules, k) ==
    IF ~CanRead(p) THEN {}
    ELSE {a \in UNION {GetAsset(db, p.tenant, e.asset) : e \in ListEmbeddings(db, p.tenant)} : PolicyFilter(p, a, rules)}

(***************************************************************************)
(* What p is shown                                                         *)
(***************************************************************************)
GetJobRequest(p) == IF Gate(p, "read", "job") THEN UNION {GetJob(db, p.tenant, db.jobs[i].id) : i \in DOMAIN db.jobs} ELSE {}
ListJobsRequest(p) == IF Gate(p, "read", "job") THEN ListJobs(db, p.tenant, PageLimit(0, 200, 50)) ELSE {}
ClassifyScopeRequest(p) ==
    IF Gate(p, "read", "connection") THEN UNION {TablesForConnection(db, p.tenant, id) : id \in ConnIds} ELSE {}
ClassifyPreviewRequest(p) ==
    IF Gate(p, "admin", "connection")
    THEN UNION {GetAsset(db, p.tenant, c.asset) : c \in UNION {PreviewConnection(db, p.tenant, id) : id \in ConnIds}} ELSE {}
AssetClassificationsRequest(p) == IF CanRead(p) THEN UNION {ListByAsset(db, p.tenant, id) : id \in AssetIds} ELSE {}

InitTasks == tasks = {} /\ work = [w \in Workers |-> Resting] /\ edits = {} /\ unmerged = {} /\ crawled = {}

WorkerNext(w) ==
    \/ TakeTask(w) \/ WorkerDies(w)
    \/ HandleCrawlConnection(w) \/ CrawlSource(w) \/ ReadNode(w) \/ WriteNode(w) \/ UpsertEdge(w) \/ CrawlEnds(w)
    \/ HandleClassifyConnection(w) \/ ClassifyConnection(w) \/ ClassifyFails(w) \/ ApplyColumn(w) \/ MergeAssetTags(w) \/ MergeFails(w)
    \/ ClassifyEnds(w)
    \/ HandleSearchReindex(w) \/ IndexPageRead(w) \/ IndexAll(w) \/ EmbedFails(w)

\* Requests that delete or replace assets meanwhile.
Deleted == AssetIds \ {db'.assets[i].id : i \in DOMAIN db'.assets}
Retagged ==
    {db.assets[i].id : i \in {k \in DOMAIN db.assets : \E j \in DOMAIN db'.assets : /\ db'.assets[j].id = db.assets[k].id
                                                                                 /\ ~(db.assets[k].tags \subseteq db'.assets[j].tags)}}

Meddle ==
    /\ \E r \in Requests :
           \/ SaveOwners(r)
           \/ \E p \in People : UpdateAssetRequest(r, p) \/ UpdateAssetOwnersRequest(r, p) \/ DeleteAssetRequest(r, p)
    /\ work' = [w \in Workers |-> IF "gone" \in DOMAIN work[w] THEN [work[w] EXCEPT !.gone = @ \cup Deleted] ELSE work[w]]
    /\ crawled' = {[c EXCEPT !.gone = @ \cup Deleted] : c \in crawled}
    /\ edits' = edits \cup Retagged
    /\ UNCHANGED <<tasks, unmerged>>

TasksNext ==
    \/ \E w \in Workers : WorkerNext(w)
    \/ \E r \in Requests :
           \/ Enqueue(r) \/ EnqueueFails(r) \/ ApplyDecision(r) \/ MergeDecision(r) \/ MergeDecisionFails(r)
           \/ \E p \in People : \/ CrawlConnectionRequest(r, p) \/ ClassifyConnectionRequest(r, p)
                                \/ ReindexRequest(r, p) \/ ClassifyApplyRequest(r, p)
    \/ Meddle

(***************************************************************************)
(* Properties                                                              *)
(***************************************************************************)
\* After a crawl that ended well, and whatever it overlapped, other crawls
\* of the source, a worker that died, a retry or an edit, every node of the
\* source that nobody deleted since has one asset, which its parent defines
\* through exactly one edge.
TreeProjected ==
    \A c \in crawled :
        \A i \in {j \in DOMAIN Tree : c.ids[j] \notin c.gone} :
            /\ Cardinality({k \in DOMAIN db.assets : db.assets[k].id = c.ids[i]}) = 1
            /\ Len(Tree[i].path) > 1 /\ IdOf(c.ids, Parent(Tree[i])) \notin c.gone =>
                   Cardinality({k \in DOMAIN db.edges : db.edges[k].from = IdOf(c.ids, Parent(Tree[i])) /\ db.edges[k].to = c.ids[i]}) = 1

\* A classification of an asset is also one of its tags, which the policies
\* go by, once the classifier has merged them; unless a request replaced the
\* tags, somebody who had read the asset earlier wrote it back, or the worker
\* died or the merge failed in between, after which the job succeeds all the
\* same.  (The asset of another tenant has only the former.)
ClassificationsShown ==
    \A i \in DOMAIN db.classifications :
        LET c == db.classifications[i]
            merging == {work[w].merge : w \in {x \in Workers : Busy(x, "merge")}}
                       \cup {req[r].merge : r \in {x \in Requests : At(x, "tags")}}
        IN  \/ c.asset \in edits \/ <<c.asset, c.tag>> \in unmerged \/ GetAsset(db, c.tenant, c.asset) = {}
            \/ \E a \in GetAsset(db, c.tenant, c.asset) : c.tag \in a.tags
            \/ \E m \in UNION merging : m.asset = c.asset /\ c.tag \in m.tags

\* "once status reaches succeeded/failed the result is final": a redelivered
\* task never takes a finished job back to one that is queued or runs.
JobsAdvance ==
    [][\A i \in DOMAIN db.jobs :
           LET old == db.jobs[i] IN
           old.status \in {"succeeded", "failed"} =>
               \E j \in DOMAIN db'.jobs : db'.jobs[j].id = old.id /\ db'.jobs[j].status \in {"succeeded", "failed"}]_<<db>>
=============================================================================
