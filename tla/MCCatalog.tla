----------------------------- MODULE MCCatalog -----------------------------
(* Assets, connections, tasks, the glossary, feedback, profiles, AI        *)
(* providers, vector stores, questions, pipelines and connectors: a        *)
(* behaviour is about one of them.  Tenant 1 makes requests; tenant 2 has a row in every      *)
(* table.                                                                  *)
EXTENDS Asker, PipelineApi, Connectors

CONSTANTS r1, r2, w1, w2, c1

CONSTANT Areas  \* what to check

VARIABLE area

RequestSymmetry == Permutations(Requests) \cup Permutations(Workers)

Person(id, roles) == [id |-> id, tenant |-> 1, roles |-> roles, groups |-> {}]
MCPeople == {Person(1, {"admin"}), Person(2, {"platform_admin"})}

Body(qn, type) == [qn |-> qn, type |-> type, desc |-> 0, trust |-> "", tags |-> {}, owners |-> {}]
MCAssetBodies == {Body(<<1, 2>>, "table"), Body(<<1, 12>>, "table"), Body(<<1, 4>>, "view"), Body(<<>>, "table")}
MCOwnerLists == {{1}}

Conn(id, t, name, type) == [id |-> id, tenant |-> t, name |-> name, type |-> type, urn |-> URN(t, id), health |-> "unknown"]
Node(path, kind) == [path |-> path, kind |-> kind, desc |-> 0, name |-> path[Len(path)]]
MCTree == <<Node(<<1>>, "schema"), Node(<<1, 2>>, "table"), Node(<<1, 2, 3>>, "column")>>
MCSensitive == 3 :> {"phone"}
MCSamples == 3 :> <<{"email"}, {"email", "uuid"}>> @@ 5 :> <<{}, {"uuid"}>>
MCDecisions == {[asset |-> 7, tags |-> {"secret"}], [asset |-> 4, tags |-> {"secret"}], [asset |-> 0, tags |-> {"secret"}]}

Asset(id, t, qn, type) == [id |-> id, tenant |-> t] @@ Body(qn, type)
Theirs(qn, type) == [Asset(4, 2, qn, type) EXCEPT !.tags = {"email"}]
\* The catalog a client walks through.
Plain == <<Asset(1, 1, <<1, 2>>, "table"), Asset(2, 1, <<1, 3>>, "view"), Asset(3, 1, <<1, 5>>, "table"), Theirs(<<1, 2>>, "table")>>
\* A table with columns, of which one was crawled.
Columns == <<Asset(5, 1, <<1, 1>>, "schema"), Asset(6, 1, <<1, 1, 2>>, "table"), Asset(7, 1, <<1, 1, 2, 3>>, "column"), Theirs(<<1, 1, 2, 3>>, "column")>>
Wide == Columns \o <<Asset(8, 1, <<1, 1, 2, 5>>, "column"), Asset(9, 1, <<1, 1, 2, 6>>, "column"),
                     Asset(10, 1, <<1, 1, 4>>, "table"), Asset(11, 1, <<1, 1, 4, 7>>, "column")>>
\* A table that was crawled before, and described since.
Described == <<[Asset(5, 1, <<7, 1, 5, 2>>, "table") EXCEPT !.tags = {"phone"}, !.desc = 1], Asset(6, 1, <<8, 1, 5, 2>>, "view"),
               Asset(7, 1, <<9, 1, 1>>, "table"), Theirs(<<7, 1, 5, 2>>, "table")>>
\* The same table and one of another connection, both indexed.
Searched == Columns \o <<Asset(8, 1, <<2, 1, 2>>, "table")>>
Embedding(a) == [tenant |-> a.tenant, asset |-> a.id, text |-> TextForAsset(a)]

Term(id, t, name, parent) == [id |-> id, tenant |-> t, name |-> name, def |-> 0, parent |-> parent, status |-> "draft", owner |-> 1]
TermBody(name, parent) == [name |-> name, def |-> 1, parent |-> parent, status |-> "", owner |-> 0]
MCTermBodies == {TermBody(0, 1), TermBody(2, 0), TermBody(4, 3)}

Item(id, t, by, votes) == [id |-> id, tenant |-> t, by |-> by, type |-> "bug", title |-> 1, priority |-> "low", status |-> "new", assignee |-> 0, votes |-> votes]
MCItems == {[type |-> "praise", title |-> 1, priority |-> "urgent"], [type |-> "rant", title |-> 1, priority |-> "low"]}
MCTriages == {[type |-> "", priority |-> "", status |-> "triaged", assignee |-> 2], [type |-> "", priority |-> "urgent", status |-> "", assignee |-> 0]}

MCDataTypes == 3 :> "text" @@ 5 :> "json" @@ 6 :> "int" @@ 7 :> "interval"
MCColumnEdges == {{[from |-> <<2, 3>>, to |-> <<2, 15>>, transform |-> "copy"], [from |-> <<2, 9>>, to |-> <<2, 5>>, transform |-> "copy"]}}

ConfigBody(kind, name, slot, key, primary) == [kind |-> kind, name |-> name, slot |-> slot, key |-> key, primary |-> primary]
MCProviderBodies == {ConfigBody("openai", 1, "chat", 0, FALSE), ConfigBody("openai", 1, "chat", 2, TRUE),
                     ConfigBody("ollama", 2, "embed", 0, FALSE), ConfigBody("none", 1, "chat", 1, FALSE)}
MCVectorBodies == {ConfigBody("pinecone", 1, "", 0, TRUE), ConfigBody("pinecone", 1, "", 2, FALSE), ConfigBody("pgvector", 2, "", 0, TRUE)}
Config(id, t, kind, slot, urn, primary) ==
    [id |-> id, tenant |-> t, kind |-> kind, name |-> 1, slot |-> slot, urn |-> urn, primary |-> primary, tested |-> TRUE]

MCSqls == {<<<<"select", "t2">>, <<>>>>, <<<<"select", "t2">>, <<"drop", "t2">>>>}

Pipe(id, name, cyclic, cron, enabled) == [id |-> id, name |-> name, cyclic |-> cyclic, cron |-> cron, enabled |-> enabled]
MCPipelineBodies == {Pipe(0, 2, FALSE, "hourly", TRUE), Pipe(1, 1, FALSE, "", FALSE), Pipe(2, 4, FALSE, "", FALSE), Pipe(0, 3, TRUE, "", FALSE), Pipe(0, 3, FALSE, "", TRUE)}
PipelineRun(id, t, status) == [id |-> id, tenant |-> t, pipeline |-> t, status |-> status]

SourceTable(schema, name, view, columns) == [schema |-> schema, name |-> name, view |-> view, columns |-> columns]
MCConfigs ==
    LET tables == <<SourceTable(1, 2, FALSE, <<>>), SourceTable(5, 2, TRUE, <<3>>)>>
        base == [tenant |-> 1, configured |-> TRUE, name |-> 1]
    IN  {base @@ [connector |-> "relational", tables |-> tables, include |-> {}, exclude |-> {1}, lineage |-> TRUE,
                  keys |-> <<[from |-> <<5, 2>>, to |-> <<5, 2>>], [from |-> <<5, 2>>, to |-> <<1, 2>>]>>],
         base @@ [connector |-> "warehouse", tables |-> tables, include |-> {5}, exclude |-> {},
                  history |-> <<[target |-> <<2>>, sources |-> <<<<5, 2>>, <<1, 4>>>>]>>, stats |-> <<<<1, 5, 2>>>>],
         base @@ [connector |-> "transform", tests |-> FALSE, results |-> <<3, 1, 9>>,
                  nodes |-> <<[name |-> <<1>>, test |-> FALSE, desc |-> 1, tags |-> {}, upstream |-> <<>>],
                              [name |-> <<2>>, test |-> FALSE, desc |-> 0, tags |-> {"email"}, upstream |-> <<1, 3, 9>>],
                              [name |-> <<3>>, test |-> TRUE, desc |-> 0, tags |-> {}, upstream |-> <<2>>]>>],
         [connector |-> "transform", tenant |-> 1, configured |-> FALSE, nodes |-> <<>>]}

Rule == [tenant |-> 1, type |-> "asset", resource |-> 0, effect |-> "deny", verbs |-> {"read"}, conds |-> {[type |-> "resource.tag", value |-> "phone"]}]

Keys == <<[urn |-> ProviderURN(1), tenant |-> 1, value |-> 1], [urn |-> ProviderURN(2), tenant |-> 1, value |-> 1],
          [urn |-> ProviderURN(3), tenant |-> 2, value |-> 1], [urn |-> VectorURN(1), tenant |-> 1, value |-> 1]>>

Seed(assets) ==
    [connections |-> <<Conn(1, 1, 1, "postgres"), Conn(2, 2, 1, "postgres")>> \o (IF area = "ask" THEN <<[Conn(3, 1, 2, "postgres") EXCEPT !.urn = NoURN]>> ELSE <<>>),
     assets |-> assets,
     edges |-> <<>>,
     byQN |-> {QnKey(a.tenant, a.qn) \o <<a.id>> : a \in Range1(assets)},
     classifications |-> <<[tenant |-> 2, asset |-> 4, tag |-> "email"]>>,
     embeddings |-> <<Embedding(assets[4])>> \o (IF area = "ask" THEN <<Embedding(assets[2]), Embedding(assets[5])>> ELSE <<>>),
     jobs |-> <<[id |-> 9, tenant |-> 2, type |-> "reindex", status |-> "running", pct |-> 5, resource |-> 0]>>,
     secrets |-> <<[urn |-> URN(1, 1), tenant |-> 1, value |-> 1], [urn |-> URN(2, 2), tenant |-> 2, value |-> 1]>>
                 \o Keys,
     terms |-> <<Term(1, 1, 1, 0), Term(2, 1, 3, 1), Term(3, 2, 1, 0)>>,
     assignments |-> <<[tenant |-> 2, term |-> 3, asset |-> 4, by |-> 9]>>,
     items |-> <<Item(1, 1, 1, 1), Item(2, 2, 9, 0)>>,
     votes |-> <<[item |-> 1, voter |-> 9]>>,
     comments |-> <<>>,
     profiles |-> <<[tenant |-> 2, asset |-> 4, at |-> 0, report |-> <<>>]>>,
     lineage |-> <<>>,
     providers |-> <<Config(1, 1, "openai", "chat", ProviderURN(1), TRUE), Config(2, 1, "openai", "chat", ProviderURN(2), FALSE),
                     Config(3, 2, "openai", "chat", ProviderURN(3), TRUE)>>,
     vectors |-> <<Config(1, 1, "pinecone", "", VectorURN(1), TRUE), Config(2, 1, "pgvector", "", NoURN, FALSE),
                   Config(3, 2, "memory", "", NoURN, TRUE)>>,
     executions |-> <<[id |-> 1, tenant |-> 2, conn |-> 2, sql |-> <<<<"select">>>>, by |-> 9, status |-> "generated"]>>,
     descriptions |-> <<>>,
     costs |-> <<>>,
     pipelines |-> <<[tenant |-> 1] @@ Pipe(1, 1, FALSE, "hourly", TRUE), [tenant |-> 2] @@ Pipe(2, 1, FALSE, "", FALSE)>>,
     pipelineRuns |-> <<PipelineRun(1, 1, "succeeded"), PipelineRun(2, 2, "running")>>,
     taskRuns |-> <<[id |-> 2, run |-> 2, tenant |-> 2, status |-> "running"]>>,
     logs |-> <<[id |-> 1, tenant |-> 1, run |-> 1], [id |-> 2, tenant |-> 2, run |-> 2], [id |-> 3, tenant |-> 1, run |-> 1]>>,
     tombs |-> {}]

MCSeed == Seed(CASE area = "assets" -> Plain [] area = "profiles" -> Wide [] area = "ask" -> Searched [] area = "connectors" -> Described [] OTHER -> Columns)

mvars == <<area, db, req, started, faults, catvars, orphaned, tvars, kvars, avars, pvars, cvars>>

MCInit ==
    /\ area \in Areas
    /\ InitRequests(MCSeed)
    /\ InitCatalog /\ (area \notin {"assets", "connectors"} => store = "postgres")
    /\ orphaned = {}
    /\ InitTasks
    /\ InitAsker
    /\ InitKnowledge /\ (area # "feedback" => repo = "postgres")
    /\ InitConnectors
    /\ InitPipelines /\ (area # "pipelines" => pipelineStore = "postgres")

\* bound: a crawl meets a request, which renames to <<1, 2>> if it renames, or another crawl that emits
\* the same and starts later; and one that meets another succeeds or loses to it
Disturbed ==
    /\ \A i \in DOMAIN db.assets : db.assets[i].qn[1] = 1 => db.assets[i].qn = <<1, 2>>
    /\ crawls[2] # NoCrawl => started = 0 /\ faults = 0 /\ crawls[1].all = crawls[2].all

\* bound: two requests where much else happens
TwoRequests == started' \in {n \in {started, started + 1} : n <= 2}

\* Assets that terms are assigned to go.
DeleteAssets == (\E r \in Requests, p \in People : DeleteAssetRequest(r, p)) /\ UNCHANGED kvars

MCNext ==
    /\ UNCHANGED area
    /\ \/ area = "assets" /\ TwoRequests /\ CatalogNext /\ (finished # {} => walks' = walks) /\ UNCHANGED <<orphaned, tvars, kvars, avars, pvars, cvars>>
       \/ area = "connections" /\ ConnectionsNext /\ UNCHANGED <<catvars, tvars, kvars, avars, pvars, cvars>>
       \/ area = "tasks" /\ TwoRequests /\ TasksNext /\ UNCHANGED <<catvars, orphaned, kvars, avars, pvars, cvars>>
       \/ area = "glossary" /\ (GlossaryNext \/ DeleteAssets) /\ UNCHANGED <<catvars, orphaned, tvars, avars, pvars, cvars>>
       \/ area = "feedback" /\ FeedbackNext /\ UNCHANGED <<catvars, orphaned, tvars, avars, pvars, cvars>>
       \/ area = "profiles" /\ ProfilesNext /\ UNCHANGED <<catvars, orphaned, tvars, avars, pvars, cvars>>
       \/ area = "providers" /\ ProvidersNext /\ UNCHANGED <<catvars, orphaned, tvars, kvars, avars, pvars, cvars>>
       \/ area = "vectors" /\ VectorsNext /\ UNCHANGED <<catvars, orphaned, tvars, kvars, avars, pvars, cvars>>
       \/ area = "ask" /\ TwoRequests /\ AskNext /\ UNCHANGED <<catvars, orphaned, tvars, kvars, pvars, cvars>>
       \/ area = "pipelines" /\ TwoRequests /\ PipelinesNext /\ UNCHANGED <<catvars, orphaned, tvars, kvars, avars, cvars>>
       \/ area = "connectors" /\ ConnectorsNext /\ Disturbed' /\ UNCHANGED <<orphaned, tvars, kvars, avars, pvars>>

MCSpec == MCInit /\ [][MCNext]_mvars

\* A walk through the pages finds every asset, and a name the asset it is of.
LookupsExact == PagesComplete /\ NamesExact

\* Passwords and API keys: a row that should have one has it, in the vault,
\* and the vault keeps none that nothing refers to.
CredentialsKept == SecretsReachable /\ OrphansExplained /\ ConfigsUsable

\* The catalog shows what the sources have, and how it was classified.
SourceProjected == TreeProjected /\ ClassificationsShown /\ SinkFaithful /\ LastEmissionStands

\* What people say of assets, and what profiles do.
KnowledgeKept == GlossaryConsistent /\ VotesCounted /\ ReportsFaithful

\* A question runs SELECTs on the asker's connection, from what he may see.
QuestionsSafe == OnlySelects /\ PromptsOwn

\* Pipelines stand as they were last written and their logs are streamed as
\* they were.
PipelinesServed == PipelinesStand /\ StreamFaithful

\* What a job or a primary has reached it does not fall back from.
RowsAdvance == JobsAdvance /\ PrimaryKept

\* Requests and the tasks they start see and change rows of their own tenant
\* only; what the search shows, the policies let the caller read.  Two cases
\* are the code's own: a creation in memory replaces the pipeline whose id it
\* names, whosever it is, and an asset shows the terms assigned to it, by its
\* own tenant, whosever they are.  What is shown is looked at in the areas
\* where it changes.
CatalogApart ==
    /\ LET seed == MCSeed
           Owned == {"assets", "connections", "secrets", "jobs", "embeddings", "terms", "profiles", "providers", "vectors",
                     "executions", "pipelineRuns", "taskRuns", "logs"}
       IN  /\ \A t \in Owned : Foreign(db[t]) = Foreign(seed[t])
           /\ Foreign(db.pipelines) = Foreign(seed.pipelines) \ taken
           /\ InPostgres => taken = {}
    /\ \A p \in People :
           LET Own(rows) == \A x \in rows : x.tenant = p.tenant
               found == SemanticSearchRequest(p, {Rule}, 20)
           IN  /\ area \in {"assets", "tasks", "connectors"} =>
                      /\ Own(GetAssetRequest(p)) /\ Own(GetByQNRequest(p)) /\ Own(Range1(ListAssetsRequest(p, "", 0, 0).assets))
                      /\ Own(SearchAssetsRequest(p, 2)) /\ \A id \in AssetIds : Own(LineageRequest(p, id))
               /\ area = "connections" => Own(GetConnectionRequest(p)) /\ Own(ListConnectionsRequest(p))
               /\ area = "tasks" =>
                      /\ Own(GetJobRequest(p)) /\ Own(ListJobsRequest(p)) /\ Own(ClassifyScopeRequest(p)) /\ Own(ClassifyPreviewRequest(p))
                      /\ Own(AssetClassificationsRequest(p)) /\ Own(found) /\ \A a \in found : "phone" \notin a.tags
               /\ area = "glossary" =>
                      /\ Own(ListTermsRequest(p)) /\ Own(GetTermRequest(p)) /\ Own(AssetsForTermRequest(p))
                      /\ \A x \in TermsForAssetRequest(p) :
                             \E a \in Range1(db.assignments) : a.tenant = p.tenant /\ a.term = x.term /\ a.asset = x.asset
               /\ area = "feedback" =>
                      Own(ListFeedbackRequest(p, FALSE)) /\ (Platform(p) \/ Own(GetFeedbackRequest(p) \cup ListFeedbackRequest(p, TRUE)))
               /\ area = "profiles" => Own(ColumnLineageRequest(p))
               /\ area = "providers" => Own(ListAIProvidersRequest(p))
               /\ area = "vectors" => Own(ListVectorStoresRequest(p)) /\ Own(GetVectorStoreRequest(p))
               /\ area = "ask" => Own(AskHistoryRequest(p, 2))
               /\ area = "pipelines" =>
                      /\ Own(ListPipelinesRequest(p)) /\ Own(GetPipelineRequest(p)) /\ Own(GetRunRequest(p))
                      /\ Own(ListPipelineRunsRequest(p, 0, 501)) /\ Own(ListTaskRunsRequest(p)) /\ Own(ListRunLogsRequest(p, 0, 1))
=============================================================================
