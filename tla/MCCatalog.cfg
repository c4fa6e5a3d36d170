CONSTANTS
    r1 = r1
    r2 = r2
    w1 = w1
    w2 = w2
    c1 = c1
    Requests = {r1, r2}
    MaxRequests = 3
    MaxFaults = 1
    People <- MCPeople
    Stores = {"postgres", "memory"}
    AssetBodies <- MCAssetBodies
    OwnerLists <- MCOwnerLists
    PageSize = 1
    Clients = {c1}
    ConnNames = {0, 1, 2}
    Types = {"", "postgres"}
    Testers = {"postgres"}
    Passwords = {0, 1}
    Workers = {w1, w2}
    Crawlers = {"postgres"}
    Samplers = {"postgres"}
    Tree <- MCTree
    Sensitive <- MCSensitive
    Samples <- MCSamples
    Decisions <- MCDecisions
    IndexPage = 2
    TermBodies <- MCTermBodies
    Items <- MCItems
    Triages <- MCTriages
    DataTypes <- MCDataTypes
    Dialects = {"postgres"}
    FreshFor = 1
    MaxNow = 2
    ColumnEdges <- MCColumnEdges
    ProviderKinds = {"openai", "ollama"}
    KeyOptional = {"ollama"}
    ProviderBodies <- MCProviderBodies
    VectorKinds = {"pgvector", "memory", "pinecone"}
    RemoteKinds = {"pinecone"}
    KeyedKinds = {"pinecone"}
    VectorBodies <- MCVectorBodies
    Sqls <- MCSqls
    SqlTypes = {"postgres"}
    Warehouses = {"postgres"}
    TopK = 1
    MaxColumns = 1
    PipelineStores = {"postgres", "memory"}
    PipelineBodies <- MCPipelineBodies
    LogPage = 1
    MaxLines = 1
    Crawls = {1, 2}
    Configs <- MCConfigs
    SinkBatch = 3
    MaxEdits = 1
    Areas = {"assets", "connections", "tasks", "glossary", "feedback", "profiles", "providers", "vectors", "ask", "pipelines", "connectors"}
SPECIFICATION MCSpec
CHECK_DEADLOCK FALSE
INVARIANTS
    LookupsExact
    CredentialsKept
    SourceProjected
    KnowledgeKept
    QuestionsSafe
    PipelinesServed
    CatalogApart
PROPERTIES
    RowsAdvance
SYMMETRY RequestSymmetry
