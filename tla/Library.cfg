SPECIFICATION Spec
CONSTANTS
    A = A
    B = B
    C = C
    D = D
    NoName = NoName
    Root = Root
    Threads = {t, u}
    Texts = {x, y, z}
    CacheSize = 1
    MaxTexts = 2
    MaxEmbedded = 3
    ChunkId = {A, B, C}
    References = {"r", "s"}
    MaxAdded = 4
    MaxRetries = 2
    MaxAttempts = 2
    Clients = {A, B}
    MaxCalls = 2
    MaxDeeds = 2
SYMMETRY MCSymmetry
INVARIANTS
    ChunksRight
    ConditionsLikePython
    SearchRight
    EmbeddingsRight
    LinksAgree
    ContextRight
    StoresRight
    JudgedRight
    WorkflowRight
    WiringRight
CHECK_DEADLOCK FALSE
