SPECIFICATION FairSpec
CONSTANTS
    SEQNO_MOD = 4
    MAX_WINDOW = 2
    MAX_BACKLOG = 5
    MAXSIZE = 2
    MaxOutstanding = 2
    ReqCapacity <- MCReqCapacity
    RepBudget = 5
    TXT_MAX = 2
    ClientPackets <- MCClientPackets
    ServerPackets <- MCServerPackets1
    MaxIds = 2
    SeqBound = 4
    Lifetime = 2
    LateSyn = FALSE
    MaxResolverErrors = 0
    MaxRestarts = 0
    CasePreserving = {TRUE, FALSE}
    PathFolds = {TRUE, FALSE}
    NULL = NULL
PROPERTIES
    Establishes
    C2S_Delivered
    S2C_Delivered
CHECK_DEADLOCK TRUE
