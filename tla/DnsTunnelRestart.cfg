SPECIFICATION Spec
CONSTANTS
    SEQNO_MOD = 8
    MAX_WINDOW = 3
    MAX_BACKLOG = 5
    MAXSIZE = 2
    MaxOutstanding = 3
    ReqCapacity <- MCReqCapacity
    RepBudget = 5
    TXT_MAX = 2
    ClientPackets <- MCClientPackets
    ServerPackets <- MCServerPackets
    MaxIds = 3
    SeqBound = 4
    Lifetime = 3
    LateSyn = FALSE
    MaxResolverErrors = 0
    MaxRestarts = 1
    CasePreserving = {FALSE}
    PathFolds = {FALSE}
    NULL = NULL
INVARIANT
    Authentic
CHECK_DEADLOCK FALSE
