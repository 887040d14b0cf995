SPECIFICATION FairSpec
CONSTANTS
    SEQNO_MOD = 4
    MAX_WINDOW = 2
    MAX_BACKLOG = 5
    MAXSIZE = 2
    MaxOutstanding = 1
    ReqCapacity <- MCReqCapacity
    RepBudget = 5
    TXT_MAX = 2
    ClientPackets <- MCClientPackets1
    ServerPackets <- MCNoPackets
    MaxIds = 2
    SeqBound = 4
    Lifetime = 2
    LateSyn = FALSE
    MaxResolverErrors = 1
    MaxRestarts = 1
    CasePreserving = {TRUE}
    PathFolds = {TRUE, FALSE}
    NULL = NULL
INVARIANT
    SessionCodec
PROPERTIES
    Resynchronises
CHECK_DEADLOCK TRUE
