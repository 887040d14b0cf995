SPECIFICATION Spec
CONSTANTS
    SEQNO_MOD = 8
    MAX_WINDOW = 3
    MAX_BACKLOG = 5
    MAXSIZE = 2
    MaxOutstanding = 3
    ReqCapacity <- MCReqCapacity
    RepBudget = 5
    TXT_MAX = 2
    ClientPackets <- MCClientPackets
    ServerPackets <- MCServerPackets1
    MaxIds = 3
    SeqBound = 4
    Lifetime = 3
    LateSyn = FALSE
    MaxResolverErrors = 0
    MaxRestarts = 0
    CasePreserving = {TRUE, FALSE}
    PathFolds = {TRUE, FALSE}
    NULL = NULL
INVARIANTS
    TypeOK
    CodecAgreement
    ReorderSetInWindow
    SequenceOrder
PROPERTIES
    C2S_Link
    S2C_Link
CHECK_DEADLOCK TRUE
