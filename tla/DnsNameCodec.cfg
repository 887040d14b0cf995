SPECIFICATION Spec
CONSTANTS
    MAX_DEC_LEN = 48
    NumClients = 1
    Nodes <- MCNodes
    Domain <- MCDomain
    dns_case_preserving = TRUE
    MAX_DOMAIN_SIZE = 75
    MAX_LBL_SIZE = 63
    MAXSIZE = 512
    MaxUid = 2
    MaxRetry = 4
    Seqnos <- MCSeqnos
    Payloads <- MCPayloads
    Forged <- MCForged
    Spoofed <- MCSpoofed
    StaleBytes <- MCStaleBytes
    Replies <- MCReplies
INVARIANTS
    TypeOK
    StreamIdentified
    DataExact
    SynVerdict
    NameBudget
    ReplyUnderstood
