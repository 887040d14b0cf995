SPECIFICATION Spec
CONSTANTS
    Conns = {c1, c2}
    dns_timeout_factor <- DEFAULT_DNS_TIMEOUT_FACTOR
    dns_overlap_factor <- DEFAULT_DNS_OVERLAP_FACTOR
    dns_send_interval <- DEFAULT_DNS_SEND_INTERVAL
    dns_max_outstanding = 2
    SEQNO_MOD = 8
    MAX_WINDOW = 3
    MAX_BACKLOG = 1
    Clock <- ClockRunning
    Rtts <- RoundTrips
    MaxLost = 1
    MaxRequests = 3
    MaxPackets = 2
SYMMETRY Symmetry
INVARIANTS
    TypeOK
    UniqueIds
    OverdueBounded
    Polled
    QueueMatchesSessions
CHECK_DEADLOCK TRUE
