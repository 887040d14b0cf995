SPECIFICATION Spec
CONSTANTS
    Hosts = {h1, h2}
    StaleBytes = {stale}
    MTU <- MCMTU
    Confs <- MCConfs
    Payloads <- MCPayloads
    MaxPackets <- MCMaxPackets
INVARIANTS
    TypeOK
    DescriptorOpen
    Interoperable
PROPERTIES
    Served
