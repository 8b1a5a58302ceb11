CONSTANTS
    c1 = c1
    c2 = c2
    Clients <- MCClients
    KeyOf <- MCKeyOf
    MaxSends <- MCMaxSends
    Guids = {1, 2}
    FactBytes = {116}
    SessionIds = {7}
    GatedSent = {"heartbeat"}
    RelaySent = {"cutscene"}
    Expiry = 1
    MaxNonces = 2
    Lossy = TRUE
SPECIFICATION Spec
INVARIANTS
    TypeOK
    AuthenticatedHoldsKey
PROPERTIES
    SilentEntriesExpire
