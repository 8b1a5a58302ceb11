CONSTANTS
    c1 = c1
    c2 = c2
    Clients <- MCClients
    KeyOf <- MCKeyOf
    MaxSends <- MCMaxSendsParty
    Guids = {1, 2}
    FactBytes = {0, 116}
    SessionIds = {0, 7}
    GatedSent = {"heartbeat", "quest_lock", "achievement"}
    RelaySent = {}
    Expiry = 1
    MaxNonces = 2
    Lossy = FALSE
SPECIFICATION Spec
PROPERTIES
    FactRelayed
