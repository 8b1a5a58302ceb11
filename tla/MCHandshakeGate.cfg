CONSTANTS
    Sids = {0, 7}
    Achievements <- MCAchievements
    AchLen = 3
    Items = {"Crowns", "relic"}
    Crowns = "Crowns"
    Others = {"stranger"}
    InKinds = {"handshake", "loot", "achievement", "heartbeat"}
    MaxPkts = 4
SPECIFICATION FairSpec
INVARIANTS
    TypeOK
    LootConservation
    AchievementIdsFromScripts
PROPERTIES
    GateRefinement
    LootEventuallyLeaves
