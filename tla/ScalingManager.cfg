CONSTANTS
    Npcs = {n1, n2, n3}
    Bosses = {n2, n3}
    MaxParty = 4
    TestCounts = {0, 2, 5}
    PartyHooks = TRUE
    DebugConsole = TRUE
SPECIFICATION Spec
INVARIANTS
    TypeOK
    ScalingRecordsCurrent
