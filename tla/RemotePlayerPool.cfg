CONSTANTS
    MaxPlayers = 3
    MaxRemote = 2
    MaxEntities = 6
SPECIFICATION Spec
INVARIANTS
    TypeOK
    DistinctHudSlots
