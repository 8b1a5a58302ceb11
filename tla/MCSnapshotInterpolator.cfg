CONSTANTS
    MaxSamples = 4
    MaxTime = 1200
    FineSteps = 1
    FineFrames = 1
SPECIFICATION Spec
INVARIANTS
    AngleWrapShortest
    TypeOK
    RingHoldsLatest
PROPERTIES
    InterpolationBrackets
    ExtrapolationFromNewest
    RecoveryBlendWindow
    LegacyRefinement
