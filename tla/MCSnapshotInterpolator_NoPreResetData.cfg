CONSTANTS
    MaxSamples = 3
    MaxTime = 700
    FineSteps = 1
    FineFrames = 1
SPECIFICATION Spec
PROPERTIES
    NoPreResetData
