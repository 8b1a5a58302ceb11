CONSTANTS
    InitialDrifts = {7}
    Period = 5
    Window = 3
    DebugConsole = FALSE
    Weathers = {"clear"}
    HostWeathers = {"clear"}
SPECIFICATION Spec
PROPERTY SmoothingCompletes
