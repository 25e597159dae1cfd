SPECIFICATION Spec
CONSTANTS
    Drawn = {a, seed}
    Builtin = quiet
    SEED = seed
    None = None
    MaxInFlight = 2
    MaxCalls = 2
PROPERTY
    ViewSwitchIsNoEdit
