SPECIFICATION Spec
CONSTANTS
    Colours = {blue, red}
    Percents = {full, half}
    BLUE = blue
    FULL = full
    None = None
    MaxInFlight = 2
    MaxCalls = 1
PROPERTIES
    OffIsOff
