SPECIFICATION Spec
CONSTANTS
    Users = {}
    Colours = {blue, red}
    Percents = {full, half}
    BLUE = blue
    FULL = full
    EcMayRefuse = FALSE
    None = None
    Cut = Cut
PROPERTY
    ColourComesBack
