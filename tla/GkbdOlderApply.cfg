SPECIFICATION MCSpec
CONSTANTS
    Users = {u1, u2}
    Colours = {blue, red}
    Percents = {full, half}
    BLUE = blue
    FULL = full
    EcMayRefuse = FALSE
    None = None
    Cut = Cut
PROPERTY
    InvocationsSerialise
SYMMETRY Symmetry
