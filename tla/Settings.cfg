SPECIFICATION MCSpec
CONSTANTS
    Users = {u1, u2}
    Colours = {blue, red}
    Percents = {full, half}
    BLUE = blue
    FULL = full
    EcMayRefuse = TRUE
    None = None
    Cut = Cut
SYMMETRY Symmetry
INVARIANTS
    BacklightAsRemembered
    ClientsSeeTheSettings
PROPERTIES
    OnlyChoicesAreApplied
