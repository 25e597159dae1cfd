SPECIFICATION EditSpec
CONSTANTS
    Inputs <- MCInputs
    Moves <- MCMoves
    MaxEdits = 2
INVARIANTS
    ValidCurve
    RisesThroughItsPoints
PROPERTIES
    RestartKeepsTheCurve
    DrawnIsDriven
